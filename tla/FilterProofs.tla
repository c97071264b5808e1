----------------------------- MODULE FilterProofs -----------------------------
(***************************************************************************)
(* What FilterManager makes of a filter, for any number of formulas of any  *)
(* size.                                                                    *)
(***************************************************************************)
EXTENDS Filter, SequenceTheorems, WellFoundedInduction, TLAPS

----------------------------------------------------------------------------
(* Texts: lists of tokens. *)

LEMMA FirstToken ==
    ASSUME NEW S, NEW t \in S, NEW s \in Seq(S)
    PROVE  /\ <<t>> \o s \in Seq(S)
           /\ Head(<<t>> \o s) = t
           /\ Tail(<<t>> \o s) = s
           /\ <<t>> \o s # <<>>
           /\ Len(<<t>> \o s) = 1 + Len(s)
<1>1. <<t>> \in Seq(S) /\ Len(<<t>>) = 1 /\ <<t>>[1] = t
  OBVIOUS
<1>2. PICK u : u = <<t>> \o s
  OBVIOUS
<1>3. /\ u \in Seq(S) /\ Len(u) = 1 + Len(s)
      /\ \A i \in 1..1 + Len(s) : u[i] = IF i <= 1 THEN t ELSE s[i - 1]
  BY <1>1, <1>2, ConcatProperties
<1>4. Len(s) \in Nat
  OBVIOUS
<1>5. u # <<>> /\ u[1] = t
  BY <1>3, <1>4
<1>6. /\ Head(u) = t /\ Tail(u) \in Seq(S) /\ Len(Tail(u)) = Len(s)
      /\ \A i \in 1..Len(s) : Tail(u)[i] = s[i]
  <2>1. /\ Tail(u) \in Seq(S) /\ Len(Tail(u)) = Len(u) - 1
        /\ \A i \in 1..Len(Tail(u)) : Tail(u)[i] = u[i + 1]
    BY <1>3, <1>5, HeadTailProperties
  <2>2. Len(Tail(u)) = Len(s)
    BY <1>3, <1>4, <2>1
  <2>3. ASSUME NEW i \in 1..Len(s) PROVE Tail(u)[i] = s[i]
    <3>1. Tail(u)[i] = u[i + 1]
      BY <2>1, <2>2, <2>3
    <3>2. i + 1 \in 1..1 + Len(s) /\ ~(i + 1 <= 1) /\ (i + 1) - 1 = i
      BY <1>4, <2>3
    <3>3. QED  BY <1>3, <3>1, <3>2
  <2>4. Head(u) = t
    BY <1>3, <1>5
  <2>5. QED  BY <2>1, <2>2, <2>3, <2>4
<1>7. Tail(u) = s
  BY <1>6, SeqEqual
<1>8. QED  BY <1>2, <1>3, <1>5, <1>6, <1>7

LEMMA PlanPrecs ==
    /\ PlanPrec("==") = 20 /\ PlanPrec("!=") = 20 /\ PlanPrec(">") = 7 /\ PlanPrec("NOT") = 19
    /\ PlanPrec("IN") = 15 /\ PlanPrec("AND") = 3 /\ PlanPrec("OR") = 2
  BY DEF PlanPrec

LEMMA SqlPrecs ==
    SqlPrec("=") = 4 /\ SqlPrec("<>") = 4 /\ SqlPrec("NOT") = 3 /\ SqlPrec("AND") = 2 /\ SqlPrec("OR") = 1
  BY DEF SqlPrec

LEMMA SqlOps == SqlOp["=="] = "=" /\ SqlOp["!="] = "<>" /\ SqlOp[">"] = ">"
  BY DEF SqlOp, Comparison

(* A set of natural numbers has a least element. *)
LEMMA LeastNatural ==
    ASSUME NEW T \in SUBSET Nat, T # {}
    PROVE  \E m \in T : \A k \in T : m <= k
<1> DEFINE less == OpToRel(<, Nat)
<1>1. \E m \in T : \A k \in T : <<k, m>> \notin less
  <2>1. IsWellFoundedOn(less, Nat)
    BY NatLessThanWellFounded
  <2> HIDE DEF less
  <2>2. QED  BY <2>1, WFMin, Zenon
<1>2. \A k, m \in Nat : <<k, m>> \in less <=> k < m
  BY DEF OpToRel
<1> HIDE DEF less
<1>3. PICK m \in T : \A k \in T : <<k, m>> \notin less
  BY <1>1
<1>4. \A k \in T : m <= k
  <2> SUFFICES ASSUME NEW k \in T PROVE m <= k
    OBVIOUS
  <2>1. k \in Nat /\ m \in Nat
    OBVIOUS
  <2>2. ~(k < m)
    BY <1>2, <1>3, <2>1
  <2>3. QED  BY <2>1, <2>2
<1>5. QED  BY <1>4

----------------------------------------------------------------------------
(* The recursive functions of Filter are what their definitions say: there  *)
(* is one on the depths up to n for every n, it is the only one, and these  *)
(* together are the function on all depths.                                 *)

ParserStep(parse) ==
    [c \in ParserCall |->
        IF c.left = {} THEN Primary(parse, c.rest, c.least)
        ELSE Operator(parse, CHOOSE n \in c.left : TRUE, c.rest, c.least)]

LEMMA ParserUnfolds == \A d \in Nat \ {0} : Parser[d] = ParserStep(Parser[d - 1])
<1> DEFINE F(g, d) == IF d = 0 THEN <<>> ELSE ParserStep(g[d - 1])
           Is(g, n) == g = [d \in 0..n |-> F(g, d)]
<1>1. \A n \in Nat : \E g : Is(g, n)
  <2> DEFINE Bad == {n \in Nat : ~\E g : Is(g, n)}
  <2> SUFFICES ASSUME Bad # {} PROVE FALSE
    OBVIOUS
  <2>1. PICK n \in Bad : \A k \in Bad : n <= k
    <3>1. Bad \in SUBSET Nat
      OBVIOUS
    <3> HIDE DEF Bad
    <3>2. QED  BY <3>1, LeastNatural
  <2>2. n # 0
    <3>1. Is([d \in 0..0 |-> <<>>], 0)
      OBVIOUS
    <3>2. QED  BY <2>1, <3>1
  <2>3. PICK g : Is(g, n - 1)
    <3>1. n \in Nat
      OBVIOUS
    <3>2. n - 1 \in Nat /\ ~(n <= n - 1)
      BY <2>2, <3>1
    <3>3. n - 1 \notin Bad
      <4> HIDE DEF Bad
      <4>1. QED  BY <2>1, <3>2
    <3>4. QED  BY <3>2, <3>3
  <2> HIDE DEF F
  <2>4. PICK h : h = [d \in 0..n |-> IF d = n THEN ParserStep(g[n - 1]) ELSE g[d]]
    OBVIOUS
  <2>5. ASSUME NEW d \in 0..n PROVE h[d] = F(h, d)
    <3>1. CASE d = n
      <4>1. h[n - 1] = g[n - 1] /\ h[d] = ParserStep(g[n - 1])
        BY <2>1, <2>2, <2>4, <3>1
      <4>2. QED  BY <2>2, <3>1, <4>1 DEF F
    <3>2. CASE d # n
      <4>1. d \in 0..n - 1 /\ h[d] = g[d]
        BY <2>1, <2>4, <3>2
      <4>2. g[d] = F(g, d)
        BY <2>3, <4>1
      <4>3. d # 0 => h[d - 1] = g[d - 1]
        BY <2>1, <2>4, <4>1
      <4>4. QED  BY <4>1, <4>2, <4>3 DEF F
    <3>3. QED  BY <3>1, <3>2
  <2>6. Is(h, n)
    BY <2>4, <2>5
  <2>7. QED  BY <2>1, <2>6
<1>2. ASSUME NEW n \in Nat, NEW m \in Nat, NEW g, NEW h, Is(g, n), Is(h, m), n <= m
      PROVE  \A d \in 0..n : g[d] = h[d]
  <2> DEFINE Bad == {d \in 0..n : g[d] # h[d]}
  <2> SUFFICES ASSUME Bad # {} PROVE FALSE
    OBVIOUS
  <2>1. PICK d \in Bad : \A k \in Bad : d <= k
    <3>1. Bad \in SUBSET Nat
      OBVIOUS
    <3> HIDE DEF Bad
    <3>2. QED  BY <3>1, LeastNatural
  <2>2. d \in 0..n /\ d \in 0..m /\ g[d] # h[d]
    BY <1>2, <2>1
  <2>3. g[d] = F(g, d) /\ h[d] = F(h, d)
    <3> HIDE DEF F
    <3>1. QED  BY <1>2, <2>2
  <2>4. d # 0
    BY <2>2, <2>3
  <2>5. d - 1 \in 0..n /\ d - 1 \notin Bad
    BY <2>1, <2>2, <2>4
  <2>6. g[d - 1] = h[d - 1]
    BY <2>5
  <2>7. QED  BY <2>2, <2>3, <2>6
<1> DEFINE G(n) == CHOOSE g : Is(g, n)
<1>3. \A n \in Nat : Is(G(n), n)
  <2> HIDE DEF F
  <2>1. QED  BY <1>1
<1> HIDE DEF G
<1>4. PICK f : f = [d \in Nat |-> G(d)[d]]
  OBVIOUS
<1>5. ASSUME NEW d \in Nat PROVE f[d] = F(f, d)
  <2>1. f[d] = F(G(d), d)
    <3> HIDE DEF F
    <3>1. QED  BY <1>3, <1>4
  <2>2. ASSUME d # 0 PROVE G(d)[d - 1] = f[d - 1]
    <3>1. d - 1 \in Nat /\ d - 1 <= d /\ d - 1 \in 0..d - 1
      BY <2>2
    <3>2. Is(G(d - 1), d - 1) /\ Is(G(d), d)
      BY <1>3, <3>1
    <3> HIDE DEF Is
    <3>3. G(d - 1)[d - 1] = G(d)[d - 1]
      BY <1>2, <3>1, <3>2
    <3>4. QED  BY <1>4, <3>1, <3>3
  <2>3. QED  BY <2>1, <2>2
<1>6. f = [d \in Nat |-> F(f, d)]
  <2> HIDE DEF F
  <2>1. QED  BY <1>4, <1>5
<1>7. Parser = [d \in Nat |-> F(Parser, d)]
  <2>1. Parser = CHOOSE g : g = [d \in Nat |-> F(g, d)]
    BY DEF Parser, ParserStep
  <2> HIDE DEF F
  <2>2. QED  BY <1>6, <2>1
<1>8. QED  BY <1>7
ReaderStep(read) ==
    [c \in ReaderCall |->
        IF c.left = {} THEN SqlPrimary(read, c.rest, c.least)
        ELSE SqlOperator(read, CHOOSE n \in c.left : TRUE, c.rest, c.least)]

LEMMA ReaderUnfolds == \A d \in Nat \ {0} : Reader[d] = ReaderStep(Reader[d - 1])
<1> DEFINE F(g, d) == IF d = 0 THEN <<>> ELSE ReaderStep(g[d - 1])
           Is(g, n) == g = [d \in 0..n |-> F(g, d)]
<1>1. \A n \in Nat : \E g : Is(g, n)
  <2> DEFINE Bad == {n \in Nat : ~\E g : Is(g, n)}
  <2> SUFFICES ASSUME Bad # {} PROVE FALSE
    OBVIOUS
  <2>1. PICK n \in Bad : \A k \in Bad : n <= k
    <3>1. Bad \in SUBSET Nat
      OBVIOUS
    <3> HIDE DEF Bad
    <3>2. QED  BY <3>1, LeastNatural
  <2>2. n # 0
    <3>1. Is([d \in 0..0 |-> <<>>], 0)
      OBVIOUS
    <3>2. QED  BY <2>1, <3>1
  <2>3. PICK g : Is(g, n - 1)
    <3>1. n \in Nat
      OBVIOUS
    <3>2. n - 1 \in Nat /\ ~(n <= n - 1)
      BY <2>2, <3>1
    <3>3. n - 1 \notin Bad
      <4> HIDE DEF Bad
      <4>1. QED  BY <2>1, <3>2
    <3>4. QED  BY <3>2, <3>3
  <2> HIDE DEF F
  <2>4. PICK h : h = [d \in 0..n |-> IF d = n THEN ReaderStep(g[n - 1]) ELSE g[d]]
    OBVIOUS
  <2>5. ASSUME NEW d \in 0..n PROVE h[d] = F(h, d)
    <3>1. CASE d = n
      <4>1. h[n - 1] = g[n - 1] /\ h[d] = ReaderStep(g[n - 1])
        BY <2>1, <2>2, <2>4, <3>1
      <4>2. QED  BY <2>2, <3>1, <4>1 DEF F
    <3>2. CASE d # n
      <4>1. d \in 0..n - 1 /\ h[d] = g[d]
        BY <2>1, <2>4, <3>2
      <4>2. g[d] = F(g, d)
        BY <2>3, <4>1
      <4>3. d # 0 => h[d - 1] = g[d - 1]
        BY <2>1, <2>4, <4>1
      <4>4. QED  BY <4>1, <4>2, <4>3 DEF F
    <3>3. QED  BY <3>1, <3>2
  <2>6. Is(h, n)
    BY <2>4, <2>5
  <2>7. QED  BY <2>1, <2>6
<1>2. ASSUME NEW n \in Nat, NEW m \in Nat, NEW g, NEW h, Is(g, n), Is(h, m), n <= m
      PROVE  \A d \in 0..n : g[d] = h[d]
  <2> DEFINE Bad == {d \in 0..n : g[d] # h[d]}
  <2> SUFFICES ASSUME Bad # {} PROVE FALSE
    OBVIOUS
  <2>1. PICK d \in Bad : \A k \in Bad : d <= k
    <3>1. Bad \in SUBSET Nat
      OBVIOUS
    <3> HIDE DEF Bad
    <3>2. QED  BY <3>1, LeastNatural
  <2>2. d \in 0..n /\ d \in 0..m /\ g[d] # h[d]
    BY <1>2, <2>1
  <2>3. g[d] = F(g, d) /\ h[d] = F(h, d)
    <3> HIDE DEF F
    <3>1. QED  BY <1>2, <2>2
  <2>4. d # 0
    BY <2>2, <2>3
  <2>5. d - 1 \in 0..n /\ d - 1 \notin Bad
    BY <2>1, <2>2, <2>4
  <2>6. g[d - 1] = h[d - 1]
    BY <2>5
  <2>7. QED  BY <2>2, <2>3, <2>6
<1> DEFINE G(n) == CHOOSE g : Is(g, n)
<1>3. \A n \in Nat : Is(G(n), n)
  <2> HIDE DEF F
  <2>1. QED  BY <1>1
<1> HIDE DEF G
<1>4. PICK f : f = [d \in Nat |-> G(d)[d]]
  OBVIOUS
<1>5. ASSUME NEW d \in Nat PROVE f[d] = F(f, d)
  <2>1. f[d] = F(G(d), d)
    <3> HIDE DEF F
    <3>1. QED  BY <1>3, <1>4
  <2>2. ASSUME d # 0 PROVE G(d)[d - 1] = f[d - 1]
    <3>1. d - 1 \in Nat /\ d - 1 <= d /\ d - 1 \in 0..d - 1
      BY <2>2
    <3>2. Is(G(d - 1), d - 1) /\ Is(G(d), d)
      BY <1>3, <3>1
    <3> HIDE DEF Is
    <3>3. G(d - 1)[d - 1] = G(d)[d - 1]
      BY <1>2, <3>1, <3>2
    <3>4. QED  BY <1>4, <3>1, <3>3
  <2>3. QED  BY <2>1, <2>2
<1>6. f = [d \in Nat |-> F(f, d)]
  <2> HIDE DEF F
  <2>1. QED  BY <1>4, <1>5
<1>7. Reader = [d \in Nat |-> F(Reader, d)]
  <2>1. Reader = CHOOSE g : g = [d \in Nat |-> F(g, d)]
    BY DEF Reader, ReaderStep
  <2> HIDE DEF F
  <2>2. QED  BY <1>6, <2>1
<1>8. QED  BY <1>7

(* What Written and Means say of a formula depends on its parts only.       *)
LEMMA PartsBefore ==
    ASSUME NEW f \in DOMAIN Formulas
    PROVE  /\ f \in Nat /\ f <= Len(Formulas)
           /\ Formulas[f].op \in {"key", "IN", "NOT", "AND", "OR", "=="}
           /\ Formulas[f].op = "key" => Formulas[f] \in [op : {"key"}, key : Keys, cmp : Comparison, num : Number]
           /\ Formulas[f].op = "IN" => Formulas[f] \in [op : {"IN"}, key : Keys, list : SUBSET Number]
           /\ Formulas[f].op = "NOT" => Formulas[f].of \in 1..f - 1 /\ Formulas[f].of \in DOMAIN Formulas
           /\ Formulas[f].op \in {"AND", "OR", "=="} =>
                /\ Formulas[f].left \in 1..f - 1 /\ Formulas[f].left \in DOMAIN Formulas
                /\ Formulas[f].right \in 1..f - 1 /\ Formulas[f].right \in DOMAIN Formulas
<1>1. /\ Len(Formulas) \in Nat /\ DOMAIN Formulas = 1..Len(Formulas)
      /\ Formulas[f] \in Formula(1..f - 1)
  BY FilterAssumption
<1>2. f \in Nat /\ f <= Len(Formulas) /\ \A g \in 1..f - 1 : g \in DOMAIN Formulas
  BY <1>1
<1>3. PICK formula : formula = Formulas[f]
  OBVIOUS
<1>4. \/ formula \in [op : {"key"}, key : Keys, cmp : Comparison, num : Number]
      \/ formula \in [op : {"IN"}, key : Keys, list : SUBSET Number]
      \/ formula \in [op : {"NOT"}, of : 1..f - 1]
      \/ formula \in [op : {"AND", "OR", "=="}, left : 1..f - 1, right : 1..f - 1]
  BY <1>1, <1>3 DEF Formula
<1>5. QED  BY <1>2, <1>3, <1>4

WrittenStep(written, f) ==
    LET formula   == Formulas[f]
        Closed(g) == Parens(written[g])
        IsOr(g)   == Formulas[g].op = "OR"
        Side(g)   == IF formula.op = "==" \/ (formula.op = "AND" /\ IsOr(g)) THEN Closed(g) ELSE written[g]
        IsEqual(g) == Formulas[g].op = "key" /\ Formulas[g].cmp # ">"
    IN  CASE formula.op = "key" ->
               <<[t |-> "key", key |-> formula.key], [t |-> formula.cmp], [t |-> "num", num |-> formula.num]>>
          [] formula.op = "IN"  -> <<[t |-> "key", key |-> formula.key], [t |-> "IN", list |-> formula.list]>>
          [] formula.op = "NOT" ->
               Op("NOT") \o (IF IsEqual(formula.of) THEN written[formula.of] ELSE Closed(formula.of))
          [] OTHER -> Side(formula.left) \o Op(formula.op) \o Side(formula.right)

LEMMA WrittenUnfolds == \A f \in DOMAIN Formulas : Written[f] = WrittenStep(Written, f)
<1> DEFINE N == Len(Formulas)
           Is(g, n) == g = [f \in 1..n |-> WrittenStep(g, f)]
<1>0. N \in Nat /\ DOMAIN Formulas = 1..N
  BY FilterAssumption
<1>1. ASSUME NEW f \in DOMAIN Formulas, NEW g, NEW h, \A k \in 1..f - 1 : g[k] = h[k]
      PROVE  WrittenStep(g, f) = WrittenStep(h, f)
  <2>1. PICK formula : formula = Formulas[f]
    OBVIOUS
  <2>2. /\ formula.op \in {"key", "IN", "NOT", "AND", "OR", "=="}
        /\ formula.op = "NOT" => g[formula.of] = h[formula.of]
        /\ formula.op \in {"AND", "OR", "=="} =>
             g[formula.left] = h[formula.left] /\ g[formula.right] = h[formula.right]
    BY <1>1, <2>1, PartsBefore
  <2>3. CASE formula.op = "key"
    BY <2>1, <2>3 DEF WrittenStep
  <2>4. CASE formula.op = "IN"
    BY <2>1, <2>4 DEF WrittenStep
  <2>5. CASE formula.op = "NOT"
    BY <2>1, <2>2, <2>5 DEF WrittenStep
  <2>6. CASE formula.op \in {"AND", "OR", "=="}
    BY <2>1, <2>2, <2>6 DEF WrittenStep
  <2>7. QED  BY <2>2, <2>3, <2>4, <2>5, <2>6
<1>2. \A n \in 0..N : \E g : Is(g, n)
  <2> DEFINE Bad == {n \in 0..N : ~\E g : Is(g, n)}
  <2> SUFFICES ASSUME Bad # {} PROVE FALSE
    OBVIOUS
  <2>1. PICK n \in Bad : \A k \in Bad : n <= k
    <3>1. Bad \in SUBSET Nat
      OBVIOUS
    <3> HIDE DEF Bad
    <3>2. QED  BY <3>1, LeastNatural
  <2>2. n # 0
    <3>1. Is([f \in 1..0 |-> <<>>], 0)
      OBVIOUS
    <3>2. QED  BY <2>1, <3>1
  <2>3. n \in 1..N /\ n \in DOMAIN Formulas
    BY <1>0, <2>1, <2>2
  <2>4. PICK g : Is(g, n - 1)
    <3>1. n - 1 \in 0..N /\ n - 1 \notin Bad
      BY <1>0, <2>1, <2>3
    <3>2. QED  BY <3>1
  <2>5. PICK h : h = [f \in 1..n |-> IF f = n THEN WrittenStep(g, n) ELSE g[f]]
    OBVIOUS
  <2>6. ASSUME NEW f \in 1..n PROVE h[f] = WrittenStep(h, f)
    <3>1. f \in DOMAIN Formulas /\ \A k \in 1..f - 1 : h[k] = g[k]
      BY <1>0, <2>3, <2>5
    <3>2. WrittenStep(g, f) = WrittenStep(h, f)
      BY <1>1, <3>1
    <3>3. h[f] = WrittenStep(g, f)
      <4>1. CASE f = n
        BY <2>5, <4>1
      <4>2. CASE f # n
        <5>1. f \in 1..n - 1
          BY <2>3, <4>2
        <5>2. QED  BY <2>4, <2>5, <4>2, <5>1
      <4>3. QED  BY <4>1, <4>2
    <3>4. QED  BY <3>2, <3>3
  <2>7. Is(h, n)
    BY <2>5, <2>6
  <2>8. QED  BY <2>1, <2>7
<1>3. PICK f : f = [n \in DOMAIN Formulas |-> WrittenStep(f, n)]
  BY <1>0, <1>2
<1>4. Written = CHOOSE g : g = [n \in DOMAIN Formulas |-> WrittenStep(g, n)]
  BY DEF Written, WrittenStep
<1>5. Written = [n \in DOMAIN Formulas |-> WrittenStep(Written, n)]
  BY <1>3, <1>4
<1>6. QED  BY <1>5
MeansStep(means, f) ==
    LET formula == Formulas[f]
    IN  CASE formula.op = "key" -> Having(formula.key, Passing(formula.cmp, formula.num))
          [] formula.op = "IN"  -> Having(formula.key, formula.list)
          [] formula.op = "NOT" -> Metadata \ means[formula.of]
          [] formula.op = "AND" -> means[formula.left] \cap means[formula.right]
          [] formula.op = "OR"  -> means[formula.left] \cup means[formula.right]
          [] OTHER               -> Agreeing(means[formula.left], means[formula.right])

LEMMA MeansUnfolds == \A f \in DOMAIN Formulas : Means[f] = MeansStep(Means, f)
<1> DEFINE N == Len(Formulas)
           Is(g, n) == g = [f \in 1..n |-> MeansStep(g, f)]
<1>0. N \in Nat /\ DOMAIN Formulas = 1..N
  BY FilterAssumption
<1>1. ASSUME NEW f \in DOMAIN Formulas, NEW g, NEW h, \A k \in 1..f - 1 : g[k] = h[k]
      PROVE  MeansStep(g, f) = MeansStep(h, f)
  <2>1. PICK formula : formula = Formulas[f]
    OBVIOUS
  <2>2. /\ formula.op \in {"key", "IN", "NOT", "AND", "OR", "=="}
        /\ formula.op = "NOT" => g[formula.of] = h[formula.of]
        /\ formula.op \in {"AND", "OR", "=="} =>
             g[formula.left] = h[formula.left] /\ g[formula.right] = h[formula.right]
    BY <1>1, <2>1, PartsBefore
  <2>3. CASE formula.op = "key"
    BY <2>1, <2>3 DEF MeansStep
  <2>4. CASE formula.op = "IN"
    BY <2>1, <2>4 DEF MeansStep
  <2>5. CASE formula.op = "NOT"
    BY <2>1, <2>2, <2>5 DEF MeansStep
  <2>6. CASE formula.op \in {"AND", "OR", "=="}
    BY <2>1, <2>2, <2>6 DEF MeansStep
  <2>7. QED  BY <2>2, <2>3, <2>4, <2>5, <2>6
<1>2. \A n \in 0..N : \E g : Is(g, n)
  <2> DEFINE Bad == {n \in 0..N : ~\E g : Is(g, n)}
  <2> SUFFICES ASSUME Bad # {} PROVE FALSE
    OBVIOUS
  <2>1. PICK n \in Bad : \A k \in Bad : n <= k
    <3>1. Bad \in SUBSET Nat
      OBVIOUS
    <3> HIDE DEF Bad
    <3>2. QED  BY <3>1, LeastNatural
  <2>2. n # 0
    <3>1. Is([f \in 1..0 |-> <<>>], 0)
      OBVIOUS
    <3>2. QED  BY <2>1, <3>1
  <2>3. n \in 1..N /\ n \in DOMAIN Formulas
    BY <1>0, <2>1, <2>2
  <2>4. PICK g : Is(g, n - 1)
    <3>1. n - 1 \in 0..N /\ n - 1 \notin Bad
      BY <1>0, <2>1, <2>3
    <3>2. QED  BY <3>1
  <2>5. PICK h : h = [f \in 1..n |-> IF f = n THEN MeansStep(g, n) ELSE g[f]]
    OBVIOUS
  <2>6. ASSUME NEW f \in 1..n PROVE h[f] = MeansStep(h, f)
    <3>1. f \in DOMAIN Formulas /\ \A k \in 1..f - 1 : h[k] = g[k]
      BY <1>0, <2>3, <2>5
    <3>2. MeansStep(g, f) = MeansStep(h, f)
      BY <1>1, <3>1
    <3>3. h[f] = MeansStep(g, f)
      <4>1. CASE f = n
        BY <2>5, <4>1
      <4>2. CASE f # n
        <5>1. f \in 1..n - 1
          BY <2>3, <4>2
        <5>2. QED  BY <2>4, <2>5, <4>2, <5>1
      <4>3. QED  BY <4>1, <4>2
    <3>4. QED  BY <3>2, <3>3
  <2>7. Is(h, n)
    BY <2>5, <2>6
  <2>8. QED  BY <2>1, <2>7
<1>3. PICK f : f = [n \in DOMAIN Formulas |-> MeansStep(f, n)]
  BY <1>0, <1>2
<1>4. Means = CHOOSE g : g = [n \in DOMAIN Formulas |-> MeansStep(g, n)]
  BY DEF Means, MeansStep
<1>5. Means = [n \in DOMAIN Formulas |-> MeansStep(Means, n)]
  BY <1>3, <1>4
<1>6. QED  BY <1>5
----------------------------------------------------------------------------
(* The parser, call by call: what an expression or what follows a node      *)
(* gives at any depth that is enough, two calls for each token.             *)

ExprGives(s, least, r)        == \A d \in Nat : d >= 2 * Len(s) => Expr(Parser[d], s, least) = r
ClimbGives(node, s, least, r) == \A d \in Nat : d >= 2 * Len(s) + 1 => Climb(Parser[d], node, s, least) = r

LEMMA ParserCalls ==
    ASSUME NEW d \in Nat \ {0}, NEW s \in Seq(Token), NEW least \in 0..21
    PROVE  /\ Expr(Parser[d], s, least) = Primary(Parser[d - 1], s, least)
           /\ \A node \in Node : Climb(Parser[d], node, s, least) = Operator(Parser[d - 1], node, s, least)
<1>1. PICK parse : parse = Parser[d - 1]
  OBVIOUS
<1>2. Parser[d] = ParserStep(parse)
  BY <1>1, ParserUnfolds
<1>3. Expr(ParserStep(parse), s, least) = Primary(parse, s, least)
  <2>1. [left |-> {}, rest |-> s, least |-> least] \in ParserCall
    BY DEF ParserCall
  <2>2. QED  BY <2>1 DEF Expr, ParserStep
<1>4. ASSUME NEW node \in Node
      PROVE  Climb(ParserStep(parse), node, s, least) = Operator(parse, node, s, least)
  <2>1. [left |-> {node}, rest |-> s, least |-> least] \in ParserCall
    BY DEF ParserCall
  <2>2. (CHOOSE n \in {node} : TRUE) = node
    OBVIOUS
  <2>3. {node} # {}
    OBVIOUS
  <2>4. QED  BY <2>1, <2>2, <2>3 DEF Climb, ParserStep
<1>5. QED  BY <1>1, <1>2, <1>3, <1>4

(* A token that is neither a parenthesis nor NOT is a node of its own.      *)
LEMMA ReadsToken ==
    ASSUME NEW t \in Token, t.t \notin {"(", "NOT"}, NEW s \in Seq(Token), NEW least \in 0..21, NEW r,
           ClimbGives([token |-> t, sql |-> <<>>], s, least, r)
    PROVE  ExprGives(<<t>> \o s, least, r)
<1> SUFFICES ASSUME NEW d \in Nat, d >= 2 * Len(<<t>> \o s)
             PROVE  Expr(Parser[d], <<t>> \o s, least) = r
  BY DEF ExprGives
<1>1. PICK u : u = <<t>> \o s
  OBVIOUS
<1>2. u \in Seq(Token) /\ Head(u) = t /\ Tail(u) = s /\ Len(u) = 1 + Len(s) /\ Len(s) \in Nat
  BY <1>1, FirstToken
<1>3. d \in Nat \ {0} /\ d - 1 \in Nat /\ d - 1 >= 2 * Len(s) + 1
  BY <1>1, <1>2
<1>4. Expr(Parser[d], u, least) = Primary(Parser[d - 1], u, least)
  BY <1>2, <1>3, ParserCalls
<1>5. Primary(Parser[d - 1], u, least) = Climb(Parser[d - 1], [token |-> t, sql |-> <<>>], s, least)
  BY <1>2 DEF Primary
<1>6. QED  BY <1>1, <1>3, <1>4, <1>5 DEF ClimbGives

LEMMA ReadsParens ==
    ASSUME NEW t \in Token, t.t = "(", NEW close \in Token,
           NEW s \in Seq(Token), NEW after \in Seq(Token), Len(after) <= Len(s),
           NEW node, ExprGives(s, 0, [node |-> node, rest |-> <<close>> \o after]),
           NEW least \in 0..21, NEW r,
           ClimbGives([token |-> t, sql |-> visitParens(node.sql)], after, least, r)
    PROVE  ExprGives(<<t>> \o s, least, r)
<1> SUFFICES ASSUME NEW d \in Nat, d >= 2 * Len(<<t>> \o s)
             PROVE  Expr(Parser[d], <<t>> \o s, least) = r
  BY DEF ExprGives
<1>1. PICK u : u = <<t>> \o s
  OBVIOUS
<1>2. /\ u \in Seq(Token) /\ Head(u) = t /\ Tail(u) = s /\ Len(u) = 1 + Len(s)
      /\ Len(s) \in Nat /\ Len(after) \in Nat
  BY <1>1, FirstToken
<1>3. /\ d \in Nat \ {0} /\ d - 1 \in Nat /\ d - 1 >= 2 * Len(s)
      /\ d - 1 >= 2 * Len(after) + 1
  BY <1>1, <1>2
<1>4. Expr(Parser[d], u, least) = Primary(Parser[d - 1], u, least)
  BY <1>2, <1>3, ParserCalls
<1>5. Expr(Parser[d - 1], s, 0) = [node |-> node, rest |-> <<close>> \o after]
  BY <1>3 DEF ExprGives
<1>6. Tail(<<close>> \o after) = after
  BY FirstToken
<1>7. Primary(Parser[d - 1], u, least)
        = Climb(Parser[d - 1], [token |-> t, sql |-> visitParens(node.sql)], after, least)
  <2>1. PICK inner : inner = Expr(Parser[d - 1], Tail(u), IF Head(u).t = "NOT" THEN PlanPrec("NOT") ELSE 0)
    OBVIOUS
  <2>2. inner = [node |-> node, rest |-> <<close>> \o after]
    BY <1>2, <1>5, <2>1
  <2>3. Primary(Parser[d - 1], u, least)
          = Climb(Parser[d - 1], [token |-> Head(u), sql |-> visitParens(inner.node.sql)],
                  Tail(inner.rest), least)
    BY <1>2, <2>1 DEF Primary
  <2>4. inner.node = node /\ Tail(inner.rest) = after
    BY <1>6, <2>2
  <2>5. QED  BY <1>2, <2>3, <2>4
<1>8. QED  BY <1>1, <1>3, <1>4, <1>7 DEF ClimbGives

LEMMA ReadsNot ==
    ASSUME NEW t \in Token, t.t = "NOT",
           NEW s \in Seq(Token), NEW after \in Seq(Token), Len(after) <= Len(s),
           NEW node, ExprGives(s, 19, [node |-> node, rest |-> after]),
           NEW least \in 0..21, NEW r,
           ClimbGives([token |-> t, sql |-> visitUnary(node.sql)], after, least, r)
    PROVE  ExprGives(<<t>> \o s, least, r)
<1> SUFFICES ASSUME NEW d \in Nat, d >= 2 * Len(<<t>> \o s)
             PROVE  Expr(Parser[d], <<t>> \o s, least) = r
  BY DEF ExprGives
<1>1. PICK u : u = <<t>> \o s
  OBVIOUS
<1>2. /\ u \in Seq(Token) /\ Head(u) = t /\ Tail(u) = s /\ Len(u) = 1 + Len(s)
      /\ Len(s) \in Nat /\ Len(after) \in Nat
  BY <1>1, FirstToken
<1>3. /\ d \in Nat \ {0} /\ d - 1 \in Nat /\ d - 1 >= 2 * Len(s)
      /\ d - 1 >= 2 * Len(after) + 1
  BY <1>1, <1>2
<1>4. Expr(Parser[d], u, least) = Primary(Parser[d - 1], u, least)
  BY <1>2, <1>3, ParserCalls
<1>5. Expr(Parser[d - 1], s, 19) = [node |-> node, rest |-> after]
  BY <1>3 DEF ExprGives
<1>6. Primary(Parser[d - 1], u, least)
        = Climb(Parser[d - 1], [token |-> t, sql |-> visitUnary(node.sql)], after, least)
  <2>1. PICK inner : inner = Expr(Parser[d - 1], Tail(u), IF Head(u).t = "NOT" THEN PlanPrec("NOT") ELSE 0)
    OBVIOUS
  <2>2. inner = [node |-> node, rest |-> after]
    BY <1>2, <1>5, <2>1, PlanPrecs
  <2>3. Primary(Parser[d - 1], u, least)
          = Climb(Parser[d - 1], [token |-> Head(u), sql |-> visitUnary(inner.node.sql)], inner.rest, least)
    BY <1>2, <2>1 DEF Primary
  <2>4. inner.node = node /\ inner.rest = after
    BY <2>2
  <2>5. QED  BY <1>2, <2>3, <2>4
<1>7. QED  BY <1>1, <1>3, <1>4, <1>6 DEF ClimbGives

(* An expression ends where nothing more binds it.                          *)
LEMMA ReadsNoMore ==
    ASSUME NEW node \in Node, NEW s \in Seq(Token), NEW least \in 0..21, ~Follows(s, least)
    PROVE  ClimbGives(node, s, least, [node |-> node, rest |-> s])
<1> SUFFICES ASSUME NEW d \in Nat, d >= 2 * Len(s) + 1
             PROVE  Climb(Parser[d], node, s, least) = [node |-> node, rest |-> s]
  BY DEF ClimbGives
<1>1. d \in Nat \ {0}
  <2>1. Len(s) \in Nat
    OBVIOUS
  <2>2. QED  BY <2>1
<1>2. Climb(Parser[d], node, s, least) = Operator(Parser[d - 1], node, s, least)
  BY <1>1, ParserCalls
<1>3. Operator(Parser[d - 1], node, s, least) = [node |-> node, rest |-> s]
  BY DEF Operator
<1>4. QED  BY <1>2, <1>3

LEMMA ReadsIn ==
    ASSUME NEW t \in Token, t.t = "IN", NEW node \in Node, NEW s \in Seq(Token), NEW least \in 0..15, NEW r,
           ClimbGives([token |-> t, sql |-> visitTerm(node, t.list)], s, least, r)
    PROVE  ClimbGives(node, <<t>> \o s, least, r)
<1> SUFFICES ASSUME NEW d \in Nat, d >= 2 * Len(<<t>> \o s) + 1
             PROVE  Climb(Parser[d], node, <<t>> \o s, least) = r
  BY DEF ClimbGives
<1>1. PICK u : u = <<t>> \o s
  OBVIOUS
<1>2. /\ u \in Seq(Token) /\ Head(u) = t /\ Tail(u) = s /\ Len(u) = 1 + Len(s) /\ u # <<>>
      /\ Len(s) \in Nat
  BY <1>1, FirstToken
<1>3. d \in Nat \ {0} /\ d - 1 \in Nat /\ d - 1 >= 2 * Len(s) + 1 /\ least \in 0..21
  BY <1>1, <1>2
<1>4. Climb(Parser[d], node, u, least) = Operator(Parser[d - 1], node, u, least)
  BY <1>2, <1>3, ParserCalls
<1>5. Follows(u, least)
  BY <1>2, PlanPrecs DEF Follows
<1>6. Operator(Parser[d - 1], node, u, least)
        = Climb(Parser[d - 1], [token |-> t, sql |-> visitTerm(node, t.list)], s, least)
  BY <1>2, <1>5 DEF Operator
<1>7. QED  BY <1>1, <1>3, <1>4, <1>6 DEF ClimbGives

(* An operator takes all that binds more than it does on its right.         *)
LEMMA ReadsOperator ==
    ASSUME NEW t \in Token, t.t \in {"AND", "OR"} \cup Comparison, NEW node \in Node,
           NEW s \in Seq(Token), NEW after \in Seq(Token), Len(after) <= Len(s),
           NEW right, ExprGives(s, PlanPrec(t.t) + 1, [node |-> right, rest |-> after]),
           NEW least \in 0..21, least <= PlanPrec(t.t), NEW r,
           ClimbGives([token |-> t, sql |-> visitBinary(node, t.t, right)], after, least, r)
    PROVE  ClimbGives(node, <<t>> \o s, least, r)
<1> SUFFICES ASSUME NEW d \in Nat, d >= 2 * Len(<<t>> \o s) + 1
             PROVE  Climb(Parser[d], node, <<t>> \o s, least) = r
  BY DEF ClimbGives
<1>1. PICK u : u = <<t>> \o s
  OBVIOUS
<1>2. /\ u \in Seq(Token) /\ Head(u) = t /\ Tail(u) = s /\ Len(u) = 1 + Len(s) /\ u # <<>>
      /\ Len(s) \in Nat /\ Len(after) \in Nat
  BY <1>1, FirstToken
<1>3. /\ d \in Nat \ {0} /\ d - 1 \in Nat /\ d - 1 >= 2 * Len(s)
      /\ d - 1 >= 2 * Len(after) + 1
  BY <1>1, <1>2
<1>4. Climb(Parser[d], node, u, least) = Operator(Parser[d - 1], node, u, least)
  BY <1>2, <1>3, ParserCalls
<1>5. Expr(Parser[d - 1], s, PlanPrec(t.t) + 1) = [node |-> right, rest |-> after]
  BY <1>3 DEF ExprGives
<1>6. Follows(u, least) /\ t.t # "IN"
  BY <1>2, PlanPrecs DEF Follows, Comparison
<1>7. Operator(Parser[d - 1], node, u, least)
        = Climb(Parser[d - 1], [token |-> t, sql |-> visitBinary(node, t.t, right)], after, least)
  <2>1. PICK inner : inner = Expr(Parser[d - 1], Tail(u), PlanPrec(Head(u).t) + 1)
    OBVIOUS
  <2>2. inner = [node |-> right, rest |-> after]
    BY <1>2, <1>5, <2>1
  <2>3. Operator(Parser[d - 1], node, u, least)
          = Climb(Parser[d - 1], [token |-> Head(u), sql |-> visitBinary(node, Head(u).t, inner.node)],
                  inner.rest, least)
    BY <1>2, <1>6, <2>1 DEF Operator
  <2>4. inner.node = right /\ inner.rest = after
    BY <2>2
  <2>5. QED  BY <1>2, <2>3, <2>4
<1>8. QED  BY <1>1, <1>3, <1>4, <1>7 DEF ClimbGives
----------------------------------------------------------------------------
(* SQLite, call by call, in the same way.                                   *)

SqlGives(s, least, r)            == \A d \in Nat : d >= 2 * Len(s) => Expr(Reader[d], s, least) = r
SqlClimbGives(left, s, least, r) == \A d \in Nat : d >= 2 * Len(s) + 1 => Climb(Reader[d], left, s, least) = r

LEMMA ReaderCalls ==
    ASSUME NEW d \in Nat \ {0}, NEW s \in Seq(SqlSign), NEW least \in 0..5
    PROVE  /\ Expr(Reader[d], s, least) = SqlPrimary(Reader[d - 1], s, least)
           /\ \A x \in {0, 1} : Climb(Reader[d], x, s, least) = SqlOperator(Reader[d - 1], x, s, least)
<1>1. PICK read : read = Reader[d - 1]
  OBVIOUS
<1>2. Reader[d] = ReaderStep(read)
  BY <1>1, ReaderUnfolds
<1>3. Expr(ReaderStep(read), s, least) = SqlPrimary(read, s, least)
  <2>1. [left |-> {}, rest |-> s, least |-> least] \in ReaderCall
    BY DEF ReaderCall
  <2>2. QED  BY <2>1 DEF Expr, ReaderStep
<1>4. ASSUME NEW x \in {0, 1}
      PROVE  Climb(ReaderStep(read), x, s, least) = SqlOperator(read, x, s, least)
  <2>1. [left |-> {x}, rest |-> s, least |-> least] \in ReaderCall
    BY DEF ReaderCall
  <2>2. (CHOOSE n \in {x} : TRUE) = x
    OBVIOUS
  <2>3. {x} # {}
    OBVIOUS
  <2>4. QED  BY <2>1, <2>2, <2>3 DEF Climb, ReaderStep
<1>5. QED  BY <1>1, <1>2, <1>3, <1>4

LEMMA SqlReadsBit ==
    ASSUME NEW b \in {"0", "1"}, NEW s \in Seq(SqlSign), NEW least \in 0..5, NEW r,
           SqlClimbGives(Bit(b = "1"), s, least, r)
    PROVE  SqlGives(<<b>> \o s, least, r)
<1> SUFFICES ASSUME NEW d \in Nat, d >= 2 * Len(<<b>> \o s)
             PROVE  Expr(Reader[d], <<b>> \o s, least) = r
  BY DEF SqlGives
<1>1. PICK u : u = <<b>> \o s
  OBVIOUS
<1>2. /\ u \in Seq(SqlSign) /\ Head(u) = b /\ Tail(u) = s /\ Len(u) = 1 + Len(s)
      /\ Len(s) \in Nat
  BY <1>1, FirstToken DEF SqlSign
<1>3. d \in Nat \ {0} /\ d - 1 \in Nat /\ d - 1 >= 2 * Len(s) + 1
  BY <1>1, <1>2
<1>4. Expr(Reader[d], u, least) = SqlPrimary(Reader[d - 1], u, least)
  BY <1>2, <1>3, ReaderCalls
<1>5. SqlPrimary(Reader[d - 1], u, least) = Climb(Reader[d - 1], Bit(b = "1"), s, least)
  BY <1>2 DEF SqlPrimary
<1>6. QED  BY <1>1, <1>3, <1>4, <1>5 DEF SqlClimbGives

LEMMA SqlReadsParens ==
    ASSUME NEW s \in Seq(SqlSign), NEW after \in Seq(SqlSign), Len(after) <= Len(s),
           NEW x, SqlGives(s, 0, [node |-> x, rest |-> <<")">> \o after]),
           NEW least \in 0..5, NEW r, SqlClimbGives(x, after, least, r)
    PROVE  SqlGives(<<"(">> \o s, least, r)
<1> SUFFICES ASSUME NEW d \in Nat, d >= 2 * Len(<<"(">> \o s)
             PROVE  Expr(Reader[d], <<"(">> \o s, least) = r
  BY DEF SqlGives
<1>1. PICK u : u = <<"(">> \o s
  OBVIOUS
<1>2. /\ u \in Seq(SqlSign) /\ Head(u) = "(" /\ Tail(u) = s /\ Len(u) = 1 + Len(s)
      /\ Len(s) \in Nat /\ Len(after) \in Nat
  BY <1>1, FirstToken DEF SqlSign
<1>3. /\ d \in Nat \ {0} /\ d - 1 \in Nat /\ d - 1 >= 2 * Len(s)
      /\ d - 1 >= 2 * Len(after) + 1
  BY <1>1, <1>2
<1>4. Expr(Reader[d], u, least) = SqlPrimary(Reader[d - 1], u, least)
  BY <1>2, <1>3, ReaderCalls
<1>5. Expr(Reader[d - 1], s, 0) = [node |-> x, rest |-> <<")">> \o after]
  BY <1>3 DEF SqlGives
<1>6. Tail(<<")">> \o after) = after
  BY FirstToken DEF SqlSign
<1>7. SqlPrimary(Reader[d - 1], u, least) = Climb(Reader[d - 1], x, after, least)
  <2>1. PICK inner : inner = Expr(Reader[d - 1], Tail(u), IF Head(u) = "NOT" THEN SqlPrec("NOT") ELSE 0)
    OBVIOUS
  <2>2. inner = [node |-> x, rest |-> <<")">> \o after]
    BY <1>2, <1>5, <2>1
  <2>3. SqlPrimary(Reader[d - 1], u, least) = Climb(Reader[d - 1], inner.node, Tail(inner.rest), least)
    BY <1>2, <2>1 DEF SqlPrimary
  <2>4. inner.node = x /\ Tail(inner.rest) = after
    BY <1>6, <2>2
  <2>5. QED  BY <2>3, <2>4
<1>8. QED  BY <1>1, <1>3, <1>4, <1>7 DEF SqlClimbGives

LEMMA SqlReadsNot ==
    ASSUME NEW s \in Seq(SqlSign), NEW after \in Seq(SqlSign), Len(after) <= Len(s),
           NEW x, SqlGives(s, 3, [node |-> x, rest |-> after]),
           NEW least \in 0..5, NEW r, SqlClimbGives(Bit(x = 0), after, least, r)
    PROVE  SqlGives(<<"NOT">> \o s, least, r)
<1> SUFFICES ASSUME NEW d \in Nat, d >= 2 * Len(<<"NOT">> \o s)
             PROVE  Expr(Reader[d], <<"NOT">> \o s, least) = r
  BY DEF SqlGives
<1>1. PICK u : u = <<"NOT">> \o s
  OBVIOUS
<1>2. /\ u \in Seq(SqlSign) /\ Head(u) = "NOT" /\ Tail(u) = s /\ Len(u) = 1 + Len(s)
      /\ Len(s) \in Nat /\ Len(after) \in Nat
  BY <1>1, FirstToken DEF SqlSign
<1>3. /\ d \in Nat \ {0} /\ d - 1 \in Nat /\ d - 1 >= 2 * Len(s)
      /\ d - 1 >= 2 * Len(after) + 1
  BY <1>1, <1>2
<1>4. Expr(Reader[d], u, least) = SqlPrimary(Reader[d - 1], u, least)
  BY <1>2, <1>3, ReaderCalls
<1>5. Expr(Reader[d - 1], s, 3) = [node |-> x, rest |-> after]
  BY <1>3 DEF SqlGives
<1>6. SqlPrimary(Reader[d - 1], u, least) = Climb(Reader[d - 1], Bit(x = 0), after, least)
  <2>1. PICK inner : inner = Expr(Reader[d - 1], Tail(u), IF Head(u) = "NOT" THEN SqlPrec("NOT") ELSE 0)
    OBVIOUS
  <2>2. inner = [node |-> x, rest |-> after]
    BY <1>2, <1>5, <2>1, SqlPrecs
  <2>3. SqlPrimary(Reader[d - 1], u, least) = Climb(Reader[d - 1], Bit(inner.node = 0), inner.rest, least)
    BY <1>2, <2>1 DEF SqlPrimary
  <2>4. inner.node = x /\ inner.rest = after
    BY <2>2
  <2>5. QED  BY <2>3, <2>4
<1>7. QED  BY <1>1, <1>3, <1>4, <1>6 DEF SqlClimbGives

LEMMA SqlReadsNoMore ==
    ASSUME NEW x \in {0, 1}, NEW s \in Seq(SqlSign), NEW least \in 0..5, ~SqlFollows(s, least)
    PROVE  SqlClimbGives(x, s, least, [node |-> x, rest |-> s])
<1> SUFFICES ASSUME NEW d \in Nat, d >= 2 * Len(s) + 1
             PROVE  Climb(Reader[d], x, s, least) = [node |-> x, rest |-> s]
  BY DEF SqlClimbGives
<1>1. d \in Nat \ {0}
  <2>1. Len(s) \in Nat
    OBVIOUS
  <2>2. QED  BY <2>1
<1>2. Climb(Reader[d], x, s, least) = SqlOperator(Reader[d - 1], x, s, least)
  BY <1>1, ReaderCalls
<1>3. SqlOperator(Reader[d - 1], x, s, least) = [node |-> x, rest |-> s]
  BY DEF SqlOperator
<1>4. QED  BY <1>2, <1>3

LEMMA SqlReadsOperator ==
    ASSUME NEW op \in {"AND", "OR", "=", "<>"}, NEW x \in {0, 1},
           NEW s \in Seq(SqlSign), NEW after \in Seq(SqlSign), Len(after) <= Len(s),
           NEW y, SqlGives(s, SqlPrec(op) + 1, [node |-> y, rest |-> after]),
           NEW least \in 0..5, least <= SqlPrec(op), NEW r,
           SqlClimbGives(Applied(op, x, y), after, least, r)
    PROVE  SqlClimbGives(x, <<op>> \o s, least, r)
<1> SUFFICES ASSUME NEW d \in Nat, d >= 2 * Len(<<op>> \o s) + 1
             PROVE  Climb(Reader[d], x, <<op>> \o s, least) = r
  BY DEF SqlClimbGives
<1>1. PICK u : u = <<op>> \o s
  OBVIOUS
<1>2. /\ u \in Seq(SqlSign) /\ Head(u) = op /\ Tail(u) = s /\ Len(u) = 1 + Len(s) /\ u # <<>>
      /\ Len(s) \in Nat /\ Len(after) \in Nat
  BY <1>1, FirstToken DEF SqlSign
<1>3. /\ d \in Nat \ {0} /\ d - 1 \in Nat /\ d - 1 >= 2 * Len(s)
      /\ d - 1 >= 2 * Len(after) + 1
  BY <1>1, <1>2
<1>4. Climb(Reader[d], x, u, least) = SqlOperator(Reader[d - 1], x, u, least)
  BY <1>2, <1>3, ReaderCalls
<1>5. Expr(Reader[d - 1], s, SqlPrec(op) + 1) = [node |-> y, rest |-> after]
  BY <1>3 DEF SqlGives
<1>6. SqlFollows(u, least)
  BY <1>2, SqlPrecs DEF SqlFollows
<1>7. SqlOperator(Reader[d - 1], x, u, least) = Climb(Reader[d - 1], Applied(op, x, y), after, least)
  <2>1. PICK inner : inner = Expr(Reader[d - 1], Tail(u), SqlPrec(Head(u)) + 1)
    OBVIOUS
  <2>2. inner = [node |-> y, rest |-> after]
    BY <1>2, <1>5, <2>1
  <2>3. SqlOperator(Reader[d - 1], x, u, least)
          = Climb(Reader[d - 1], Applied(Head(u), x, inner.node), inner.rest, least)
    BY <1>6, <2>1 DEF SqlOperator
  <2>4. inner.node = y /\ inner.rest = after
    BY <2>2
  <2>5. QED  BY <1>2, <2>3, <2>4
<1>8. QED  BY <1>1, <1>3, <1>4, <1>7 DEF SqlClimbGives
----------------------------------------------------------------------------
(* What SQLite makes of the texts the visitor writes.  A condition stands   *)
(* at the end, before a parenthesis or before an operator.                  *)

(* Texts put together one way are put together the other way: as predicates, *)
(* so that a proof names the texts it means.                                 *)
Three(a, b, c)   == (a \o b) \o c = a \o (b \o c)
Four(a, b, c, d) == ((a \o b) \o c) \o d = a \o (b \o (c \o d))

LEMMA ThreeTexts ==
    ASSUME NEW S
    PROVE  \A a, b, c \in Seq(S) : Three(a, b, c)
BY ConcatAssociative DEF Three

LEMMA ThreeSigns == \A a, b, c \in Seq(SqlSign) : Three(a, b, c)
BY ThreeTexts

LEMMA FourSigns == \A a, b, c, d \in Seq(SqlSign) : Four(a, b, c, d)
<1> SUFFICES ASSUME NEW a \in Seq(SqlSign), NEW b \in Seq(SqlSign),
                    NEW c \in Seq(SqlSign), NEW d \in Seq(SqlSign)
             PROVE  Four(a, b, c, d)
  OBVIOUS
<1>1. a \o b \in Seq(SqlSign)
  BY ConcatProperties
<1>2. c \o d \in Seq(SqlSign)
  BY ConcatProperties
<1>3. Three(a \o b, c, d)
  BY <1>1, ThreeSigns
<1>4. Three(a, b, c \o d)
  BY <1>2, ThreeSigns
<1>5. QED  BY <1>3, <1>4, Zenon DEF Three, Four

LEMMA Longer ==
    ASSUME NEW S, NEW a \in Seq(S), NEW b \in Seq(S)
    PROVE  a \o b \in Seq(S) /\ Len(b) <= Len(a \o b)
<1>1. a \o b \in Seq(S) /\ Len(a \o b) = Len(a) + Len(b)
  BY ConcatProperties
<1>2. Len(a) \in Nat /\ Len(b) \in Nat
  OBVIOUS
<1>3. QED  BY <1>1, <1>2

SqlTail == {s \in Seq(SqlSign) : s = <<>> \/ Head(s) \in {")", "AND", "OR", "=", "<>"}}

(* The text e has the value x: whatever stands before it; after an operator *)
(* that binds less than "="; after a comparison.                            *)
Primarily(e, x) ==
    \A s \in Seq(SqlSign), least \in 0..5 : \A r :
        SqlClimbGives(x, s, least, r) => SqlGives(e \o s, least, r)
AtFirst(e, x) ==
    \A s \in SqlTail, least \in 0..4 : \A r :
        SqlClimbGives(x, s, least, r) => SqlGives(e \o s, least, r)
Compared(e, x) ==
    \A l \in {0, 1}, s \in SqlTail, least \in 0..4 : \A r :
        SqlClimbGives(Bit(l = x), s, least, r) => SqlClimbGives(l, <<"=">> \o (e \o s), least, r)
Reads(e, x) == e \in Seq(SqlSign) /\ x \in {0, 1} /\ AtFirst(e, x) /\ Compared(e, x)

LEMMA SqlTails ==
    /\ \A s \in Seq(SqlSign), op \in {")", "AND", "OR", "=", "<>"} : <<op>> \o s \in SqlTail
    /\ \A s \in SqlTail : s \in Seq(SqlSign) /\ ~SqlFollows(s, 5)
    /\ \A s \in Seq(SqlSign), least \in 0..5 : ~SqlFollows(<<")">> \o s, least)
<1>1. ASSUME NEW s \in Seq(SqlSign), NEW op \in {")", "AND", "OR", "=", "<>"}
      PROVE  <<op>> \o s \in Seq(SqlSign) /\ Head(<<op>> \o s) = op
  BY FirstToken DEF SqlSign
<1>2. ASSUME NEW s \in SqlTail PROVE s \in Seq(SqlSign) /\ ~SqlFollows(s, 5)
  BY SqlPrecs DEF SqlTail, SqlFollows
<1>3. QED  BY <1>1, <1>2 DEF SqlTail, SqlFollows

LEMMA PrimaryReads ==
    ASSUME NEW e \in Seq(SqlSign), NEW x \in {0, 1}, Primarily(e, x)
    PROVE  Reads(e, x)
<1>1. AtFirst(e, x)
  <2>1. \A s \in SqlTail : s \in Seq(SqlSign)
    BY SqlTails
  <2>2. \A least \in 0..4 : least \in 0..5
    OBVIOUS
  <2>3. QED  BY <2>1, <2>2 DEF Primarily, AtFirst
<1>2. Compared(e, x)
  <2> SUFFICES ASSUME NEW l \in {0, 1}, NEW s \in SqlTail, NEW least \in 0..4, NEW r,
                      SqlClimbGives(Bit(l = x), s, least, r)
               PROVE  SqlClimbGives(l, <<"=">> \o (e \o s), least, r)
    BY DEF Compared
  <2>1. s \in Seq(SqlSign) /\ ~SqlFollows(s, 5)
    BY SqlTails
  <2>2. PICK u : u = e \o s
    OBVIOUS
  <2>3. SqlPrec("=") + 1 = 5 /\ least \in 0..5 /\ least <= SqlPrec("=")
    BY SqlPrecs
  <2>4. SqlGives(u, SqlPrec("=") + 1, [node |-> x, rest |-> s])
    BY <2>1, <2>2, <2>3, SqlReadsNoMore DEF Primarily
  <2>5. u \in Seq(SqlSign) /\ Len(s) <= Len(u)
    BY <2>1, <2>2, Longer
  <2>6. SqlClimbGives(Applied("=", l, x), s, least, r)
    BY DEF Applied, Compares
  <2>7. SqlClimbGives(l, <<"=">> \o u, least, r)
    BY <2>1, <2>3, <2>4, <2>5, <2>6, SqlReadsOperator
  <2>8. QED  BY <2>2, <2>7
<1>3. QED  BY <1>1, <1>2 DEF Reads

LEMMA BitPrimarily == \A b \in {"0", "1"} : Primarily(<<b>>, Bit(b = "1"))
  BY SqlReadsBit DEF Primarily

LEMMA EqualReads ==
    ASSUME NEW a, NEW x, Reads(a, x), NEW b, NEW y, Reads(b, y)
    PROVE  Reads((a \o <<"=">>) \o b, Bit(x = y))
<1>1. /\ a \in Seq(SqlSign) /\ b \in Seq(SqlSign) /\ <<"=">> \in Seq(SqlSign)
      /\ x \in {0, 1} /\ y \in {0, 1} /\ Bit(x = y) \in {0, 1}
  BY DEF Reads, SqlSign, Bit
<1>2. (a \o <<"=">>) \o b \in Seq(SqlSign)
  BY <1>1, ConcatProperties
<1>3. ASSUME NEW s \in SqlTail
      PROVE  /\ ((a \o <<"=">>) \o b) \o s = a \o (<<"=">> \o (b \o s))
             /\ b \o s \in Seq(SqlSign) /\ <<"=">> \o (b \o s) \in SqlTail
  <2>1. s \in Seq(SqlSign)
    BY SqlTails
  <2>2. b \o s \in Seq(SqlSign)
    BY <1>1, <2>1, ConcatProperties
  <2>3. ((a \o <<"=">>) \o b) \o s = a \o (<<"=">> \o (b \o s))
    <3>1. PICK o : o = <<"=">>
      OBVIOUS
    <3>2. a \in Seq(SqlSign) /\ o \in Seq(SqlSign) /\ b \in Seq(SqlSign) /\ s \in Seq(SqlSign)
      BY <1>1, <2>1, <3>1
    <3>3. Four(a, o, b, s)
      BY <3>2, FourSigns
    <3>4. QED  BY <3>1, <3>3, Zenon DEF Four
  <2>4. QED  BY <2>2, <2>3, SqlTails
<1>4. AtFirst((a \o <<"=">>) \o b, Bit(x = y))
  <2> SUFFICES ASSUME NEW s \in SqlTail, NEW least \in 0..4, NEW r,
                      SqlClimbGives(Bit(x = y), s, least, r)
               PROVE  SqlGives(((a \o <<"=">>) \o b) \o s, least, r)
    BY DEF AtFirst
  <2>1. SqlClimbGives(x, <<"=">> \o (b \o s), least, r)
    BY <1>1 DEF Reads, Compared
  <2>2. SqlGives(a \o (<<"=">> \o (b \o s)), least, r)
    BY <1>3, <2>1 DEF Reads, AtFirst
  <2>3. QED  BY <1>3, <2>2
<1>5. Compared((a \o <<"=">>) \o b, Bit(x = y))
  <2> SUFFICES ASSUME NEW l \in {0, 1}, NEW s \in SqlTail, NEW least \in 0..4, NEW r,
                      SqlClimbGives(Bit(l = Bit(x = y)), s, least, r)
               PROVE  SqlClimbGives(l, <<"=">> \o (((a \o <<"=">>) \o b) \o s), least, r)
    BY DEF Compared
  <2>1. Bit(l = Bit(x = y)) = Bit(Bit(l = x) = y) /\ Bit(l = x) \in {0, 1}
    BY <1>1 DEF Bit
  <2>2. SqlClimbGives(Bit(l = x), <<"=">> \o (b \o s), least, r)
    BY <2>1 DEF Reads, Compared
  <2>3. SqlClimbGives(l, <<"=">> \o (a \o (<<"=">> \o (b \o s))), least, r)
    BY <1>3, <2>2 DEF Reads, Compared
  <2>4. QED  BY <1>3, <2>3
<1>6. QED  BY <1>1, <1>2, <1>4, <1>5 DEF Reads

(* Inside parentheses: what stands before ")".                              *)
LEMMA ReadsToParens ==
    ASSUME NEW e, NEW x, Reads(e, x), NEW s \in Seq(SqlSign), NEW least \in 0..4
    PROVE  /\ e \o (<<")">> \o s) \in Seq(SqlSign)
           /\ Len(<<")">> \o s) <= Len(e \o (<<")">> \o s))
           /\ <<")">> \o s \in Seq(SqlSign)
           /\ SqlGives(e \o (<<")">> \o s), least, [node |-> x, rest |-> <<")">> \o s])
<1>1. PICK u : u = <<")">> \o s
  OBVIOUS
<1>2. u \in SqlTail /\ least \in 0..5
  BY <1>1, SqlTails
<1>3. u \in Seq(SqlSign)
  BY <1>2, SqlTails
<1>4. ~SqlFollows(u, least)
  BY <1>1, <1>2, SqlTails
<1>5. e \in Seq(SqlSign) /\ x \in {0, 1}
  BY DEF Reads
<1>6. SqlGives(e \o u, least, [node |-> x, rest |-> u])
  BY <1>2, <1>3, <1>4, <1>5, SqlReadsNoMore DEF Reads, AtFirst
<1>7. QED  BY <1>1, <1>3, <1>5, <1>6, Longer

LEMMA InParens ==
    ASSUME NEW e \in Seq(SqlSign), NEW x \in {0, 1},
           \A s \in Seq(SqlSign) : SqlGives(e \o (<<")">> \o s), 0, [node |-> x, rest |-> <<")">> \o s])
    PROVE  Primarily((<<"(">> \o e) \o <<")">>, x)
<1> SUFFICES ASSUME NEW s \in Seq(SqlSign), NEW least \in 0..5, NEW r, SqlClimbGives(x, s, least, r)
             PROVE  SqlGives(((<<"(">> \o e) \o <<")">>) \o s, least, r)
  BY DEF Primarily
<1>1. <<"(">> \in Seq(SqlSign) /\ <<")">> \in Seq(SqlSign)
  BY DEF SqlSign
<1>2. ((<<"(">> \o e) \o <<")">>) \o s = <<"(">> \o (e \o (<<")">> \o s))
  <2>1. PICK o, c : o = <<"(">> /\ c = <<")">>
    OBVIOUS
  <2>2. o \in Seq(SqlSign) /\ e \in Seq(SqlSign) /\ c \in Seq(SqlSign) /\ s \in Seq(SqlSign)
    BY <1>1, <2>1
  <2>3. Four(o, e, c, s)
    BY <2>2, FourSigns
  <2>4. QED  BY <2>1, <2>3, Zenon DEF Four
<1>3. e \o (<<")">> \o s) \in Seq(SqlSign) /\ Len(s) <= Len(e \o (<<")">> \o s))
  <2>1. PICK u : u = <<")">> \o s
    OBVIOUS
  <2>2. u \in Seq(SqlSign) /\ Len(u) = 1 + Len(s) /\ Len(s) \in Nat /\ Len(e) \in Nat
    BY <2>1, FirstToken DEF SqlSign
  <2>3. e \o u \in Seq(SqlSign) /\ Len(e \o u) = Len(e) + Len(u)
    BY <2>2, ConcatProperties
  <2>4. QED  BY <2>1, <2>2, <2>3
<1>4. QED  BY <1>2, <1>3, SqlReadsParens

LEMMA ParensPrimarily ==
    ASSUME NEW e, NEW x, Reads(e, x)
    PROVE  Primarily((<<"(">> \o e) \o <<")">>, x)
<1>1. e \in Seq(SqlSign) /\ x \in {0, 1} /\ 0 \in 0..4
  BY DEF Reads
<1>2. \A s \in Seq(SqlSign) : SqlGives(e \o (<<")">> \o s), 0, [node |-> x, rest |-> <<")">> \o s])
  BY <1>1, ReadsToParens
<1>3. QED  BY <1>1, <1>2, InParens

LEMMA LogicalPrimarily ==
    ASSUME NEW a, NEW x, Reads(a, x), NEW b, NEW y, Reads(b, y), NEW op \in {"AND", "OR"}
    PROVE  /\ Primarily((<<"(">> \o ((a \o <<op>>) \o b)) \o <<")">>, Applied(op, x, y))
           /\ Applied(op, x, y) \in {0, 1}
<1>1. /\ a \in Seq(SqlSign) /\ b \in Seq(SqlSign) /\ <<op>> \in Seq(SqlSign)
      /\ x \in {0, 1} /\ y \in {0, 1}
  BY DEF Reads, SqlSign
<1>2. Applied(op, x, y) \in {0, 1}
  BY DEF Applied, Bit
<1>3. (a \o <<op>>) \o b \in Seq(SqlSign)
  BY <1>1, ConcatProperties
<1>4. ASSUME NEW s \in Seq(SqlSign)
      PROVE  SqlGives(((a \o <<op>>) \o b) \o (<<")">> \o s), 0,
                      [node |-> Applied(op, x, y), rest |-> <<")">> \o s])
  <2>1. PICK u : u = <<")">> \o s
    OBVIOUS
  <2>2. u \in Seq(SqlSign) /\ ~SqlFollows(u, 0)
    BY <2>1, SqlTails, FirstToken DEF SqlSign
  <2>3. PICK v : v = b \o u
    OBVIOUS
  <2>4. ((a \o <<op>>) \o b) \o u = a \o (<<op>> \o v)
    <3>1. PICK o : o = <<op>>
      OBVIOUS
    <3>2. a \in Seq(SqlSign) /\ o \in Seq(SqlSign) /\ b \in Seq(SqlSign) /\ u \in Seq(SqlSign)
      BY <1>1, <2>2, <3>1
    <3>3. Four(a, o, b, u)
      BY <3>2, FourSigns
    <3>4. QED  BY <2>3, <3>1, <3>3, Zenon DEF Four
  <2>5. SqlPrec(op) + 1 \in 0..4 /\ 0 <= SqlPrec(op)
    BY SqlPrecs
  <2>6. /\ v \in Seq(SqlSign) /\ Len(u) <= Len(v)
        /\ SqlGives(v, SqlPrec(op) + 1, [node |-> y, rest |-> u])
    BY <2>1, <2>3, <2>5, ReadsToParens
  <2>7. PICK z : z = Applied(op, x, y)
    OBVIOUS
  <2>8. SqlClimbGives(z, u, 0, [node |-> z, rest |-> u])
    BY <1>2, <2>2, <2>7, SqlReadsNoMore
  <2>9. SqlClimbGives(x, <<op>> \o v, 0, [node |-> z, rest |-> u])
    <3>1. SqlClimbGives(Applied(op, x, y), u, 0, [node |-> z, rest |-> u])
      BY <2>7, <2>8
    <3>2. op \in {"AND", "OR", "=", "<>"} /\ 0 \in 0..5
      OBVIOUS
    <3>3. QED  BY <1>1, <2>2, <2>5, <2>6, <3>1, <3>2, SqlReadsOperator
  <2>10. <<op>> \o v \in SqlTail
    BY <2>6, SqlTails
  <2>11. SqlGives(a \o (<<op>> \o v), 0, [node |-> z, rest |-> u])
    BY <2>9, <2>10 DEF Reads, AtFirst
  <2>12. QED  BY <2>1, <2>4, <2>7, <2>11
<1>5. QED  BY <1>2, <1>3, <1>4, InParens

LEMMA NotPrimarily ==
    ASSUME NEW e, NEW x, Reads(e, x)
    PROVE  Primarily((<<"(">> \o (<<"NOT">> \o e)) \o <<")">>, Bit(x = 0)) /\ Bit(x = 0) \in {0, 1}
<1>1. e \in Seq(SqlSign) /\ <<"NOT">> \in Seq(SqlSign) /\ Bit(x = 0) \in {0, 1}
  BY DEF Reads, SqlSign, Bit
<1>2. <<"NOT">> \o e \in Seq(SqlSign)
  BY <1>1, ConcatProperties
<1>3. ASSUME NEW s \in Seq(SqlSign)
      PROVE  SqlGives((<<"NOT">> \o e) \o (<<")">> \o s), 0, [node |-> Bit(x = 0), rest |-> <<")">> \o s])
  <2>1. PICK u : u = <<")">> \o s
    OBVIOUS
  <2>2. u \in Seq(SqlSign) /\ ~SqlFollows(u, 0)
    BY <2>1, SqlTails, FirstToken DEF SqlSign
  <2>3. (<<"NOT">> \o e) \o u = <<"NOT">> \o (e \o u)
    BY <1>1, <2>2, ConcatAssociative
  <2>4. PICK v : v = e \o u
    OBVIOUS
  <2>5. 3 \in 0..4 /\ 0 \in 0..5
    OBVIOUS
  <2>6. v \in Seq(SqlSign) /\ Len(u) <= Len(v) /\ SqlGives(v, 3, [node |-> x, rest |-> u])
    BY <2>1, <2>4, <2>5, ReadsToParens
  <2>7. SqlClimbGives(Bit(x = 0), u, 0, [node |-> Bit(x = 0), rest |-> u])
    BY <1>1, <2>2, SqlReadsNoMore
  <2>8. SqlGives(<<"NOT">> \o v, 0, [node |-> Bit(x = 0), rest |-> u])
    BY <2>2, <2>5, <2>6, <2>7, SqlReadsNot
  <2>9. QED  BY <2>1, <2>3, <2>4, <2>8
<1>4. QED  BY <1>1, <1>2, <1>3, InParens
----------------------------------------------------------------------------
(* The texts of the visitor: a text says a set of metadata when its value   *)
(* is 1 for these and 0 for the others.                                     *)

LEMMA Signs ==
    ASSUME NEW t \in SqlToken, NEW rows, NEW outer
    PROVE  /\ Sign(t, rows, outer) \in SqlSign
           /\ t.t \in {"(", ")", "NOT", "AND", "OR", "=", "<>"} => Sign(t, rows, outer) = t.t
  BY DEF SqlToken, Sign, SqlSign

LEMMA ValuedText ==
    ASSUME NEW a \in Seq(SqlToken), NEW rows, NEW outer
    PROVE  /\ Valued(a, rows, outer) \in Seq(SqlSign)
           /\ Len(Valued(a, rows, outer)) = Len(a)
           /\ \A i \in 1..Len(a) : Valued(a, rows, outer)[i] = Sign(a[i], rows, outer)
<1>1. Len(a) \in Nat /\ DOMAIN a = 1..Len(a) /\ \A i \in 1..Len(a) : a[i] \in SqlToken
  OBVIOUS
<1>2. Valued(a, rows, outer) = [i \in 1..Len(a) |-> Sign(a[i], rows, outer)]
  BY <1>1 DEF Valued
<1>3. \A i \in 1..Len(a) : Sign(a[i], rows, outer) \in SqlSign
  BY <1>1, Signs
<1>4. PICK v : v = [i \in 1..Len(a) |-> Sign(a[i], rows, outer)]
  OBVIOUS
<1>5. v \in [1..Len(a) -> SqlSign]
  BY <1>3, <1>4
<1>6. v \in Seq(SqlSign)
  BY <1>1, <1>5, SeqDef
<1>7. Len(v) = Len(a)
  BY <1>1, <1>5, <1>6, LenProperties
<1>8. QED  BY <1>2, <1>4, <1>6, <1>7

LEMMA ValuedConcat ==
    ASSUME NEW a \in Seq(SqlToken), NEW b \in Seq(SqlToken), NEW rows, NEW outer
    PROVE  Valued(a \o b, rows, outer) = Valued(a, rows, outer) \o Valued(b, rows, outer)
<1>1. PICK c : c = a \o b
  OBVIOUS
<1>2. /\ c \in Seq(SqlToken) /\ Len(c) = Len(a) + Len(b)
      /\ \A i \in 1..Len(a) + Len(b) : c[i] = IF i <= Len(a) THEN a[i] ELSE b[i - Len(a)]
  BY <1>1, ConcatProperties
<1>3. PICK u : u = Valued(a, rows, outer)
  OBVIOUS
<1>4. PICK v : v = Valued(b, rows, outer)
  OBVIOUS
<1>5. /\ u \in Seq(SqlSign) /\ Len(u) = Len(a)
      /\ \A i \in 1..Len(a) : u[i] = Sign(a[i], rows, outer)
  BY <1>3, ValuedText
<1>6. /\ v \in Seq(SqlSign) /\ Len(v) = Len(b)
      /\ \A i \in 1..Len(b) : v[i] = Sign(b[i], rows, outer)
  BY <1>4, ValuedText
<1>7. PICK w : w = u \o v
  OBVIOUS
<1>8. /\ w \in Seq(SqlSign) /\ Len(w) = Len(u) + Len(v)
      /\ \A i \in 1..Len(u) + Len(v) : w[i] = IF i <= Len(u) THEN u[i] ELSE v[i - Len(u)]
  BY <1>5, <1>6, <1>7, ConcatProperties
<1>9. PICK z : z = Valued(c, rows, outer)
  OBVIOUS
<1>10. /\ z \in Seq(SqlSign) /\ Len(z) = Len(c)
       /\ \A i \in 1..Len(c) : z[i] = Sign(c[i], rows, outer)
  BY <1>2, <1>9, ValuedText
<1>11. Len(a) \in Nat /\ Len(b) \in Nat
  OBVIOUS
<1>12. Len(z) = Len(w)
  BY <1>2, <1>5, <1>6, <1>8, <1>10
<1>13. ASSUME NEW i \in 1..Len(z) PROVE z[i] = w[i]
  <2>1. i \in 1..Len(a) + Len(b) /\ z[i] = Sign(c[i], rows, outer)
    BY <1>2, <1>10, <1>13
  <2>2. CASE i <= Len(a)
    <3>1. i \in 1..Len(a)
      BY <1>11, <2>1, <2>2
    <3>2. c[i] = a[i] /\ w[i] = u[i] /\ u[i] = Sign(a[i], rows, outer)
      BY <1>2, <1>5, <1>6, <1>8, <2>1, <2>2, <3>1
    <3>3. QED  BY <2>1, <3>2
  <2>3. CASE ~(i <= Len(a))
    <3>1. i - Len(a) \in 1..Len(b)
      BY <1>11, <2>1, <2>3
    <3>2. c[i] = b[i - Len(a)] /\ w[i] = v[i - Len(a)] /\ v[i - Len(a)] = Sign(b[i - Len(a)], rows, outer)
      BY <1>2, <1>5, <1>6, <1>8, <2>1, <2>3, <3>1
    <3>3. QED  BY <2>1, <3>2
  <2>4. QED  BY <2>2, <2>3
<1>14. z = w
  BY <1>8, <1>10, <1>12, <1>13, SeqEqual
<1>15. QED  BY <1>1, <1>3, <1>4, <1>7, <1>9, <1>14

LEMMA ValuedToken ==
    ASSUME NEW t \in SqlToken, NEW rows, NEW outer
    PROVE  Valued(<<t>>, rows, outer) = <<Sign(t, rows, outer)>>
<1>1. <<t>> \in Seq(SqlToken) /\ Len(<<t>>) = 1 /\ <<t>>[1] = t
  OBVIOUS
<1>2. PICK v : v = Valued(<<t>>, rows, outer)
  OBVIOUS
<1>3. v \in Seq(SqlSign) /\ Len(v) = 1 /\ v[1] = Sign(t, rows, outer)
  <2>1. /\ v \in Seq(SqlSign) /\ Len(v) = Len(<<t>>)
        /\ \A i \in 1..Len(<<t>>) : v[i] = Sign(<<t>>[i], rows, outer)
    BY <1>1, <1>2, ValuedText, ZenonT(40)
  <2>2. QED  BY <1>1, <2>1
<1>4. PICK w : w = <<Sign(t, rows, outer)>>
  OBVIOUS
<1>5. w \in Seq(SqlSign) /\ Len(w) = 1 /\ w[1] = Sign(t, rows, outer)
  BY <1>4, Signs
<1>6. v = w
  BY <1>3, <1>5, SeqEqual
<1>7. QED  BY <1>2, <1>4, <1>6

LEMMA ValuedOp ==
    ASSUME NEW op \in {"(", ")", "NOT", "AND", "OR", "=", "<>"}, NEW rows, NEW outer
    PROVE  Op(op) \in Seq(SqlToken) /\ Valued(Op(op), rows, outer) = <<op>>
<1>1. [t |-> op] \in SqlToken /\ [t |-> op].t = op
  BY DEF SqlToken
<1>2. Valued(<<[t |-> op]>>, rows, outer) = <<op>>
  BY <1>1, ValuedToken, Signs
<1>3. QED  BY <1>1, <1>2 DEF Op

Says(sql, m) ==
    /\ sql \in Seq(SqlToken)
    /\ \A rows \in Metadata, outer \in BOOLEAN : Reads(Valued(sql, rows, outer), Bit(rows \in m))
(* Three texts one after the other, with a name so that the provers take    *)
(* them as they are.                                                        *)
Between(a, b, c) == (a \o b) \o c

LEMMA ValuedThree ==
    ASSUME NEW a \in Seq(SqlToken), NEW b \in Seq(SqlToken), NEW c \in Seq(SqlToken), NEW rows, NEW outer
    PROVE  /\ Between(a, b, c) \in Seq(SqlToken)
           /\ Valued(Between(a, b, c), rows, outer)
                = Between(Valued(a, rows, outer), Valued(b, rows, outer), Valued(c, rows, outer))
<1>1. a \o b \in Seq(SqlToken)
  BY ConcatProperties
<1>2. Valued(a \o b, rows, outer) = Valued(a, rows, outer) \o Valued(b, rows, outer)
  BY ValuedConcat
<1>3. PICK u : u = a \o b
  OBVIOUS
<1>4. u \in Seq(SqlToken)
  BY <1>1, <1>3
<1>5. u \o c \in Seq(SqlToken)
  BY <1>4, ConcatProperties
<1>6. Valued(u \o c, rows, outer) = Valued(u, rows, outer) \o Valued(c, rows, outer)
  BY <1>4, ValuedConcat, SMTT(30)
<1>7. QED  BY <1>2, <1>3, <1>5, <1>6 DEF Between

LEMMA ValuedParens ==
    ASSUME NEW s \in Seq(SqlToken), NEW rows, NEW outer
    PROVE  /\ Parens(s) \in Seq(SqlToken)
           /\ Valued(Parens(s), rows, outer) = Between(<<"(">>, Valued(s, rows, outer), <<")">>)
<1>1. PICK a : a = Op("(")
  OBVIOUS
<1>2. PICK c : c = Op(")")
  OBVIOUS
<1>3. a \in Seq(SqlToken) /\ c \in Seq(SqlToken)
  BY <1>1, <1>2, ValuedOp
<1>4. /\ Between(a, s, c) \in Seq(SqlToken)
      /\ Valued(Between(a, s, c), rows, outer)
           = Between(Valued(a, rows, outer), Valued(s, rows, outer), Valued(c, rows, outer))
  BY <1>3, ValuedThree
<1>5. Parens(s) = Between(a, s, c)
  BY <1>1, <1>2 DEF Parens, Between
<1>6. Valued(a, rows, outer) = <<"(">> /\ Valued(c, rows, outer) = <<")">>
  BY <1>1, <1>2, ValuedOp
<1>7. QED  BY <1>4, <1>5, <1>6

LEMMA ValuedBinary ==
    ASSUME NEW a \in Seq(SqlToken), NEW b \in Seq(SqlToken), NEW op \in {"AND", "OR", "="},
           NEW rows, NEW outer
    PROVE  /\ Between(a, Op(op), b) \in Seq(SqlToken)
           /\ Valued(Between(a, Op(op), b), rows, outer)
                = Between(Valued(a, rows, outer), <<op>>, Valued(b, rows, outer))
<1>1. PICK o : o = Op(op)
  OBVIOUS
<1>2. o \in Seq(SqlToken)
  BY <1>1, ValuedOp
<1>3. /\ Between(a, o, b) \in Seq(SqlToken)
      /\ Valued(Between(a, o, b), rows, outer)
           = Between(Valued(a, rows, outer), Valued(o, rows, outer), Valued(b, rows, outer))
  BY <1>2, ValuedThree
<1>4. Valued(o, rows, outer) = <<op>>
  BY <1>1, ValuedOp
<1>5. QED  BY <1>1, <1>3, <1>4

LEMMA SaysParens ==
    ASSUME NEW s, NEW m, Says(s, m)
    PROVE  Says(visitParens(s), m)
<1>1. s \in Seq(SqlToken)
  BY DEF Says
<1>2. Says(Parens(s), m)
  <2>1. ASSUME NEW rows \in Metadata, NEW outer \in BOOLEAN
        PROVE  Reads(Valued(Parens(s), rows, outer), Bit(rows \in m))
    <3>1. Reads(Valued(s, rows, outer), Bit(rows \in m))
      BY DEF Says
    <3>2. PICK e : e = Between(<<"(">>, Valued(s, rows, outer), <<")">>)
      OBVIOUS
    <3>3. Primarily(e, Bit(rows \in m))
      BY <3>1, <3>2, ParensPrimarily DEF Between
    <3>4. Parens(s) \in Seq(SqlToken) /\ Valued(Parens(s), rows, outer) = e
      BY <1>1, <3>2, ValuedParens
    <3>5. e \in Seq(SqlSign)
      BY <3>4, ValuedText
    <3>6. Bit(rows \in m) \in {0, 1}
      BY DEF Bit
    <3>7. QED  BY <3>3, <3>4, <3>5, <3>6, PrimaryReads
  <2>2. QED  BY <1>1, <2>1, ValuedParens DEF Says
<1>3. visitParens(s) \in {s, Parens(s)}
  BY DEF visitParens
<1>4. QED  BY <1>2, <1>3

LEMMA SaysNot ==
    ASSUME NEW s, NEW m, Says(s, m)
    PROVE  Says(visitUnary(s), Metadata \ m)
<1>1. s \in Seq(SqlToken)
  BY DEF Says
<1>2. PICK u : u = Op("NOT") \o s
  OBVIOUS
<1>3. u \in Seq(SqlToken)
  BY <1>1, <1>2, ValuedOp, ConcatProperties
<1>4. ASSUME NEW rows \in Metadata, NEW outer \in BOOLEAN
      PROVE  Reads(Valued(Parens(u), rows, outer), Bit(rows \in Metadata \ m))
  <2>1. PICK e : e = Valued(s, rows, outer)
    OBVIOUS
  <2>2. PICK x : x = Bit(rows \in m)
    OBVIOUS
  <2>3. Reads(e, x)
    BY <2>1, <2>2 DEF Says
  <2>4. Valued(u, rows, outer) = <<"NOT">> \o e
    <3>1. Op("NOT") \in Seq(SqlToken) /\ Valued(Op("NOT"), rows, outer) = <<"NOT">>
      BY ValuedOp
    <3>2. Valued(Op("NOT") \o s, rows, outer) = Valued(Op("NOT"), rows, outer) \o Valued(s, rows, outer)
      BY <1>1, <3>1, ValuedConcat
    <3>3. QED  BY <1>2, <2>1, <3>1, <3>2
  <2>5. Valued(Parens(u), rows, outer) = Between(<<"(">>, <<"NOT">> \o e, <<")">>)
    <3>1. Valued(Parens(u), rows, outer) = Between(<<"(">>, Valued(u, rows, outer), <<")">>)
      BY <1>3, ValuedParens
    <3>2. QED  BY <2>4, <3>1
  <2>6. Primarily(Valued(Parens(u), rows, outer), Bit(x = 0)) /\ Bit(x = 0) \in {0, 1}
    BY <2>3, <2>5, NotPrimarily DEF Between
  <2>7. Valued(Parens(u), rows, outer) \in Seq(SqlSign)
    BY <1>3, ValuedParens, ValuedText
  <2>8. Bit(x = 0) = Bit(rows \in Metadata \ m)
    BY <2>2 DEF Bit
  <2>9. QED  BY <2>6, <2>7, <2>8, PrimaryReads
<1>5. QED  BY <1>2, <1>3, <1>4, ValuedParens DEF Says, visitUnary

Joined(op, m, n) == IF op = "AND" THEN m \cap n ELSE m \cup n

LEMMA SaysLogical ==
    ASSUME NEW a, NEW m, Says(a, m), NEW b, NEW n, Says(b, n), NEW op \in {"AND", "OR"}
    PROVE  Says(visitLogical(a, op, b), Joined(op, m, n))
<1>1. a \in Seq(SqlToken) /\ b \in Seq(SqlToken)
  BY DEF Says
<1>2. PICK u : u = Between(a, Op(op), b)
  OBVIOUS
<1>3. u \in Seq(SqlToken)
  BY <1>1, <1>2, ValuedBinary
<1>4. ASSUME NEW rows \in Metadata, NEW outer \in BOOLEAN
      PROVE  Reads(Valued(Parens(u), rows, outer), Bit(rows \in Joined(op, m, n)))
  <2>1. PICK d : d = Valued(a, rows, outer)
    OBVIOUS
  <2>2. PICK e : e = Valued(b, rows, outer)
    OBVIOUS
  <2>3. PICK x : x = Bit(rows \in m)
    OBVIOUS
  <2>4. PICK y : y = Bit(rows \in n)
    OBVIOUS
  <2>5. Reads(d, x) /\ Reads(e, y)
    BY <2>1, <2>2, <2>3, <2>4 DEF Says
  <2>6. Valued(u, rows, outer) = Between(d, <<op>>, e)
    <3>1. Valued(Between(a, Op(op), b), rows, outer)
            = Between(Valued(a, rows, outer), <<op>>, Valued(b, rows, outer))
      BY <1>1, ValuedBinary
    <3>2. QED  BY <1>2, <2>1, <2>2, <3>1
  <2>7. Valued(Parens(u), rows, outer) = Between(<<"(">>, Between(d, <<op>>, e), <<")">>)
    <3>1. Valued(Parens(u), rows, outer) = Between(<<"(">>, Valued(u, rows, outer), <<")">>)
      BY <1>3, ValuedParens
    <3>2. QED  BY <2>6, <3>1
  <2>8. Primarily(Valued(Parens(u), rows, outer), Applied(op, x, y)) /\ Applied(op, x, y) \in {0, 1}
    BY <2>5, <2>7, LogicalPrimarily DEF Between
  <2>9. Valued(Parens(u), rows, outer) \in Seq(SqlSign)
    BY <1>3, ValuedParens, ValuedText
  <2>10. Applied(op, x, y) = Bit(rows \in Joined(op, m, n))
    <3>1. (x = 1 <=> rows \in m) /\ (y = 1 <=> rows \in n)
      BY <2>3, <2>4 DEF Bit
    <3>2. CASE op = "AND"
      BY <3>1, <3>2 DEF Applied, Joined, Bit
    <3>3. CASE op = "OR"
      BY <3>1, <3>3 DEF Applied, Joined, Bit
    <3>4. QED  BY <3>2, <3>3
  <2>11. QED  BY <2>8, <2>9, <2>10, PrimaryReads
<1>5. Says(Parens(u), Joined(op, m, n))
  BY <1>3, <1>4, ValuedParens DEF Says
<1>6. QED  BY <1>2, <1>5 DEF visitLogical, Between

LEMMA SaysEqual ==
    ASSUME NEW a, NEW m, Says(a, m), NEW b, NEW n, Says(b, n)
    PROVE  Says(a \o Op("=") \o b, Agreeing(m, n))
<1>1. a \in Seq(SqlToken) /\ b \in Seq(SqlToken)
  BY DEF Says
<1>2. PICK u : u = Between(a, Op("="), b)
  OBVIOUS
<1>3. u \in Seq(SqlToken)
  BY <1>1, <1>2, ValuedBinary
<1>4. ASSUME NEW rows \in Metadata, NEW outer \in BOOLEAN
      PROVE  Reads(Valued(u, rows, outer), Bit(rows \in Agreeing(m, n)))
  <2>1. PICK d : d = Valued(a, rows, outer)
    OBVIOUS
  <2>2. PICK e : e = Valued(b, rows, outer)
    OBVIOUS
  <2>3. PICK x : x = Bit(rows \in m)
    OBVIOUS
  <2>4. PICK y : y = Bit(rows \in n)
    OBVIOUS
  <2>5. Reads(d, x) /\ Reads(e, y)
    BY <2>1, <2>2, <2>3, <2>4 DEF Says
  <2>6. Valued(u, rows, outer) = Between(d, <<"=">>, e)
    <3>1. Valued(Between(a, Op("="), b), rows, outer)
            = Between(Valued(a, rows, outer), <<"=">>, Valued(b, rows, outer))
      BY <1>1, ValuedBinary
    <3>2. QED  BY <1>2, <2>1, <2>2, <3>1
  <2>7. Bit(x = y) = Bit(rows \in Agreeing(m, n))
    BY <2>3, <2>4 DEF Bit, Agreeing
  <2>8. QED  BY <2>5, <2>6, <2>7, EqualReads DEF Between
<1>5. QED  BY <1>2, <1>3, <1>4 DEF Says, Between

(* One EXISTS: what the row of that key is compared with.                   *)
LEMMA SaysExists ==
    ASSUME NEW key \in Keys, NEW condition \in Condition, NEW m,
           \A rows \in Metadata : (\E r \in rows : r.key = key /\ Holds(condition, r.value)) <=> rows \in m
    PROVE  Says(handleKeyValueCondition(key, condition), m)
<1>1. PICK t : t = [t |-> "EXISTS", key |-> key, condition |-> condition]
  OBVIOUS
<1>2. t \in SqlToken /\ t.t = "EXISTS" /\ t.key = key /\ t.condition = condition
  BY <1>1 DEF SqlToken
<1>3. <<t>> \in Seq(SqlToken) /\ handleKeyValueCondition(key, condition) = <<t>>
  BY <1>1, <1>2 DEF handleKeyValueCondition
<1>4. ASSUME NEW rows \in Metadata, NEW outer \in BOOLEAN
      PROVE  Reads(Valued(<<t>>, rows, outer), Bit(rows \in m))
  <2>1. Exists(t, rows) <=> rows \in m
    BY <1>2 DEF Exists
  <2>2. PICK b \in {"0", "1"} : b = Sign(t, rows, outer) /\ (b = "1" <=> rows \in m)
    BY <1>2, <2>1 DEF Sign
  <2>3. Valued(<<t>>, rows, outer) = <<b>>
    BY <1>2, <2>2, ValuedToken
  <2>4. Bit(b = "1") = Bit(rows \in m) /\ Bit(rows \in m) \in {0, 1} /\ <<b>> \in Seq(SqlSign)
    BY <2>2 DEF Bit, SqlSign
  <2>5. Primarily(<<b>>, Bit(rows \in m))
    BY <2>4, BitPrimarily
  <2>6. QED  BY <2>3, <2>4, <2>5, PrimaryReads
<1>5. QED  BY <1>3, <1>4 DEF Says

LEMMA SaysComparison ==
    ASSUME NEW key \in Keys, NEW cmp \in Comparison, NEW num \in Number
    PROVE  Says(handleKeyValueCondition(key, [op |-> SqlOp[cmp], num |-> num]), Having(key, Passing(cmp, num)))
<1>1. PICK condition : condition = [op |-> SqlOp[cmp], num |-> num]
  OBVIOUS
<1>2. condition \in Condition /\ condition.op = SqlOp[cmp] /\ condition.op # "IN" /\ condition.num = num
  BY <1>1, SqlOps DEF Condition, Comparison
<1>3. ASSUME NEW rows \in Metadata
      PROVE  (\E r \in rows : r.key = key /\ Holds(condition, r.value)) <=> rows \in Having(key, Passing(cmp, num))
  <2>1. \A r \in rows : r.value \in Values
    BY DEF Metadata
  <2>2. \A r \in rows : Holds(condition, r.value) <=> r.value \in Passing(cmp, num)
    BY <1>2, <2>1 DEF Holds, Passing
  <2>3. QED  BY <2>2 DEF Having
<1>4. QED  BY <1>1, <1>2, <1>3, SaysExists

LEMMA SaysIn ==
    ASSUME NEW key \in Keys, NEW list \in SUBSET Number
    PROVE  Says(handleKeyValueCondition(key, [op |-> "IN", list |-> list]), Having(key, list))
<1>1. PICK condition : condition = [op |-> "IN", list |-> list]
  OBVIOUS
<1>2. condition \in Condition /\ condition.op = "IN" /\ condition.list = list
  BY <1>1 DEF Condition
<1>3. ASSUME NEW rows \in Metadata
      PROVE  (\E r \in rows : r.key = key /\ Holds(condition, r.value)) <=> rows \in Having(key, list)
  BY <1>2 DEF Holds, Having
<1>4. QED  BY <1>1, <1>2, <1>3, SaysExists
LEMMA WhereReads ==
    ASSUME NEW sql, NEW m, Says(sql, m), NEW rows \in Metadata, NEW outer \in BOOLEAN
    PROVE  Value(Valued(Op("outer") \o Op("AND") \o sql, rows, outer)) = Bit(outer /\ rows \in m)
<1>1. PICK t : t = [t |-> "outer"]
  OBVIOUS
<1>2. t \in SqlToken /\ t.t = "outer" /\ Op("outer") = <<t>>
  BY <1>1 DEF SqlToken, Op
<1>3. PICK b \in {"0", "1"} : Sign(t, rows, outer) = b /\ (b = "1" <=> outer)
  BY <1>2 DEF Sign
<1>4. PICK a : a = Op("outer")
  OBVIOUS
<1>5. PICK o : o = Op("AND")
  OBVIOUS
<1>6. a \in Seq(SqlToken) /\ o \in Seq(SqlToken) /\ sql \in Seq(SqlToken)
  <2>1. a \in Seq(SqlToken)
    <3>1. <<t>> \in Seq(SqlToken)
      BY <1>2
    <3>2. QED  BY <1>2, <1>4, <3>1
  <2>2. o \in Seq(SqlToken)
    BY <1>5, ValuedOp
  <2>3. QED  BY <2>1, <2>2 DEF Says
<1>7. Valued(Between(a, o, sql), rows, outer)
        = Between(Valued(a, rows, outer), Valued(o, rows, outer), Valued(sql, rows, outer))
  BY <1>6, ValuedThree
<1>8. Valued(a, rows, outer) = <<b>>
  BY <1>2, <1>3, <1>4, ValuedToken
<1>9. Valued(o, rows, outer) = <<"AND">>
  BY <1>5, ValuedOp
<1>10. PICK e : e = Valued(sql, rows, outer)
  OBVIOUS
<1>11. PICK x : x = Bit(rows \in m)
  OBVIOUS
<1>12. Reads(e, x)
  BY <1>10, <1>11 DEF Says
<1>13. e \in Seq(SqlSign) /\ x \in {0, 1} /\ <<b>> \in Seq(SqlSign) /\ <<"AND">> \in Seq(SqlSign)
  BY <1>12 DEF Reads, SqlSign
<1>14. Between(<<b>>, <<"AND">>, e) = <<b>> \o (<<"AND">> \o e)
  BY <1>13, ConcatAssociative DEF Between
<1>15. SqlGives(e, 3, [node |-> x, rest |-> <<>>])
  <2>1. <<>> \in SqlTail /\ <<>> \in Seq(SqlSign) /\ ~SqlFollows(<<>>, 3)
    BY DEF SqlTail, SqlFollows
  <2>2. 3 \in 0..4 /\ 3 \in 0..5
    OBVIOUS
  <2>3. SqlClimbGives(x, <<>>, 3, [node |-> x, rest |-> <<>>])
    BY <1>13, <2>1, <2>2, SqlReadsNoMore
  <2>4. SqlGives(e \o <<>>, 3, [node |-> x, rest |-> <<>>])
    BY <1>12, <2>1, <2>2, <2>3 DEF Reads, AtFirst
  <2>5. e \o <<>> = e
    BY <1>13, ConcatEmptySeq
  <2>6. QED  BY <2>4, <2>5
<1>16. PICK y : y = Bit(outer /\ rows \in m)
  OBVIOUS
<1>17. Applied("AND", Bit(b = "1"), x) = y /\ y \in {0, 1} /\ Bit(b = "1") \in {0, 1}
  BY <1>3, <1>11, <1>16 DEF Applied, Bit
<1>18. SqlClimbGives(Bit(b = "1"), <<"AND">> \o e, 0, [node |-> y, rest |-> <<>>])
  <2>1. <<>> \in Seq(SqlSign) /\ ~SqlFollows(<<>>, 0) /\ 0 \in 0..5 /\ Len(<<>>) <= Len(e)
    <3>1. Len(e) \in Nat /\ Len(<<>>) = 0
      BY <1>13
    <3>2. QED  BY <3>1 DEF SqlFollows
  <2>2. SqlClimbGives(Applied("AND", Bit(b = "1"), x), <<>>, 0, [node |-> y, rest |-> <<>>])
    BY <1>17, <2>1, SqlReadsNoMore
  <2>3. SqlGives(e, SqlPrec("AND") + 1, [node |-> x, rest |-> <<>>]) /\ 0 <= SqlPrec("AND")
    BY <1>15, SqlPrecs
  <2>4. QED  BY <1>13, <1>17, <2>1, <2>2, <2>3, SqlReadsOperator
<1>19. <<"AND">> \o e \in Seq(SqlSign)
  BY <1>13, ConcatProperties
<1>20. SqlGives(<<b>> \o (<<"AND">> \o e), 0, [node |-> y, rest |-> <<>>])
  <2>1. 0 \in 0..5
    OBVIOUS
  <2>2. QED  BY <1>18, <1>19, <2>1, SqlReadsBit
<1>21. PICK v : v = Valued(Op("outer") \o Op("AND") \o sql, rows, outer)
  OBVIOUS
<1>22. v = <<b>> \o (<<"AND">> \o e)
  <2>1. Between(a, o, sql) = Op("outer") \o Op("AND") \o sql
    BY <1>4, <1>5 DEF Between
  <2>2. QED  BY <1>7, <1>8, <1>9, <1>10, <1>14, <1>21, <2>1
<1>23. v \in Seq(SqlSign)
  BY <1>13, <1>19, <1>22, ConcatProperties
<1>24. 2 * Len(v) \in Nat
  BY <1>23
<1>25. Value(v) = y
  BY <1>20, <1>22, <1>24 DEF SqlGives, Value
<1>26. QED  BY <1>16, <1>21, <1>25

----------------------------------------------------------------------------
(* What the parser makes of the texts callers write.  A text stands at the  *)
(* end, before a parenthesis, or before AND and OR.                         *)

PlanTail(p) ==
    {s \in Seq(Token) :
        \/ s = <<>>
        \/ Head(s).t = ")"
        \/ Head(s).t \in {"AND", "OR"} /\ PlanPrec(Head(s).t) <= p}

(* A node that is not a key, with a text that says m. *)
Ready(node, m) == node \in Node /\ node.token.t # "key" /\ Says(node.sql, m)

(* The text w becomes a node that says m: wherever it stands; where what is *)
(* around it binds p at most; and after a node, as one more of an operator. *)
Stands(w, m) ==
    /\ w \in Seq(Token)
    /\ \E node : /\ Ready(node, m)
                 /\ \A s \in Seq(Token), least \in 0..21 : \A r :
                        ClimbGives(node, s, least, r) => ExprGives(w \o s, least, r)
Parses(w, p, m) ==
    /\ w \in Seq(Token)
    /\ \E node : /\ Ready(node, m)
                 /\ \A s \in PlanTail(p), least \in 0..p : \A r :
                        ClimbGives(node, s, least, r) => ExprGives(w \o s, least, r)
Joins(op, w, m) ==
    /\ w \in Seq(Token)
    /\ \A left, n :
        Ready(left, n) =>
            \E node : /\ Ready(node, Joined(op, n, m))
                      /\ \A s \in PlanTail(PlanPrec(op)), least \in 0..PlanPrec(op) : \A r :
                            ClimbGives(node, s, least, r) => ClimbGives(left, Op(op) \o (w \o s), least, r)

LEMMA Ops ==
    ASSUME NEW op \in {"(", ")", "NOT", "AND", "OR"} \cup Comparison
    PROVE  \E t \in Token : t = [t |-> op] /\ t.t = op /\ Op(op) = <<t>> /\ Op(op) \in Seq(Token)
<1>1. PICK t : t = [t |-> op]
  OBVIOUS
<1>2. t \in Token
  BY <1>1 DEF Token
<1>3. QED  BY <1>1, <1>2 DEF Op

LEMMA PlanTails ==
    ASSUME NEW p \in 2..4
    PROVE  /\ \A s \in PlanTail(p) : s \in Seq(Token) /\ \A least \in p + 1..21 : ~Follows(s, least)
           /\ \A s \in Seq(Token) : /\ Op(")") \o s \in PlanTail(p)
                                    /\ \A least \in 0..21 : ~Follows(Op(")") \o s, least)
           /\ \A s \in Seq(Token), op \in {"AND", "OR"} : PlanPrec(op) <= p => Op(op) \o s \in PlanTail(p)
<1>1. ASSUME NEW s \in PlanTail(p), NEW least \in p + 1..21
      PROVE  s \in Seq(Token) /\ ~Follows(s, least)
  BY PlanPrecs DEF PlanTail, Follows
<1>2. ASSUME NEW s \in Seq(Token), NEW op \in {")", "AND", "OR"}
      PROVE  Op(op) \o s \in Seq(Token) /\ Head(Op(op) \o s).t = op
  <2>1. PICK t \in Token : t.t = op /\ Op(op) = <<t>>
    BY Ops
  <2>2. QED  BY <2>1, FirstToken
<1>3. p + 1 \in p + 1..21
  OBVIOUS
<1>4. QED  BY <1>1, <1>2, <1>3 DEF PlanTail, Follows
(* What stands on its own may stand anywhere, and after AND or OR what      *)
(* binds more than they do.                                                 *)
LEMMA StandsParses ==
    ASSUME NEW w, NEW m, Stands(w, m), NEW p \in 2..4
    PROVE  Parses(w, p, m)
<1>1. PICK node : /\ Ready(node, m)
                  /\ \A s \in Seq(Token), least \in 0..21 : \A r :
                        ClimbGives(node, s, least, r) => ExprGives(w \o s, least, r)
  BY DEF Stands
<1>2. ASSUME NEW s \in PlanTail(p), NEW least \in 0..p
      PROVE  s \in Seq(Token) /\ least \in 0..21
  BY PlanTails
<1>3. QED  BY <1>1, <1>2 DEF Parses, Stands

LEMMA ParsesLess ==
    ASSUME NEW p \in 2..4, NEW q \in 2..p, NEW w, NEW m, Parses(w, p, m)
    PROVE  Parses(w, q, m)
<1>1. PICK node : /\ Ready(node, m)
                  /\ \A s \in PlanTail(p), least \in 0..p : \A r :
                        ClimbGives(node, s, least, r) => ExprGives(w \o s, least, r)
  BY DEF Parses
<1>2. ASSUME NEW s \in PlanTail(q), NEW least \in 0..q
      PROVE  s \in PlanTail(p) /\ least \in 0..p
  BY PlanPrecs DEF PlanTail
<1>3. QED  BY <1>1, <1>2 DEF Parses

LEMMA ReadyLogical ==
    ASSUME NEW op \in {"AND", "OR"}, NEW t \in Token, t.t = op,
           NEW left, NEW n, Ready(left, n), NEW right, NEW m, Ready(right, m)
    PROVE  Ready([token |-> t, sql |-> visitBinary(left, op, right)], Joined(op, n, m))
<1>1. Says(left.sql, n) /\ Says(right.sql, m)
  BY DEF Ready
<1>2. Says(visitLogical(left.sql, op, right.sql), Joined(op, n, m))
  BY <1>1, SaysLogical
<1>3. visitBinary(left, op, right) = visitLogical(left.sql, op, right.sql)
  BY DEF visitBinary
<1>4. QED  BY <1>2, <1>3 DEF Ready, Node, Says

LEMMA ParsesJoins ==
    ASSUME NEW op \in {"AND", "OR"}, NEW w, NEW m, Parses(w, PlanPrec(op) + 1, m)
    PROVE  Joins(op, w, m)
<1>1. PICK p : p = PlanPrec(op)
  OBVIOUS
<1>2. p \in 2..3 /\ p + 1 \in 2..4 /\ p \in 2..4 /\ p \in Nat
  BY <1>1, PlanPrecs
<1>3. PICK right : /\ Ready(right, m)
                   /\ \A s \in PlanTail(p + 1), least \in 0..p + 1 : \A r :
                         ClimbGives(right, s, least, r) => ExprGives(w \o s, least, r)
  BY <1>1 DEF Parses
<1>4. PICK t \in Token : t.t = op /\ Op(op) = <<t>>
  BY Ops
<1>5. w \in Seq(Token)
  BY DEF Parses
<1>6. ASSUME NEW left, NEW n, Ready(left, n)
      PROVE  \E node : /\ Ready(node, Joined(op, n, m))
                       /\ \A s \in PlanTail(p), least \in 0..p : \A r :
                             ClimbGives(node, s, least, r) => ClimbGives(left, Op(op) \o (w \o s), least, r)
  <2>1. PICK node : node = [token |-> t, sql |-> visitBinary(left, op, right)]
    OBVIOUS
  <2>2. Ready(node, Joined(op, n, m))
    BY <1>3, <1>4, <1>6, <2>1, ReadyLogical
  <2>3. ASSUME NEW s \in PlanTail(p), NEW least \in 0..p, NEW r, ClimbGives(node, s, least, r)
        PROVE  ClimbGives(left, Op(op) \o (w \o s), least, r)
    <3>1. /\ s \in Seq(Token) /\ ~Follows(s, p + 1) /\ s \in PlanTail(p + 1)
          /\ p + 1 \in 0..21 /\ least \in 0..21 /\ least <= PlanPrec(t.t) /\ p + 1 \in 0..p + 1
      <4>1. p + 1 \in p + 1..21 /\ p + 1 \in 0..21 /\ least \in 0..21 /\ least <= p /\ p + 1 \in 0..p + 1
        BY <1>2
      <4>2. s \in Seq(Token) /\ ~Follows(s, p + 1)
        BY <1>2, <4>1, PlanTails
      <4>3. s \in PlanTail(p + 1)
        BY <1>2, PlanPrecs DEF PlanTail
      <4>4. QED  BY <1>1, <1>4, <4>1, <4>2, <4>3
    <3>2. PICK u : u = w \o s
      OBVIOUS
    <3>3. u \in Seq(Token) /\ Len(s) <= Len(u)
      BY <1>5, <3>1, <3>2, Longer
    <3>4. right \in Node /\ left \in Node
      BY <1>3, <1>6 DEF Ready
    <3>5. ClimbGives(right, s, p + 1, [node |-> right, rest |-> s])
      BY <3>1, <3>4, ReadsNoMore
    <3>6. ExprGives(u, PlanPrec(t.t) + 1, [node |-> right, rest |-> s])
      BY <1>1, <1>3, <1>4, <3>1, <3>2, <3>5
    <3>7. ClimbGives([token |-> t, sql |-> visitBinary(left, t.t, right)], s, least, r)
      BY <1>4, <2>1, <2>3
    <3>8. ClimbGives(left, <<t>> \o u, least, r)
      BY <1>4, <3>1, <3>3, <3>4, <3>6, <3>7, ReadsOperator
    <3>9. QED  BY <1>4, <3>2, <3>8
  <2>4. QED  BY <2>2, <2>3
<1>7. QED  BY <1>1, <1>5, <1>6 DEF Joins

LEMMA ThreeTokens == \A a, b, c \in Seq(Token) : Three(a, b, c)
BY ThreeTexts

LEMMA BinaryText ==
    ASSUME NEW op \in {"AND", "OR"}, NEW p \in 2..4, PlanPrec(op) <= p,
           NEW a \in Seq(Token), NEW b \in Seq(Token)
    PROVE  /\ Between(a, Op(op), b) \in Seq(Token)
           /\ \A s \in PlanTail(p) : /\ Between(a, Op(op), b) \o s = a \o (Op(op) \o (b \o s))
                                    /\ Op(op) \o (b \o s) \in PlanTail(p)
<1>1. PICK o : o = Op(op)
  OBVIOUS
<1>2. o \in Seq(Token)
  BY <1>1, Ops
<1>3. ASSUME NEW s \in PlanTail(p)
      PROVE  /\ Between(a, Op(op), b) \o s = a \o (Op(op) \o (b \o s))
             /\ Op(op) \o (b \o s) \in PlanTail(p)
  <2>1. s \in Seq(Token)
    BY PlanTails
  <2>2. PICK u : u = a \o o
    OBVIOUS
  <2>3. u \in Seq(Token)
    BY <1>2, <2>2, ConcatProperties
  <2>4. PICK v : v = b \o s
    OBVIOUS
  <2>5. v \in Seq(Token)
    BY <2>1, <2>4, ConcatProperties
  <2>6. Three(u, b, s)
    BY <2>1, <2>3, ThreeTokens
  <2>7. Three(a, o, v)
    <3>1. a \in Seq(Token) /\ o \in Seq(Token) /\ v \in Seq(Token)
      BY <1>2, <2>5
    <3>2. QED  BY <3>1, ThreeTokens
  <2>8. Op(op) \o v \in PlanTail(p)
    BY <2>5, PlanTails
  <2>9. QED  BY <1>1, <2>2, <2>4, <2>6, <2>7, <2>8 DEF Between, Three
<1>4. Between(a, Op(op), b) \in Seq(Token)
  <2>1. a \o o \in Seq(Token)
    BY <1>2, ConcatProperties
  <2>2. (a \o o) \o b \in Seq(Token)
    BY <2>1, ConcatProperties
  <2>3. QED  BY <1>1, <2>2 DEF Between
<1>5. QED  BY <1>3, <1>4

LEMMA LongerJoins ==
    ASSUME NEW op \in {"AND", "OR"}, NEW a, NEW m, Joins(op, a, m), NEW b, NEW n, Joins(op, b, n)
    PROVE  Joins(op, Between(a, Op(op), b), Joined(op, m, n))
<1>1. PICK p : p = PlanPrec(op)
  OBVIOUS
<1>2. p \in 2..4 /\ PlanPrec(op) <= p
  BY <1>1, PlanPrecs
<1>3. a \in Seq(Token) /\ b \in Seq(Token)
  BY DEF Joins
<1>4. PICK w : w = Between(a, Op(op), b)
  OBVIOUS
<1>5. \A s \in PlanTail(p) : /\ w \o s = a \o (Op(op) \o (b \o s))
                               /\ Op(op) \o (b \o s) \in PlanTail(p)
  <2>1. \A s \in PlanTail(p) : /\ Between(a, Op(op), b) \o s = a \o (Op(op) \o (b \o s))
                                /\ Op(op) \o (b \o s) \in PlanTail(p)
    BY <1>2, <1>3, BinaryText, ZenonT(40)
  <2>2. QED  BY <1>4, <2>1
<1>6. w \in Seq(Token)
  BY <1>2, <1>3, <1>4, BinaryText
<1>7. ASSUME NEW left, NEW k, Ready(left, k)
      PROVE  \E node : /\ Ready(node, Joined(op, k, Joined(op, m, n)))
                       /\ \A s \in PlanTail(p), least \in 0..p : \A r :
                             ClimbGives(node, s, least, r) => ClimbGives(left, Op(op) \o (w \o s), least, r)
  <2>1. PICK first : /\ Ready(first, Joined(op, k, m))
                     /\ \A s \in PlanTail(p), least \in 0..p : \A r :
                          ClimbGives(first, s, least, r) => ClimbGives(left, Op(op) \o (a \o s), least, r)
    BY <1>1, <1>7 DEF Joins
  <2>2. PICK node : /\ Ready(node, Joined(op, Joined(op, k, m), n))
                    /\ \A s \in PlanTail(p), least \in 0..p : \A r :
                          ClimbGives(node, s, least, r) => ClimbGives(first, Op(op) \o (b \o s), least, r)
    BY <1>1, <2>1 DEF Joins
  <2>3. Joined(op, Joined(op, k, m), n) = Joined(op, k, Joined(op, m, n))
    BY DEF Joined
  <2>4. ASSUME NEW s \in PlanTail(p), NEW least \in 0..p, NEW r, ClimbGives(node, s, least, r)
        PROVE  ClimbGives(left, Op(op) \o (w \o s), least, r)
    <3>1. ClimbGives(first, Op(op) \o (b \o s), least, r)
      BY <2>2, <2>4
    <3>2. PICK u : u = Op(op) \o (b \o s)
      OBVIOUS
    <3>3. ClimbGives(left, Op(op) \o (a \o u), least, r)
      BY <1>5, <2>1, <3>1, <3>2
    <3>4. w \o s = a \o u
      BY <1>5, <3>2
    <3>5. QED  BY <3>3, <3>4
  <2>5. QED  BY <2>2, <2>3, <2>4
<1>8. QED  BY <1>1, <1>4, <1>6, <1>7 DEF Joins

LEMMA BothParse ==
    ASSUME NEW op \in {"AND", "OR"}, NEW a, NEW m, Parses(a, PlanPrec(op), m), NEW b, NEW n, Joins(op, b, n)
    PROVE  Parses(Between(a, Op(op), b), PlanPrec(op), Joined(op, m, n))
<1>1. PICK p : p = PlanPrec(op)
  OBVIOUS
<1>2. p \in 2..4 /\ PlanPrec(op) <= p
  BY <1>1, PlanPrecs
<1>3. a \in Seq(Token) /\ b \in Seq(Token)
  BY DEF Joins, Parses
<1>4. PICK w : w = Between(a, Op(op), b)
  OBVIOUS
<1>5. \A s \in PlanTail(p) : /\ w \o s = a \o (Op(op) \o (b \o s))
                               /\ Op(op) \o (b \o s) \in PlanTail(p)
  <2>1. \A s \in PlanTail(p) : /\ Between(a, Op(op), b) \o s = a \o (Op(op) \o (b \o s))
                                /\ Op(op) \o (b \o s) \in PlanTail(p)
    BY <1>2, <1>3, BinaryText, ZenonT(40)
  <2>2. QED  BY <1>4, <2>1
<1>6. w \in Seq(Token)
  BY <1>2, <1>3, <1>4, BinaryText
<1>7. PICK left : /\ Ready(left, m)
                  /\ \A s \in PlanTail(p), least \in 0..p : \A r :
                        ClimbGives(left, s, least, r) => ExprGives(a \o s, least, r)
  BY <1>1 DEF Parses
<1>8. PICK node : /\ Ready(node, Joined(op, m, n))
                  /\ \A s \in PlanTail(p), least \in 0..p : \A r :
                        ClimbGives(node, s, least, r) => ClimbGives(left, Op(op) \o (b \o s), least, r)
  BY <1>1, <1>7 DEF Joins
<1>9. ASSUME NEW s \in PlanTail(p), NEW least \in 0..p, NEW r, ClimbGives(node, s, least, r)
      PROVE  ExprGives(w \o s, least, r)
  <2>1. PICK u : u = Op(op) \o (b \o s)
    OBVIOUS
  <2>2. ClimbGives(left, u, least, r)
    BY <1>8, <1>9, <2>1
  <2>3. ExprGives(a \o u, least, r)
    BY <1>5, <1>7, <2>1, <2>2
  <2>4. QED  BY <1>5, <2>1, <2>3
<1>10. QED  BY <1>1, <1>4, <1>6, <1>8, <1>9 DEF Parses
(* Parentheses. *)
LEMMA ParensText ==
    ASSUME NEW w \in Seq(Token)
    PROVE  /\ Parens(w) \in Seq(Token)
           /\ \A s \in Seq(Token) : Parens(w) \o s = Op("(") \o (w \o (Op(")") \o s))
<1>1. PICK a : a = Op("(")
  OBVIOUS
<1>2. PICK c : c = Op(")")
  OBVIOUS
<1>3. a \in Seq(Token) /\ c \in Seq(Token)
  BY <1>1, <1>2, Ops
<1>4. PICK u : u = a \o w
  OBVIOUS
<1>5. u \in Seq(Token)
  BY <1>3, <1>4, ConcatProperties
<1>6. Parens(w) = u \o c
  BY <1>1, <1>2, <1>4 DEF Parens
<1>7. u \o c \in Seq(Token)
  BY <1>3, <1>5, ConcatProperties
<1>8. ASSUME NEW s \in Seq(Token)
      PROVE  (u \o c) \o s = a \o (w \o (c \o s))
  <2>1. PICK v : v = c \o s
    OBVIOUS
  <2>2. v \in Seq(Token)
    BY <1>3, <2>1, ConcatProperties
  <2>3. Three(u, c, s)
    BY <1>3, <1>5, ThreeTokens
  <2>4. Three(a, w, v)
    BY <1>3, <2>2, ThreeTokens
  <2>5. QED  BY <1>4, <2>1, <2>3, <2>4 DEF Three
<1>9. QED  BY <1>1, <1>2, <1>6, <1>7, <1>8

LEMMA ParensStand ==
    ASSUME NEW w, NEW m, Parses(w, 2, m)
    PROVE  Stands(Parens(w), m)
<1>1. PICK inner : /\ Ready(inner, m)
                   /\ \A s \in PlanTail(2), least \in 0..2 : \A r :
                         ClimbGives(inner, s, least, r) => ExprGives(w \o s, least, r)
  BY DEF Parses
<1>2. w \in Seq(Token)
  BY DEF Parses
<1>3. PICK t \in Token : t.t = "(" /\ Op("(") = <<t>>
  BY Ops
<1>4. PICK close \in Token : close.t = ")" /\ Op(")") = <<close>>
  BY Ops
<1>5. PICK node : node = [token |-> t, sql |-> visitParens(inner.sql)]
  OBVIOUS
<1>6. Ready(node, m)
  <2>1. Says(inner.sql, m)
    BY <1>1 DEF Ready
  <2>2. Says(visitParens(inner.sql), m)
    BY <2>1, SaysParens
  <2>3. QED  BY <1>3, <1>5, <2>2 DEF Ready, Node, Says
<1>7. ASSUME NEW s \in Seq(Token), NEW least \in 0..21, NEW r, ClimbGives(node, s, least, r)
      PROVE  ExprGives(Parens(w) \o s, least, r)
  <2>1. PICK u : u = Op(")") \o s
    OBVIOUS
  <2>2. 2 \in 2..4 /\ 0 \in 0..21 /\ 0 \in 0..2
    OBVIOUS
  <2>3. u \in PlanTail(2) /\ ~Follows(u, 0)
    BY <2>1, <2>2, PlanTails
  <2>4. u \in Seq(Token) /\ Len(u) = 1 + Len(s)
    BY <1>4, <2>1, FirstToken, SMTT(30)
  <2>5. ClimbGives(inner, u, 0, [node |-> inner, rest |-> u])
    <3>1. inner \in Node
      BY <1>1 DEF Ready
    <3>2. QED  BY <2>2, <2>3, <2>4, <3>1, ReadsNoMore
  <2>6. ExprGives(w \o u, 0, [node |-> inner, rest |-> u])
    BY <1>1, <2>2, <2>3, <2>5
  <2>7. PICK v : v = w \o u
    OBVIOUS
  <2>8. v \in Seq(Token) /\ Len(s) <= Len(v)
    <3>1. v \in Seq(Token) /\ Len(u) <= Len(v)
      BY <1>2, <2>4, <2>7, Longer
    <3>2. Len(s) \in Nat /\ Len(v) \in Nat
      BY <3>1
    <3>3. QED  BY <2>4, <3>1, <3>2
  <2>9. ExprGives(v, 0, [node |-> inner, rest |-> <<close>> \o s])
    BY <1>4, <2>1, <2>6, <2>7
  <2>10. ClimbGives([token |-> t, sql |-> visitParens(inner.sql)], s, least, r)
    BY <1>5, <1>7
  <2>11. ExprGives(<<t>> \o v, least, r)
    BY <1>3, <2>8, <2>9, <2>10, ReadsParens
  <2>12. Parens(w) \o s = <<t>> \o v
    <3>1. Parens(w) \o s = Op("(") \o (w \o (Op(")") \o s))
      BY <1>2, ParensText
    <3>2. QED  BY <1>3, <2>1, <2>7, <3>1
  <2>13. QED  BY <2>11, <2>12
<1>8. QED  BY <1>2, <1>6, <1>7, ParensText DEF Stands

(* One EXISTS. *)
LEMMA TwoTokens ==
    ASSUME NEW a \in Token, NEW b \in Token
    PROVE  <<a, b>> \in Seq(Token) /\ <<a, b>> = <<a>> \o <<b>>
<1>1. <<a, b>> \in Seq(Token) /\ Len(<<a, b>>) = 2 /\ <<a, b>>[1] = a /\ <<a, b>>[2] = b
  OBVIOUS
<1>2. <<a>> \in Seq(Token) /\ <<b>> \in Seq(Token) /\ Len(<<a>>) = 1 /\ Len(<<b>>) = 1
  OBVIOUS
<1>3. PICK u : u = <<a>> \o <<b>>
  OBVIOUS
<1>4. /\ u \in Seq(Token) /\ Len(u) = 2
      /\ \A i \in 1..2 : u[i] = IF i <= 1 THEN <<a>>[i] ELSE <<b>>[i - 1]
  BY <1>2, <1>3, ConcatProperties
<1>5. u[1] = a /\ u[2] = b
  BY <1>4
<1>6. PICK v : v = <<a, b>>
  OBVIOUS
<1>7. v \in Seq(Token) /\ Len(v) = 2 /\ v[1] = a /\ v[2] = b
  BY <1>1, <1>6
<1>8. \A i \in 1..Len(u) : u[i] = v[i]
  BY <1>4, <1>5, <1>7
<1>9. u = v
  BY <1>4, <1>7, <1>8, SeqEqual
<1>10. QED  BY <1>1, <1>3, <1>6, <1>9

LEMMA PairText ==
    ASSUME NEW a \in Token, NEW b \in Token, NEW s \in Seq(Token)
    PROVE  <<a, b>> \o s = <<a>> \o (<<b>> \o s)
<1>1. PICK x : x = <<a>>
  OBVIOUS
<1>2. PICK y : y = <<b>>
  OBVIOUS
<1>3. x \in Seq(Token) /\ y \in Seq(Token)
  BY <1>1, <1>2
<1>4. Three(x, y, s)
  BY <1>3, ThreeTokens
<1>5. <<a, b>> = x \o y
  BY <1>1, <1>2, TwoTokens
<1>6. QED  BY <1>1, <1>2, <1>4, <1>5 DEF Three

LEMMA TripleText ==
    ASSUME NEW a \in Token, NEW b \in Token, NEW c \in Token, NEW s \in Seq(Token)
    PROVE  <<a, b, c>> \o s = <<a>> \o (<<b>> \o (<<c>> \o s))
<1>1. PICK v : v = <<c>> \o s
  OBVIOUS
<1>2. v \in Seq(Token)
  BY <1>1, FirstToken
<1>3. <<a, b>> \o v = <<a>> \o (<<b>> \o v)
  BY <1>2, PairText
<1>4. PICK x : x = <<a, b>>
  OBVIOUS
<1>5. PICK z : z = <<c>>
  OBVIOUS
<1>6. x \in Seq(Token) /\ z \in Seq(Token)
  BY <1>4, <1>5, TwoTokens
<1>7. Three(x, z, s)
  BY <1>6, ThreeTokens
<1>8. <<a, b, c>> = <<a, b>> \o <<c>>
  OBVIOUS
<1>9. <<a, b, c>> = x \o z
  BY <1>4, <1>5, <1>8
<1>10. QED  BY <1>1, <1>3, <1>4, <1>5, <1>7, <1>9 DEF Three
(* A key with what it is compared with.  NOT may stand before "==" and "!=" *)
(* of one, since these bind more than NOT does.                             *)
LEMMA ReadsComparison ==
    ASSUME NEW key \in Keys, NEW cmp \in Comparison, NEW num \in Number, NEW w,
           w = <<[t |-> "key", key |-> key], [t |-> cmp], [t |-> "num", num |-> num]>>
    PROVE  /\ w \in Seq(Token)
           /\ \E node : /\ Ready(node, Having(key, Passing(cmp, num)))
                        /\ \A s \in PlanTail(4), least \in 0..PlanPrec(cmp) : \A r :
                              ClimbGives(node, s, least, r) => ExprGives(w \o s, least, r)
<1>1. PICK a : a = [t |-> "key", key |-> key]
  OBVIOUS
<1>2. PICK b : b = [t |-> cmp]
  OBVIOUS
<1>3. PICK c : c = [t |-> "num", num |-> num]
  OBVIOUS
<1>4. a \in Token /\ b \in Token /\ c \in Token
  BY <1>1, <1>2, <1>3 DEF Token
<1>5. a.t = "key" /\ a.key = key /\ b.t = cmp /\ c.t = "num" /\ c.num = num /\ w = <<a, b, c>>
  BY <1>1, <1>2, <1>3
<1>6. w \in Seq(Token)
  <2>1. <<a, b, c>> \in Seq(Token)
    BY <1>4
  <2>2. QED  BY <1>5, <2>1
<1>7. PICK p : p = PlanPrec(cmp)
  OBVIOUS
<1>8. p \in 7..20 /\ p \in 0..21 /\ p + 1 \in 5..21 /\ p + 1 \in 0..21
  BY <1>7, PlanPrecs DEF Comparison
<1>9. PICK left : left = [token |-> a, sql |-> <<>>]
  OBVIOUS
<1>10. PICK right : right = [token |-> c, sql |-> <<>>]
  OBVIOUS
<1>11. left \in Node /\ right \in Node /\ left.token = a /\ right.token = c
  BY <1>4, <1>9, <1>10 DEF Node
<1>12. PICK node : node = [token |-> b, sql |-> visitBinary(left, cmp, right)]
  OBVIOUS
<1>13. Ready(node, Having(key, Passing(cmp, num)))
  <2>1. visitBinary(left, cmp, right) = handleKeyValueCondition(key, [op |-> SqlOp[cmp], num |-> num])
    <3>1. cmp \notin {"AND", "OR"}
      BY DEF Comparison
    <3>2. visitBinary(left, cmp, right) = visitComparison(left, cmp, right)
      BY <3>1 DEF visitBinary
    <3>3. QED  BY <1>5, <1>11, <3>2 DEF visitComparison
  <2>2. Says(visitBinary(left, cmp, right), Having(key, Passing(cmp, num)))
    BY <2>1, SaysComparison
  <2>3. b.t # "key"
    BY <1>5 DEF Comparison
  <2>4. QED  BY <1>4, <1>12, <2>2, <2>3 DEF Ready, Node, Says
<1>14. ASSUME NEW s \in PlanTail(4), NEW least \in 0..p, NEW r, ClimbGives(node, s, least, r)
       PROVE  ExprGives(w \o s, least, r)
  <2>1. s \in Seq(Token) /\ ~Follows(s, p + 1)
    <3>1. p + 1 \in 4 + 1..21 /\ 4 \in 2..4
      BY <1>8
    <3>2. QED  BY <3>1, PlanTails
  <2>2. least \in 0..21 /\ least <= PlanPrec(b.t)
    BY <1>5, <1>7, <1>8
  <2>3. ClimbGives(right, s, p + 1, [node |-> right, rest |-> s])
    BY <1>8, <1>11, <2>1, ReadsNoMore
  <2>4. PICK u : u = <<c>> \o s
    OBVIOUS
  <2>5. ExprGives(u, p + 1, [node |-> right, rest |-> s])
    <3>1. c.t \notin {"(", "NOT"}
      BY <1>5
    <3>2. QED  BY <1>4, <1>8, <1>10, <2>1, <2>3, <2>4, <3>1, ReadsToken
  <2>6. u \in Seq(Token) /\ Len(s) <= Len(u)
    <3>1. u \in Seq(Token) /\ Len(u) = 1 + Len(s) /\ Len(s) \in Nat
      BY <1>4, <2>1, <2>4, FirstToken
    <3>2. QED  BY <3>1
  <2>7. ClimbGives(left, <<b>> \o u, least, r)
    <3>1. b.t \in {"AND", "OR"} \cup Comparison
      BY <1>5
    <3>2. ExprGives(u, PlanPrec(b.t) + 1, [node |-> right, rest |-> s])
      BY <1>5, <1>7, <2>5
    <3>3. ClimbGives([token |-> b, sql |-> visitBinary(left, b.t, right)], s, least, r)
      BY <1>5, <1>12, <1>14
    <3>4. QED  BY <1>4, <1>11, <2>1, <2>2, <2>6, <3>1, <3>2, <3>3, ReadsOperator
  <2>8. PICK v : v = <<b>> \o u
    OBVIOUS
  <2>9. v \in Seq(Token)
    BY <1>4, <2>6, <2>8, FirstToken
  <2>10. ExprGives(<<a>> \o v, least, r)
    <3>1. a.t \notin {"(", "NOT"}
      BY <1>5
    <3>2. ClimbGives([token |-> a, sql |-> <<>>], v, least, r)
      BY <1>9, <2>7, <2>8
    <3>3. QED  BY <1>4, <2>2, <2>9, <3>1, <3>2, ReadsToken
  <2>11. w \o s = <<a>> \o v
    <3>1. <<a, b, c>> \o s = <<a>> \o (<<b>> \o (<<c>> \o s))
      BY <1>4, <2>1, TripleText
    <3>2. QED  BY <1>5, <2>4, <2>8, <3>1
  <2>12. QED  BY <2>10, <2>11
<1>15. QED  BY <1>6, <1>7, <1>13, <1>14

LEMMA InParses ==
    ASSUME NEW key \in Keys, NEW list \in SUBSET Number, NEW w,
           w = <<[t |-> "key", key |-> key], [t |-> "IN", list |-> list]>>
    PROVE  Parses(w, 4, Having(key, list))
<1>1. PICK a : a = [t |-> "key", key |-> key]
  OBVIOUS
<1>2. PICK b : b = [t |-> "IN", list |-> list]
  OBVIOUS
<1>3. a \in Token /\ b \in Token
  BY <1>1, <1>2 DEF Token
<1>4. a.t = "key" /\ a.key = key /\ b.t = "IN" /\ b.list = list /\ w = <<a, b>>
  BY <1>1, <1>2
<1>5. w \in Seq(Token)
  <2>1. <<a, b>> \in Seq(Token)
    BY <1>3
  <2>2. QED  BY <1>4, <2>1
<1>6. PICK left : left = [token |-> a, sql |-> <<>>]
  OBVIOUS
<1>7. left \in Node /\ left.token = a
  BY <1>3, <1>6 DEF Node
<1>8. PICK node : node = [token |-> b, sql |-> visitTerm(left, list)]
  OBVIOUS
<1>9. Ready(node, Having(key, list))
  <2>1. visitTerm(left, list) = handleKeyValueCondition(key, [op |-> "IN", list |-> list])
    BY <1>4, <1>7 DEF visitTerm
  <2>2. Says(visitTerm(left, list), Having(key, list))
    BY <2>1, SaysIn
  <2>3. QED  BY <1>3, <1>4, <1>8, <2>2 DEF Ready, Node, Says
<1>10. ASSUME NEW s \in PlanTail(4), NEW least \in 0..4, NEW r, ClimbGives(node, s, least, r)
       PROVE  ExprGives(w \o s, least, r)
  <2>1. s \in Seq(Token) /\ least \in 0..15 /\ least \in 0..21
    <3>1. 4 \in 2..4
      OBVIOUS
    <3>2. QED  BY <3>1, PlanTails, SMTT(30)
  <2>2. ClimbGives([token |-> b, sql |-> visitTerm(left, b.list)], s, least, r)
    BY <1>4, <1>8, <1>10
  <2>3. ClimbGives(left, <<b>> \o s, least, r)
    BY <1>3, <1>4, <1>7, <2>1, <2>2, ReadsIn
  <2>4. PICK v : v = <<b>> \o s
    OBVIOUS
  <2>5. v \in Seq(Token)
    BY <1>3, <2>1, <2>4, FirstToken
  <2>6. ExprGives(<<a>> \o v, least, r)
    <3>1. a.t \notin {"(", "NOT"}
      BY <1>4
    <3>2. ClimbGives([token |-> a, sql |-> <<>>], v, least, r)
      BY <1>6, <2>3, <2>4
    <3>3. QED  BY <1>3, <2>1, <2>5, <3>1, <3>2, ReadsToken
  <2>7. w \o s = <<a>> \o v
    <3>1. <<a, b>> \o s = <<a>> \o (<<b>> \o s)
      BY <1>3, <2>1, PairText
    <3>2. QED  BY <1>4, <2>4, <3>1
  <2>8. QED  BY <2>6, <2>7
<1>11. QED  BY <1>5, <1>9, <1>10 DEF Parses

LEMMA NotParses ==
    ASSUME NEW w \in Seq(Token), NEW inner, NEW m, Ready(inner, m),
           \A s \in PlanTail(4) : \A r : ClimbGives(inner, s, 19, r) => ExprGives(w \o s, 19, r)
    PROVE  Parses(Op("NOT") \o w, 4, Metadata \ m)
<1>1. PICK t \in Token : t.t = "NOT" /\ Op("NOT") = <<t>>
  BY Ops
<1>2. <<t>> \o w \in Seq(Token)
  BY FirstToken
<1>3. PICK node : node = [token |-> t, sql |-> visitUnary(inner.sql)]
  OBVIOUS
<1>4. Ready(node, Metadata \ m)
  <2>1. Says(inner.sql, m)
    BY DEF Ready
  <2>2. Says(visitUnary(inner.sql), Metadata \ m)
    BY <2>1, SaysNot
  <2>3. QED  BY <1>1, <1>3, <2>2 DEF Ready, Node, Says
<1>5. ASSUME NEW s \in PlanTail(4), NEW least \in 0..4, NEW r, ClimbGives(node, s, least, r)
      PROVE  ExprGives((<<t>> \o w) \o s, least, r)
  <2>1. 4 \in 2..4 /\ 19 \in 4 + 1..21 /\ 19 \in 0..21 /\ least \in 0..21
    OBVIOUS
  <2>2. s \in Seq(Token) /\ ~Follows(s, 19)
    BY <2>1, PlanTails
  <2>3. inner \in Node
    BY DEF Ready
  <2>4. ClimbGives(inner, s, 19, [node |-> inner, rest |-> s])
    BY <2>1, <2>2, <2>3, ReadsNoMore
  <2>5. PICK u : u = w \o s
    OBVIOUS
  <2>6. ExprGives(u, 19, [node |-> inner, rest |-> s])
    BY <2>4, <2>5
  <2>7. u \in Seq(Token) /\ Len(s) <= Len(u)
    BY <2>2, <2>5, Longer
  <2>8. ClimbGives([token |-> t, sql |-> visitUnary(inner.sql)], s, least, r)
    BY <1>3, <1>5
  <2>9. ExprGives(<<t>> \o u, least, r)
    BY <1>1, <2>1, <2>2, <2>6, <2>7, <2>8, ReadsNot
  <2>10. (<<t>> \o w) \o s = <<t>> \o (w \o s)
    <3>1. PICK x : x = <<t>>
      OBVIOUS
    <3>2. x \in Seq(Token)
      BY <3>1
    <3>3. Three(x, w, s)
      BY <2>2, <3>2, ThreeTokens
    <3>4. QED  BY <3>1, <3>3 DEF Three
  <2>11. QED  BY <2>5, <2>9, <2>10
<1>6. Parses(<<t>> \o w, 4, Metadata \ m)
  BY <1>2, <1>4, <1>5 DEF Parses
<1>7. QED  BY <1>1, <1>6
(* "==" between two texts with parentheses. *)
LEMMA EqualParses ==
    ASSUME NEW a, NEW m, Stands(a, m), NEW b, NEW n, Stands(b, n)
    PROVE  Parses(Between(a, Op("=="), b), 4, Agreeing(m, n))
<1>1. PICK left : /\ Ready(left, m)
                  /\ \A s \in Seq(Token), least \in 0..21 : \A r :
                        ClimbGives(left, s, least, r) => ExprGives(a \o s, least, r)
  BY DEF Stands
<1>2. PICK right : /\ Ready(right, n)
                   /\ \A s \in Seq(Token), least \in 0..21 : \A r :
                         ClimbGives(right, s, least, r) => ExprGives(b \o s, least, r)
  BY DEF Stands
<1>3. a \in Seq(Token) /\ b \in Seq(Token) /\ left \in Node /\ right \in Node
  BY <1>1, <1>2 DEF Stands, Ready
<1>4. PICK t \in Token : t.t = "==" /\ Op("==") = <<t>>
  BY Ops DEF Comparison
<1>5. PICK node : node = [token |-> t, sql |-> visitBinary(left, "==", right)]
  OBVIOUS
<1>6. Ready(node, Agreeing(m, n))
  <2>1. Says(left.sql, m) /\ Says(right.sql, n) /\ left.token.t # "key"
    BY <1>1, <1>2 DEF Ready
  <2>2. Says(left.sql \o Op("=") \o right.sql, Agreeing(m, n))
    BY <2>1, SaysEqual
  <2>3. visitBinary(left, "==", right) = visitComparison(left, "==", right)
    BY DEF visitBinary
  <2>4. visitComparison(left, "==", right) = left.sql \o Op("=") \o right.sql
    BY <2>1, SqlOps DEF visitComparison
  <2>5. Says(visitBinary(left, "==", right), Agreeing(m, n))
    BY <2>2, <2>3, <2>4
  <2>6. QED  BY <1>4, <1>5, <2>5 DEF Ready, Node, Says
<1>7. PICK o : o = <<t>>
  OBVIOUS
<1>8. o \in Seq(Token)
  BY <1>4, <1>7
<1>9. PICK ao : ao = a \o o
  OBVIOUS
<1>10. ao \in Seq(Token)
  BY <1>3, <1>8, <1>9, ConcatProperties
<1>11. Between(a, Op("=="), b) = ao \o b
  BY <1>4, <1>7, <1>9 DEF Between
<1>12. ao \o b \in Seq(Token)
  BY <1>3, <1>10, ConcatProperties
<1>13. ASSUME NEW s \in PlanTail(4), NEW least \in 0..4, NEW r, ClimbGives(node, s, least, r)
       PROVE  ExprGives((ao \o b) \o s, least, r)
  <2>1. 4 \in 2..4 /\ 21 \in 4 + 1..21 /\ 21 \in 0..21 /\ least \in 0..21
    OBVIOUS
  <2>2. s \in Seq(Token) /\ ~Follows(s, 21)
    BY <2>1, PlanTails
  <2>3. ClimbGives(right, s, 21, [node |-> right, rest |-> s])
    BY <1>3, <2>1, <2>2, ReadsNoMore
  <2>4. PICK u : u = b \o s
    OBVIOUS
  <2>5. ExprGives(u, 21, [node |-> right, rest |-> s])
    BY <1>2, <2>1, <2>2, <2>3, <2>4
  <2>6. u \in Seq(Token) /\ Len(s) <= Len(u)
    BY <1>3, <2>2, <2>4, Longer
  <2>7. ClimbGives(left, <<t>> \o u, least, r)
    <3>1. t.t \in {"AND", "OR"} \cup Comparison
      BY <1>4 DEF Comparison
    <3>2. PlanPrec(t.t) + 1 = 21 /\ least <= PlanPrec(t.t)
      BY <1>4, PlanPrecs
    <3>3. ExprGives(u, PlanPrec(t.t) + 1, [node |-> right, rest |-> s])
      BY <2>5, <3>2
    <3>4. ClimbGives([token |-> t, sql |-> visitBinary(left, t.t, right)], s, least, r)
      BY <1>4, <1>5, <1>13
    <3>5. QED  BY <1>3, <2>1, <2>2, <2>6, <3>1, <3>2, <3>3, <3>4, ReadsOperator
  <2>8. PICK v : v = o \o u
    OBVIOUS
  <2>9. v \in Seq(Token)
    BY <1>8, <2>6, <2>8, ConcatProperties
  <2>10. ExprGives(a \o v, least, r)
    BY <1>1, <1>7, <2>1, <2>7, <2>8, <2>9
  <2>11. Three(ao, b, s)
    BY <1>3, <1>10, <2>2, ThreeTokens
  <2>12. Three(a, o, u)
    BY <1>3, <1>8, <2>6, ThreeTokens
  <2>13. QED  BY <1>9, <2>4, <2>8, <2>10, <2>11, <2>12 DEF Three
<1>14. Parses(ao \o b, 4, Agreeing(m, n))
  BY <1>6, <1>12, <1>13 DEF Parses
<1>15. QED  BY <1>11, <1>14

(* So every formula, as callers write it, becomes a text that says what     *)
(* they mean: by induction over the formulas.                               *)
Right(f) ==
    LET level == CASE Formulas[f].op = "OR" -> 2 [] Formulas[f].op = "AND" -> 3 [] OTHER -> 4
    IN  /\ Parses(Written[f], level, Means[f])
        /\ Joins("OR", Written[f], Means[f])
        /\ Formulas[f].op # "OR" => Joins("AND", Written[f], Means[f])

LEMMA ParsesRight ==
    ASSUME NEW f, Formulas[f].op \notin {"AND", "OR"}, Parses(Written[f], 4, Means[f])
    PROVE  Right(f)
<1>1. PlanPrec("OR") + 1 \in 2..4 /\ PlanPrec("AND") + 1 = 4
  BY PlanPrecs
<1>2. Joins("AND", Written[f], Means[f])
  BY <1>1, ParsesJoins
<1>3. Parses(Written[f], PlanPrec("OR") + 1, Means[f])
  <2>1. 4 \in 2..4
    OBVIOUS
  <2>2. QED  BY <1>1, <2>1, ParsesLess
<1>4. Joins("OR", Written[f], Means[f])
  BY <1>3, ParsesJoins
<1>5. QED  BY <1>2, <1>4 DEF Right

LEMMA ClosedStands ==
    ASSUME NEW f, Right(f)
    PROVE  Stands(Parens(Written[f]), Means[f])
<1>1. PICK level \in 2..4 : Parses(Written[f], level, Means[f])
  <2>1. 2 \in 2..4 /\ 3 \in 2..4 /\ 4 \in 2..4
    OBVIOUS
  <2>2. QED  BY <2>1 DEF Right
<1>2. 2 \in 2..level
  OBVIOUS
<1>3. Parses(Written[f], 2, Means[f])
  BY <1>1, <1>2, ParsesLess
<1>4. QED  BY <1>3, ParensStand
LEMMA RightNot ==
    ASSUME NEW f \in DOMAIN Formulas, Formulas[f].op = "NOT", Right(Formulas[f].of)
    PROVE  Right(f)
<1>1. PICK g : g = Formulas[f].of
  OBVIOUS
<1>2. g \in DOMAIN Formulas
  BY <1>1, PartsBefore
<1>3. Means[f] = Metadata \ Means[g]
  BY <1>1, MeansUnfolds DEF MeansStep
<1>4. PICK w : w = IF Formulas[g].op = "key" /\ Formulas[g].cmp # ">" THEN Written[g] ELSE Parens(Written[g])
  OBVIOUS
<1>5. Written[f] = Op("NOT") \o w
  BY <1>1, <1>4, WrittenUnfolds DEF WrittenStep
<1>6. Parses(Op("NOT") \o w, 4, Metadata \ Means[g])
  <2>1. CASE Formulas[g].op = "key" /\ Formulas[g].cmp # ">"
    <3>1. PICK key \in Keys, cmp \in Comparison, num \in Number :
             Formulas[g].key = key /\ Formulas[g].cmp = cmp /\ Formulas[g].num = num
      BY <1>2, <2>1, PartsBefore
    <3>2. w = <<[t |-> "key", key |-> key], [t |-> cmp], [t |-> "num", num |-> num]>>
      BY <1>2, <1>4, <2>1, <3>1, WrittenUnfolds DEF WrittenStep
    <3>3. Means[g] = Having(key, Passing(cmp, num))
      BY <1>2, <2>1, <3>1, MeansUnfolds DEF MeansStep
    <3>4. PlanPrec(cmp) = 20
      BY <2>1, <3>1, PlanPrecs DEF Comparison
    <3>5. /\ w \in Seq(Token)
          /\ \E node : /\ Ready(node, Means[g])
                       /\ \A s \in PlanTail(4), least \in 0..20 : \A r :
                             ClimbGives(node, s, least, r) => ExprGives(w \o s, least, r)
      BY <3>2, <3>3, <3>4, ReadsComparison, ZenonT(40)
    <3>6. 19 \in 0..20
      OBVIOUS
    <3>7. QED  BY <3>5, <3>6, NotParses
  <2>2. CASE ~(Formulas[g].op = "key" /\ Formulas[g].cmp # ">")
    <3>1. Stands(w, Means[g])
      BY <1>1, <1>4, <2>2, ClosedStands
    <3>2. PICK inner : /\ Ready(inner, Means[g])
                       /\ \A s \in Seq(Token), least \in 0..21 : \A r :
                             ClimbGives(inner, s, least, r) => ExprGives(w \o s, least, r)
      BY <3>1 DEF Stands
    <3>3. 19 \in 0..21 /\ 4 \in 2..4 /\ w \in Seq(Token)
      BY <3>1 DEF Stands
    <3>4. \A s \in PlanTail(4) : s \in Seq(Token)
      BY <3>3, PlanTails
    <3>5. \A s \in PlanTail(4) : \A r : ClimbGives(inner, s, 19, r) => ExprGives(w \o s, 19, r)
      BY <3>2, <3>3, <3>4
    <3>6. QED  BY <3>2, <3>3, <3>5, NotParses
  <2>3. QED  BY <2>1, <2>2
<1>7. QED  BY <1>3, <1>5, <1>6, ParsesRight

LEMMA RightEqual ==
    ASSUME NEW f \in DOMAIN Formulas, Formulas[f].op = "==",
           Right(Formulas[f].left), Right(Formulas[f].right)
    PROVE  Right(f)
<1>1. PICK g : g = Formulas[f].left
  OBVIOUS
<1>2. PICK h : h = Formulas[f].right
  OBVIOUS
<1>3. Stands(Parens(Written[g]), Means[g]) /\ Stands(Parens(Written[h]), Means[h])
  BY <1>1, <1>2, ClosedStands
<1>4. Parses(Between(Parens(Written[g]), Op("=="), Parens(Written[h])), 4, Agreeing(Means[g], Means[h]))
  BY <1>3, EqualParses
<1>5. Means[f] = Agreeing(Means[g], Means[h])
  BY <1>1, <1>2, MeansUnfolds DEF MeansStep
<1>6. Written[f] = Between(Parens(Written[g]), Op("=="), Parens(Written[h]))
  BY <1>1, <1>2, WrittenUnfolds DEF WrittenStep, Between
<1>7. QED  BY <1>4, <1>5, <1>6, ParsesRight

(* A side of AND: with parentheses when it is an OR. *)
LEMMA RightAnd ==
    ASSUME NEW f \in DOMAIN Formulas, Formulas[f].op = "AND",
           Right(Formulas[f].left), Right(Formulas[f].right)
    PROVE  Right(f)
<1> DEFINE Side(g) == IF Formulas[g].op = "OR" THEN Parens(Written[g]) ELSE Written[g]
<1>1. PICK g : g = Formulas[f].left
  OBVIOUS
<1>2. PICK h : h = Formulas[f].right
  OBVIOUS
<1>3. 2 \in 2..4 /\ 3 \in 2..4 /\ 4 \in 2..4 /\ 3 \in 2..3 /\ 3 \in 2..4 /\ PlanPrec("AND") = 3
      /\ PlanPrec("AND") + 1 = 4 /\ PlanPrec("OR") + 1 = 3 /\ 3 \in 2..4
  BY PlanPrecs
<1>4. ASSUME NEW x, Right(x)
      PROVE  Parses(Side(x), 3, Means[x]) /\ Joins("AND", Side(x), Means[x])
  <2>1. CASE Formulas[x].op = "OR"
    <3>1. Stands(Side(x), Means[x])
      BY <1>4, <2>1, ClosedStands
    <3>2. Parses(Side(x), 3, Means[x]) /\ Parses(Side(x), PlanPrec("AND") + 1, Means[x])
      BY <1>3, <3>1, StandsParses
    <3>3. QED  BY <3>2, ParsesJoins
  <2>2. CASE Formulas[x].op = "AND"
    <3>1. Side(x) = Written[x]
      BY <2>2
    <3>2. QED  BY <1>4, <2>2, <3>1 DEF Right
  <2>3. CASE Formulas[x].op \notin {"AND", "OR"}
    <3>1. Side(x) = Written[x]
      BY <2>3
    <3>2. Parses(Written[x], 4, Means[x]) /\ Joins("AND", Written[x], Means[x])
      BY <1>4, <2>3 DEF Right
    <3>3. Parses(Written[x], 3, Means[x])
      BY <1>3, <3>2, ParsesLess
    <3>4. QED  BY <3>1, <3>2, <3>3
  <2>4. QED  BY <2>1, <2>2, <2>3
<1>5. Written[f] = Between(Side(g), Op("AND"), Side(h))
  BY <1>1, <1>2, WrittenUnfolds DEF WrittenStep, Between
<1> HIDE DEF Side
<1>6. Means[f] = Joined("AND", Means[g], Means[h])
  BY <1>1, <1>2, MeansUnfolds DEF MeansStep, Joined
<1>7. /\ Parses(Side(g), PlanPrec("AND"), Means[g]) /\ Joins("AND", Side(g), Means[g])
      /\ Joins("AND", Side(h), Means[h])
  BY <1>1, <1>2, <1>3, <1>4
<1>8. Parses(Written[f], 3, Means[f])
  BY <1>3, <1>5, <1>6, <1>7, BothParse
<1>9. Joins("AND", Written[f], Means[f])
  BY <1>5, <1>6, <1>7, LongerJoins
<1>10. Joins("OR", Written[f], Means[f])
  BY <1>3, <1>8, ParsesJoins
<1>11. QED  BY <1>8, <1>9, <1>10 DEF Right

LEMMA RightOr ==
    ASSUME NEW f \in DOMAIN Formulas, Formulas[f].op = "OR",
           Right(Formulas[f].left), Right(Formulas[f].right)
    PROVE  Right(f)
<1>1. PICK g : g = Formulas[f].left
  OBVIOUS
<1>2. PICK h : h = Formulas[f].right
  OBVIOUS
<1>3. PlanPrec("OR") = 2 /\ 2 \in 2..2 /\ 2 \in 2..3 /\ 2 \in 2..4 /\ 3 \in 2..4 /\ 4 \in 2..4
  BY PlanPrecs
<1>4. Parses(Written[g], 2, Means[g])
  <2>1. PICK level \in 2..4 : Parses(Written[g], level, Means[g])
    BY <1>1, <1>3 DEF Right
  <2>2. 2 \in 2..level
    OBVIOUS
  <2>3. QED  BY <2>1, <2>2, ParsesLess
<1>5. Joins("OR", Written[g], Means[g]) /\ Joins("OR", Written[h], Means[h])
  BY <1>1, <1>2 DEF Right
<1>6. Written[f] = Between(Written[g], Op("OR"), Written[h])
  BY <1>1, <1>2, WrittenUnfolds DEF WrittenStep, Between
<1>7. Means[f] = Joined("OR", Means[g], Means[h])
  BY <1>1, <1>2, MeansUnfolds DEF MeansStep, Joined
<1>8. Parses(Written[f], 2, Means[f])
  BY <1>3, <1>4, <1>5, <1>6, <1>7, BothParse
<1>9. Joins("OR", Written[f], Means[f])
  BY <1>5, <1>6, <1>7, LongerJoins
<1>10. QED  BY <1>8, <1>9 DEF Right

LEMMA RightAll == \A f \in DOMAIN Formulas : Right(f)
<1> DEFINE Wrong == {f \in DOMAIN Formulas : ~Right(f)}
<1> SUFFICES ASSUME Wrong # {} PROVE FALSE
  OBVIOUS
<1>1. PICK f \in Wrong : \A g \in Wrong : f <= g
  <2>1. Wrong \in SUBSET Nat
    BY FilterAssumption
  <2> HIDE DEF Wrong
  <2>2. QED  BY <2>1, LeastNatural
<1>2. f \in DOMAIN Formulas /\ ~Right(f) /\ f \in Nat
  BY <1>1, PartsBefore
<1>3. \A g \in DOMAIN Formulas : g \in 1..f - 1 => Right(g)
  BY <1>1, <1>2
<1>4. CASE Formulas[f].op = "key"
  <2>1. PICK key \in Keys, cmp \in Comparison, num \in Number :
           Formulas[f].key = key /\ Formulas[f].cmp = cmp /\ Formulas[f].num = num
    BY <1>2, <1>4, PartsBefore
  <2>2. Written[f] = <<[t |-> "key", key |-> key], [t |-> cmp], [t |-> "num", num |-> num]>>
    BY <1>2, <1>4, <2>1, WrittenUnfolds DEF WrittenStep
  <2>3. Means[f] = Having(key, Passing(cmp, num))
    BY <1>2, <1>4, <2>1, MeansUnfolds DEF MeansStep
  <2>4. Parses(Written[f], 4, Means[f])
    <3>1. \A least \in 0..4 : least \in 0..PlanPrec(cmp)
      BY PlanPrecs DEF Comparison
    <3>2. PICK w : w = Written[f]
      OBVIOUS
    <3>3. /\ w \in Seq(Token)
          /\ \E node : /\ Ready(node, Having(key, Passing(cmp, num)))
                       /\ \A s \in PlanTail(4), least \in 0..PlanPrec(cmp) : \A r :
                             ClimbGives(node, s, least, r) => ExprGives(w \o s, least, r)
      BY <2>2, <3>2, ReadsComparison
    <3>4. PICK node : /\ Ready(node, Having(key, Passing(cmp, num)))
                      /\ \A s \in PlanTail(4), least \in 0..PlanPrec(cmp) : \A r :
                            ClimbGives(node, s, least, r) => ExprGives(w \o s, least, r)
      BY <3>3
    <3>5. Parses(w, 4, Having(key, Passing(cmp, num)))
      BY <3>1, <3>3, <3>4 DEF Parses
    <3>6. QED  BY <2>3, <3>2, <3>5
  <2>5. QED  BY <1>2, <1>4, <2>4, ParsesRight
<1>5. CASE Formulas[f].op = "IN"
  <2>1. PICK key \in Keys, list \in SUBSET Number : Formulas[f].key = key /\ Formulas[f].list = list
    BY <1>2, <1>5, PartsBefore
  <2>2. Written[f] = <<[t |-> "key", key |-> key], [t |-> "IN", list |-> list]>>
    BY <1>2, <1>5, <2>1, WrittenUnfolds DEF WrittenStep
  <2>3. Means[f] = Having(key, list)
    BY <1>2, <1>5, <2>1, MeansUnfolds DEF MeansStep
  <2>4. Parses(Written[f], 4, Means[f])
    BY <2>2, <2>3, InParses
  <2>5. QED  BY <1>2, <1>5, <2>4, ParsesRight
<1>6. CASE Formulas[f].op = "NOT"
  <2>1. Right(Formulas[f].of)
    BY <1>2, <1>3, <1>6, PartsBefore
  <2>2. QED  BY <1>2, <1>6, <2>1, RightNot
<1>7. CASE Formulas[f].op \in {"AND", "OR", "=="}
  <2>1. Right(Formulas[f].left) /\ Right(Formulas[f].right)
    BY <1>2, <1>3, <1>7, PartsBefore
  <2>2. QED  BY <1>2, <1>7, <2>1, RightAnd, RightOr, RightEqual
<1>8. QED  BY <1>2, <1>4, <1>5, <1>6, <1>7, PartsBefore

----------------------------------------------------------------------------
(* What a filter of a caller says, as SQL, is what the caller means. *)
LEMMA FilterSays ==
    ASSUME NEW f \in DOMAIN Formulas
    PROVE  Says(toSQL(Written[f]), Means[f])
<1>1. PICK level \in 2..4 : Parses(Written[f], level, Means[f])
  <2>1. 2 \in 2..4 /\ 3 \in 2..4 /\ 4 \in 2..4
    OBVIOUS
  <2>2. QED  BY <2>1, RightAll DEF Right
<1>2. PICK node : /\ Ready(node, Means[f])
                  /\ \A s \in PlanTail(level), least \in 0..level : \A r :
                        ClimbGives(node, s, least, r) => ExprGives(Written[f] \o s, least, r)
  BY <1>1 DEF Parses
<1>3. Written[f] \in Seq(Token) /\ node \in Node
  BY <1>1, <1>2 DEF Parses, Ready
<1>4. <<>> \in PlanTail(level) /\ <<>> \in Seq(Token) /\ ~Follows(<<>>, 0) /\ 0 \in 0..level /\ 0 \in 0..21
  BY DEF PlanTail, Follows
<1>5. ClimbGives(node, <<>>, 0, [node |-> node, rest |-> <<>>])
  BY <1>3, <1>4, ReadsNoMore
<1>6. ExprGives(Written[f] \o <<>>, 0, [node |-> node, rest |-> <<>>])
  BY <1>2, <1>4, <1>5
<1>7. Written[f] \o <<>> = Written[f]
  BY <1>3, ConcatEmptySeq
<1>8. 2 * Len(Written[f]) \in Nat
  BY <1>3
<1>9. Expr(Parser[2 * Len(Written[f])], Written[f], 0) = [node |-> node, rest |-> <<>>]
  BY <1>6, <1>7, <1>8 DEF ExprGives
<1>10. toSQL(Written[f]) = node.sql
  BY <1>9 DEF toSQL
<1>11. QED  BY <1>2, <1>10 DEF Ready

LEMMA OnceIs == \A table : Once(table) = table
  BY DEF Once

(* A filter selects a row of a vector, where the condition on the row       *)
(* itself holds, if and only if the metadata of the vector are as the       *)
(* filter says: whatever its formula, with AND before OR and parentheses    *)
(* where callers write them (PlanParser, SQLBuilderVisitor).                *)
THEOREM FiltersSelectWhatTheyMean ==
    \A rows \in Metadata : Selects[TRUE][rows] = Meaning[rows] /\ Selects[FALSE][rows] = {}
<1>1. ASSUME NEW rows \in Metadata, NEW outer \in BOOLEAN
      PROVE  Selects[outer][rows] = {f \in DOMAIN Formulas : Value(Valued(Where[f], rows, outer)) # 0}
  <2>1. PICK table : table = [o \in BOOLEAN |-> Once([r \in Metadata |->
                       {f \in DOMAIN Formulas : Value(Valued(Where[f], r, o)) # 0}])]
    OBVIOUS
  <2>2. Selects = table
    BY <2>1, OnceIs DEF Selects
  <2>3. table[outer] = Once([r \in Metadata |-> {f \in DOMAIN Formulas : Value(Valued(Where[f], r, outer)) # 0}])
    BY <2>1
  <2>4. PICK t : t = [r \in Metadata |-> {f \in DOMAIN Formulas : Value(Valued(Where[f], r, outer)) # 0}]
    OBVIOUS
  <2>5. table[outer] = t
    BY <2>3, <2>4, OnceIs
  <2>6. QED  BY <2>2, <2>4, <2>5
<1>2. ASSUME NEW f \in DOMAIN Formulas
      PROVE  Where[f] = Op("outer") \o Op("AND") \o toSQL(Written[f])
  <2>1. Where = [g \in DOMAIN Formulas |-> Op("outer") \o Op("AND") \o toSQL(Written[g])]
    BY OnceIs DEF Where
  <2>2. QED  BY <2>1
<1>3. ASSUME NEW rows \in Metadata, NEW outer \in BOOLEAN, NEW f \in DOMAIN Formulas
      PROVE  Value(Valued(Where[f], rows, outer)) # 0 <=> (outer /\ rows \in Means[f])
  <2>1. Value(Valued(Op("outer") \o Op("AND") \o toSQL(Written[f]), rows, outer)) = Bit(outer /\ rows \in Means[f])
    BY FilterSays, WhereReads
  <2>2. Value(Valued(Where[f], rows, outer)) = Bit(outer /\ rows \in Means[f])
    BY <1>2, <2>1
  <2>3. QED  BY <2>2 DEF Bit
<1>4. ASSUME NEW rows \in Metadata
      PROVE  Meaning[rows] = {f \in DOMAIN Formulas : rows \in Means[f]}
  <2>1. Meaning = [r \in Metadata |-> {f \in DOMAIN Formulas : r \in Means[f]}]
    BY OnceIs DEF Meaning
  <2>2. QED  BY <2>1
<1>5. ASSUME NEW rows \in Metadata
      PROVE  Selects[TRUE][rows] = Meaning[rows] /\ Selects[FALSE][rows] = {}
  <2>1. Selects[TRUE][rows] = {f \in DOMAIN Formulas : Value(Valued(Where[f], rows, TRUE)) # 0}
    BY <1>1
  <2>2. Selects[FALSE][rows] = {f \in DOMAIN Formulas : Value(Valued(Where[f], rows, FALSE)) # 0}
    BY <1>1
  <2>3. \A f \in DOMAIN Formulas : Value(Valued(Where[f], rows, TRUE)) # 0 <=> rows \in Means[f]
    BY <1>3
  <2>4. \A f \in DOMAIN Formulas : ~(Value(Valued(Where[f], rows, FALSE)) # 0)
    BY <1>3
  <2>5. QED  BY <1>4, <2>1, <2>2, <2>3, <2>4
<1>6. QED  BY <1>5
=============================================================================
