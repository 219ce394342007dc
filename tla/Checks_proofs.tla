---------------------------- MODULE Checks_proofs ----------------------------
(***************************************************************************)
(* The automatic checks for every job, workspace, registry and interleaving*)
(* with the agent's other runs: what a pass and a delivery rest on.        *)
(***************************************************************************)
EXTENDS Checks, WellFoundedInduction, FiniteSetTheorems, TLAPS

-----------------------------------------------------------------------------
(* Least and greatest positions.                                           *)

(* The numbers are well ordered.                                           *)
LEMMA LessThan ==
  \E R : IsWellFoundedOn(R, Nat) /\ \A x, y \in Nat : y < x => <<y, x>> \in R
  <1> DEFINE R == OpToRel(<, Nat)
  <1>1. IsWellFoundedOn(R, Nat)
    BY NatLessThanWellFounded
  <1>2. \A x, y \in Nat : y < x => <<y, x>> \in R
    BY DEF OpToRel
  <1> HIDE DEF R
  <1> QED
    BY <1>1, <1>2, Zenon

(* So a set of positions has a first one,                                  *)
LEMMA Least ==
  ASSUME NEW S, S \subseteq Nat, S # {}
  PROVE  \E x \in S : \A y \in S : x <= y
  <1>1. PICK R : IsWellFoundedOn(R, Nat) /\ \A x, y \in Nat : y < x => <<y, x>> \in R
    BY LessThan
  <1>2. PICK x \in S : \A y \in S : ~ (<<y, x>> \in R)
    BY <1>1, WFMin
  <1>3. ASSUME NEW y \in S PROVE x <= y
    <2>1. x \in Nat /\ y \in Nat
      OBVIOUS
    <2>2. ~(y < x)
      BY <1>1, <1>2, <2>1
    <2> QED
      BY <2>1, <2>2
  <1> QED
    BY <1>3

(* and, when it is bounded, a last one.                                    *)
LEMMA Greatest ==
  ASSUME NEW n \in Nat, NEW S, S \subseteq 1..n, S # {}
  PROVE  \E x \in S : \A y \in S : y <= x
  <1> DEFINE T == {n - k : k \in S}
  <1>1. T \subseteq Nat /\ T # {}
    OBVIOUS
  <1>2. PICK x \in T : \A y \in T : x <= y
    BY <1>1, Least
  <1>3. PICK k \in S : x = n - k
    OBVIOUS
  <1>4. ASSUME NEW m \in S PROVE m <= k
    <2>1. n - m \in T /\ m \in Int /\ k \in Int
      OBVIOUS
    <2>2. n - k <= n - m
      BY <1>2, <1>3, <2>1
    <2> QED
      BY <2>1, <2>2
  <1> QED
    BY <1>4

-----------------------------------------------------------------------------
(* The rules of a table.                                                   *)

(* An atom and a term of typed rows are typed.                             *)
LEMMA AtomTyped ==
  ASSUME NEW a, NEW row, a.n \in Int, RowTyped(row)
  PROVE  Atom(a, row).n \in Int
  BY DEF Atom, RowTyped, Nothing

LEMMA TermIsTyped ==
  ASSUME NEW t, NEW row, TermTyped(t), RowTyped(row)
  PROVE  Term(t, row).n \in Int
  <1> DEFINE a == Atom(t.a, row)
             b == Atom(t.b, row)
  <1>1. a.n \in Int /\ b.n \in Int
    BY AtomTyped DEF TermTyped
  <1>2. Arithmetic(t.op, a, b).n \in Int \/ t.op = "atom"
    <2> HIDE DEF a, b
    <2>1. CASE a.is # "number" \/ b.is # "number"
      BY <2>1 DEF Arithmetic, Error
    <2>2. CASE ~(a.is # "number" \/ b.is # "number")
      <3>1. b.n # 0 => Quotient(a.n * 100, b.n) \in Int
        BY <1>1 DEF Quotient
      <3>2. (a.n * b.n) \div 100 \in Int
        BY <1>1
      <3> QED
        BY <1>1, <2>2, <3>1, <3>2 DEF Arithmetic, TermTyped, Number, Crash
    <2> QED
      BY <2>1, <2>2
  <1> QED
    BY <1>1, <1>2 DEF Term

(* A comparison says what the difference of its sides says, and says       *)
(* neither exactly when it cannot be read.                                 *)
LEMMA ComparisonIs ==
  ASSUME NEW c, NEW row, NEW cent \in BOOLEAN, PartTyped(c), RowTyped(row)
  PROVE  LET slack == IF cent THEN 1 ELSE 0
             says  == Comparison(c, row, cent)
         IN  /\ says \in {"true", "false", "error", "crash"}
             /\ says \in {"true", "false"} <=> Readable(c, row)
             /\ says = "true" <=> Satisfies(c, row, slack) /\ Readable(c, row)
  <1> DEFINE a == Term(c.left, row)
             b == Term(c.right, row)
             slack == IF cent THEN 1 ELSE 0
             says == Comparison(c, row, cent)
  <1>1. a.n \in Int /\ b.n \in Int
    BY TermIsTyped DEF PartTyped
  <1>2. c.op \in {"==", "!=", "<", "<=", ">", ">="}
    BY DEF PartTyped
  <1>3. says = IF Broken(a) THEN a.is ELSE IF Broken(b) THEN b.is
               ELSE IF a.is = "number" /\ b.is = "number"
                    THEN IF Holds(c.op, a, b, cent) THEN "true" ELSE "false"
               ELSE IF c.op \notin {"==", "!="} THEN "error"
               ELSE IF (Printed(a) = Printed(b)) = (c.op = "==") THEN "true" ELSE "false"
    BY DEF Comparison
  <1>4. Satisfies(c, row, slack) <=>
           /\ ~Broken(a) /\ ~Broken(b)
           /\ IF a.is = "number" /\ b.is = "number"
              THEN \/ c.op \in {"==", "<=", ">="} /\ a.n - b.n \in (-slack)..slack
                   \/ c.op \in {"<", "<=", "!="} /\ a.n - b.n < -slack
                   \/ c.op \in {">", ">=", "!="} /\ a.n - b.n > slack
              ELSE \/ c.op = "==" /\ Printed(a) = Printed(b)
                   \/ c.op = "!=" /\ Printed(a) # Printed(b)
    BY DEF Satisfies
  <1>5. Readable(c, row) <=>
           /\ ~Broken(a) /\ ~Broken(b)
           /\ c.op \in {"==", "!="} \/ (a.is = "number" /\ b.is = "number")
    BY DEF Readable
  <1>6. slack \in {0, 1} /\ (slack = 1 <=> cent)
    OBVIOUS
  <1> HIDE DEF a, b, slack, says
  <1>7. ASSUME Broken(a) \/ Broken(b)
        PROVE  says \in {"error", "crash"} /\ ~Readable(c, row)
    BY <1>3, <1>5, <1>7 DEF Broken
  <1>8. ASSUME ~Broken(a), ~Broken(b), a.is = "number", b.is = "number"
        PROVE  /\ says \in {"true", "false"}
               /\ Readable(c, row) /\ (says = "true" <=> Satisfies(c, row, slack))
    <2>1. Holds(c.op, a, b, cent) <=>
             \/ c.op \in {"==", "<=", ">="} /\ a.n - b.n \in (-slack)..slack
             \/ c.op \in {"<", "<=", "!="} /\ a.n - b.n < -slack
             \/ c.op \in {">", ">=", "!="} /\ a.n - b.n > slack
      <3>1. Close(a, b, cent) <=> a.n - b.n \in (-slack)..slack
        BY <1>1, <1>6 DEF Close, Gap
      <3>2. a.n < b.n /\ ~Close(a, b, cent) <=> a.n - b.n < -slack
        BY <1>1, <1>6 DEF Close, Gap
      <3>3. a.n > b.n /\ ~Close(a, b, cent) <=> a.n - b.n > slack
        BY <1>1, <1>6 DEF Close, Gap
      <3>4. /\ a.n <= b.n \/ Close(a, b, cent) <=> a.n - b.n <= slack
            /\ a.n >= b.n \/ Close(a, b, cent) <=> a.n - b.n >= -slack
        BY <1>1, <1>6 DEF Close, Gap
      <3>5. a.n - b.n \in Int
        BY <1>1
      <3> DEFINE d == a.n - b.n
                 close == Close(a, b, cent)
                 less == a.n < b.n
                 more == a.n > b.n
      <3>6. /\ c.op = "==" => (Holds(c.op, a, b, cent) <=> close)
            /\ c.op = "!=" => (Holds(c.op, a, b, cent) <=> ~close)
            /\ c.op = "<"  => (Holds(c.op, a, b, cent) <=> less /\ ~close)
            /\ c.op = "<=" => (Holds(c.op, a, b, cent) <=> a.n <= b.n \/ close)
            /\ c.op = ">"  => (Holds(c.op, a, b, cent) <=> more /\ ~close)
            /\ c.op = ">=" => (Holds(c.op, a, b, cent) <=> a.n >= b.n \/ close)
        BY DEF Holds
      <3>7. /\ close <=> d \in (-slack)..slack
            /\ less /\ ~close <=> d < -slack
            /\ more /\ ~close <=> d > slack
            /\ a.n <= b.n \/ close <=> d <= slack
            /\ a.n >= b.n \/ close <=> d >= -slack
        BY <3>1, <3>2, <3>3, <3>4
      <3>8. d \in Int /\ slack \in Nat
        BY <1>6, <3>5
      <3> HIDE DEF d, close, less, more
      <3>9. /\ d \in (-slack)..slack <=> d >= -slack /\ d <= slack
            /\ d <= slack <=> ~(d > slack)
            /\ d >= -slack <=> ~(d < -slack)
            /\ ~(d < -slack /\ d > slack)
        BY <3>8
      <3>10. CASE c.op \in {"==", "!="}
        BY <3>6, <3>7, <3>9, <3>10 DEF d
      <3>11. CASE c.op \in {"<", "<="}
        BY <3>6, <3>7, <3>9, <3>11 DEF d
      <3>12. CASE c.op \in {">", ">="}
        BY <3>6, <3>7, <3>9, <3>12 DEF d
      <3> QED
        BY <1>2, <3>10, <3>11, <3>12
    <2> QED
      BY <1>3, <1>4, <1>5, <1>8, <2>1
  <1>9. ASSUME ~Broken(a), ~Broken(b), ~(a.is = "number" /\ b.is = "number")
        PROVE  /\ says \in {"true", "false", "error"}
               /\ says # "error" <=> Readable(c, row)
               /\ says = "true" <=> Satisfies(c, row, slack) /\ Readable(c, row)
    BY <1>2, <1>3, <1>4, <1>5, <1>9
  <1> QED
    BY <1>7, <1>8, <1>9 DEF says, slack

(* A rule holds exactly of the rows it proves, and is false of exactly     *)
(* those it can be read on and does not prove.                             *)
LEMMA RuleIs ==
  ASSUME NEW r, NEW row, NEW cent \in BOOLEAN, RuleTyped(r), RowTyped(row)
  PROVE  LET slack == IF cent THEN 1 ELSE 0
             says  == Rule(r, row, cent)
         IN  /\ says = "true"  <=> Proves(r, row, slack)
             /\ says = "false" <=> Legible(r, row) /\ ~Proves(r, row, slack)
  <1> DEFINE slack  == IF cent THEN 1 ELSE 0
             says   == Rule(r, row, cent)
             Part(n) == Comparison(r.parts[n], row, cent)
             values == [i \in DOMAIN r.parts |-> Part(i)]
             raised == {i \in DOMAIN values : values[i] \in {"error", "crash"}}
             true   == {i \in DOMAIN values : values[i] = "true"}
  <1>1. says = IF raised # {} THEN values[CHOOSE i \in raised : \A k \in raised : i <= k]
               ELSE IF (IF r.join = "and" THEN true = DOMAIN values ELSE true # {})
                    THEN "true" ELSE "false"
    BY DEF Rule
  <1>2. \A n \in DOMAIN r.parts :
           /\ Part(n) \in {"true", "false", "error", "crash"}
           /\ Part(n) \in {"true", "false"} <=> Readable(r.parts[n], row)
           /\ Part(n) = "true" <=> Satisfies(r.parts[n], row, slack) /\ Readable(r.parts[n], row)
    <2>1. ASSUME NEW n \in DOMAIN r.parts PROVE PartTyped(r.parts[n])
      BY DEF RuleTyped
    <2> QED
      BY <2>1, ComparisonIs
  <1> HIDE DEF says, slack, Part
  <1>3. CASE raised # {}
    <2>1. raised \subseteq Nat
      BY DEF RuleTyped
    <2>2. \E i \in raised : \A k \in raised : i <= k
      BY <1>3, <2>1, Least
    <2> DEFINE first == CHOOSE i \in raised : \A k \in raised : i <= k
    <2>3. first \in raised
      BY <2>2
    <2>4. says \in {"error", "crash"}
      BY <1>1, <1>3, <2>3
    <2>5. ~Legible(r, row)
      BY <1>2, <1>3 DEF Legible
    <2>6. says # "true" /\ says # "false" /\ ~Legible(r, row) /\ ~Proves(r, row, slack)
      BY <2>4, <2>5 DEF Proves
    <2> QED
      BY <2>6 DEF says, slack
  <1>4. CASE raised = {}
    <2>1. \A n \in DOMAIN r.parts : Part(n) \in {"true", "false"}
      BY <1>2, <1>4
    <2>2. says = IF (IF r.join = "and" THEN \A n \in DOMAIN r.parts : Part(n) = "true"
                                       ELSE \E n \in DOMAIN r.parts : Part(n) = "true")
                 THEN "true" ELSE "false"
      BY <1>1, <1>4
    <2>3. Legible(r, row)
      BY <1>2, <2>1 DEF Legible
    <2>4. \A n \in DOMAIN r.parts : Part(n) = "true" <=> Satisfies(r.parts[n], row, slack)
      BY <1>2, <2>1
    <2>5. says = "true" <=> Proves(r, row, slack)
      BY <2>2, <2>3, <2>4 DEF Proves
    <2>6. says \in {"true", "false"}
      BY <2>2
    <2> QED
      BY <2>3, <2>5, <2>6 DEF says, slack
  <1> QED
    BY <1>3, <1>4

(* The rows the rules are applied to are those the `where` does not        *)
(* exclude.                                                                *)
LEMMA AppliesTo ==
  ASSUME NEW cfg, NEW t, RuleTyped(cfg.where), TableTyped(t)
  PROVE  Selected(cfg, t) =
           {n \in DOMAIN t.rows : ~Excluded(cfg, t.rows[n], IF t.cent THEN 1 ELSE 0)}
  <1> DEFINE slack == IF t.cent THEN 1 ELSE 0
  <1>1. ASSUME NEW n \in DOMAIN t.rows
        PROVE  Applies(cfg, t.rows[n], t.cent) <=> ~Excluded(cfg, t.rows[n], slack)
    <2>1. RowTyped(t.rows[n]) /\ t.cent \in BOOLEAN
      BY DEF TableTyped
    <2>2. Rule(cfg.where, t.rows[n], t.cent) = "false" <=> Excluded(cfg, t.rows[n], slack)
      BY <2>1, RuleIs DEF Excluded
    <2> QED
      BY <2>2 DEF Applies, Where
  <1> HIDE DEF slack
  <1>2. Selected(cfg, t) = {n \in DOMAIN t.rows : ~Excluded(cfg, t.rows[n], slack)}
    BY <1>1 DEF Selected
  <1> QED
    BY <1>2 DEF slack

(* A table passes exactly when it has the columns, the rows, no key twice, *)
(* no row its rule does not prove, and a row for every file.               *)
LEMMA TableIsEarned ==
  ASSUME NEW cfg, NEW t, NEW files, RuleTyped(cfg.where), RuleTyped(cfg.row_rule),
         cfg.min_rows \in Int, TableTyped(t)
  PROVE  TablePasses(cfg, t, files) <=> TableEarned(cfg, t) /\ Covered(cfg, t, files)
  <1> DEFINE slack == IF t.cent THEN 1 ELSE 0
             in    == {n \in DOMAIN t.rows : ~Excluded(cfg, t.rows[n], slack)}
             Apart == \A n, m \in in :
                         n # m => \E c \in cfg.unique : Key(t.rows[n], c) # Key(t.rows[m], c)
             Proved == \A n \in in : Proves(cfg.row_rule, t.rows[n], slack)
  <1>1. in = Selected(cfg, t) /\ in \subseteq DOMAIN t.rows
    BY AppliesTo
  <1>2. TableEarned(cfg, t) <=>
           /\ cfg.columns \subseteq t.cols
           /\ cfg.min_rows > 0 => cfg.min_rows \in DOMAIN t.rows
           /\ cfg.unique = {} \/ Apart
           /\ HasRule(cfg) => Proved
    BY DEF TableEarned
  <1>3. Proved <=> BadRows(cfg, t) = {}
    <2>1. ASSUME NEW n \in in
          PROVE  Rule(cfg.row_rule, t.rows[n], t.cent) = "true" <=>
                   Proves(cfg.row_rule, t.rows[n], slack)
      <3>1. RowTyped(t.rows[n]) /\ t.cent \in BOOLEAN
        BY <1>1 DEF TableTyped
      <3> QED
        BY <3>1, RuleIs
    <2> HIDE DEF in, slack
    <2> QED
      BY <1>1, <2>1 DEF BadRows
  <1> HIDE DEF in, slack
  <1>4. Apart <=> Duplicates(cfg, t) = {}
    <2>1. \A n, m \in in : KeyOf(cfg, t.rows[n]) # KeyOf(cfg, t.rows[m]) <=>
             \E c \in cfg.unique : Key(t.rows[n], c) # Key(t.rows[m], c)
      BY DEF KeyOf
    <2>2. \A n, m \in in : n # m <=> n < m \/ m < n
      BY <1>1 DEF TableTyped
    <2>3. Duplicates(cfg, t) = {} <=>
             \A n, k \in in : k < n => KeyOf(cfg, t.rows[k]) # KeyOf(cfg, t.rows[n])
      BY <1>1 DEF Duplicates
    <2> QED
      BY <2>1, <2>2, <2>3
  <1>5. Len(t.rows) >= cfg.min_rows <=> (cfg.min_rows > 0 => cfg.min_rows \in DOMAIN t.rows)
    BY DEF TableTyped
  <1>6. Missing(cfg, t) = {} <=> cfg.columns \subseteq t.cols
    BY DEF Missing
  <1>7. (cfg.covers => Absent(cfg, t, files) = {}) <=> Covered(cfg, t, files)
    BY DEF Absent, Covered
  <1> HIDE DEF Apart, Proved
  <1>8. TablePasses(cfg, t, files) <=>
           /\ Missing(cfg, t) = {}
           /\ Len(t.rows) >= cfg.min_rows
           /\ cfg.unique = {} \/ Duplicates(cfg, t) = {}
           /\ HasRule(cfg) => BadRows(cfg, t) = {}
           /\ cfg.covers => Absent(cfg, t, files) = {}
    BY DEF TablePasses
  <1> QED
    BY <1>2, <1>3, <1>4, <1>5, <1>6, <1>7, <1>8

-----------------------------------------------------------------------------
(* The other checks.                                                       *)

(* evaluate_expect passes exactly a cell that is where the comparator      *)
(* wants it.                                                               *)
LEMMA CellIsEarned ==
  ASSUME NEW cell, NEW e, cell.n \in Int, e.n \in Int, e.low \in Int, parse_expect(e)
  PROVE  evaluate_expect(cell, e) <=> CellEarned(e, cell)
  <1> DEFINE n == cell.n
             k == e.n
             l == e.low
  <1>1. e.op \in {"nonempty", "true", "between", ">=", "<=", "==", "=", "!=", ">", "<"}
    BY DEF parse_expect, Comparators
  <1>2. CASE e.op \in {"nonempty", "true"}
    <2>1. CASE e.op = "nonempty"
      BY <2>1 DEF evaluate_expect, Comparators, CellEarned
    <2>2. CASE e.op = "true"
      <3>1. evaluate_expect(cell, e) <=> cell.text \in {"t", "true", "1", "yes"}
        BY <2>2 DEF evaluate_expect, Comparators
      <3>2. CellEarned(e, cell) <=> cell.text \in {"t", "true", "1", "yes"}
        BY <2>2 DEF CellEarned
      <3> QED
        BY <3>1, <3>2
    <2> QED
      BY <1>2, <2>1, <2>2
  <1>3. CASE e.op = "between"
    <2>1. evaluate_expect(cell, e) <=> cell.is = "number" /\ l <= n /\ n <= k
      BY <1>3 DEF evaluate_expect, Comparators
    <2>2. (n - l \in Nat <=> l <= n) /\ (k - n \in Nat <=> n <= k)
      OBVIOUS
    <2>3. Accepted(e, n) <=> n - l \in Nat /\ k - n \in Nat
      BY <1>3 DEF Accepted
    <2>4. CellEarned(e, cell) <=> cell.is = "number" /\ Accepted(e, n)
      BY <1>3 DEF CellEarned
    <2> QED
      BY <2>1, <2>2, <2>3, <2>4
  <1>4. CASE e.op \in Comparators
    <2>1. evaluate_expect(cell, e) <=>
          /\ cell.is = "number"
          /\ e.op \in {">=", ">", "!="}      \/ n <= k
          /\ e.op \in {"<=", "<", "!="}      \/ n >= k
          /\ e.op \in {"<=", ">=", "==", "="} \/ n # k
      BY <1>4 DEF evaluate_expect, Comparators
    <2>2. /\ n - k \in Nat <=> n >= k
          /\ k - n \in Nat <=> n <= k
          /\ n - k \in Nat \ {0} <=> n >= k /\ n # k
          /\ k - n \in Nat \ {0} <=> n <= k /\ n # k
          /\ n = k <=> n >= k /\ n <= k
          /\ n >= k \/ n <= k
      OBVIOUS
    <2> HIDE DEF n, k
    <2>3. Accepted(e, n) <=>
          /\ e.op \in {">=", ">", "!="}      \/ n <= k
          /\ e.op \in {"<=", "<", "!="}      \/ n >= k
          /\ e.op \in {"<=", ">=", "==", "="} \/ n # k
      <3>1. CASE e.op = ">="
        BY <2>2, <3>1 DEF Accepted, k
      <3>2. CASE e.op = ">"
        BY <2>2, <3>2 DEF Accepted, k
      <3>3. CASE e.op = "<="
        BY <2>2, <3>3 DEF Accepted, k
      <3>4. CASE e.op = "<"
        BY <2>2, <3>4 DEF Accepted, k
      <3>5. CASE e.op \in {"==", "="}
        BY <2>2, <3>5 DEF Accepted, k
      <3>6. CASE e.op = "!="
        BY <2>2, <3>6 DEF Accepted, k
      <3> QED
        BY <1>4, <3>1, <3>2, <3>3, <3>4, <3>5, <3>6 DEF Comparators
    <2>4. CellEarned(e, cell) <=> cell.is = "number" /\ Accepted(e, n)
      BY <1>4 DEF CellEarned, Comparators, n
    <2> QED
      BY <2>1, <2>3, <2>4
  <1> QED
    BY <1>1, <1>2, <1>3, <1>4 DEF Comparators

(* A file passes exactly when it has the facts, its last line, and a line  *)
(* of its own run for every pattern.                                       *)
LEMMA FileIsEarned ==
  ASSUME NEW cfg, NEW file, Len(file.lines) \in Nat, DOMAIN file.lines = 1..Len(file.lines)
  PROVE  ArtifactPasses(cfg, file) <=> FileEarned(cfg, file)
  <1> DEFINE Facts == /\ file.exists
                      /\ cfg.non_empty => file.size > 0
                      /\ cfg.modified_since_start => file.recent
             Has(p) == \E n \in DOMAIN file.lines : p \in file.lines[n].matches
             Hits(p) == \E n \in DOMAIN file.lines : Hit(cfg, p, file.lines[n])
  <1>1. \A p : p \in LastMatches(file) <=> Ends(file, p)
    <2>1. CASE Texts(file) = {}
      BY <2>1 DEF LastMatches, Ends
    <2>2. CASE Texts(file) # {}
      <3> DEFINE last == CHOOSE n \in Texts(file) : \A k \in Texts(file) : k <= n
      <3>1. Texts(file) \subseteq 1..Len(file.lines)
        BY DEF Texts
      <3>2. \E n \in Texts(file) : \A k \in Texts(file) : k <= n
        BY <2>2, <3>1, Greatest
      <3>3. last \in Texts(file) /\ \A k \in Texts(file) : k <= last
        BY <3>2
      <3>4. LastMatches(file) = file.lines[last].matches
        BY <2>2 DEF LastMatches
      <3> HIDE DEF last
      <3>5. \A n \in Texts(file) : (~\E k \in Texts(file) : k > n) <=> n = last
        BY <3>1, <3>3
      <3> QED
        BY <2>2, <3>3, <3>4, <3>5 DEF Ends
    <2> QED
      BY <2>1, <2>2
  <1>2. ArtifactPasses(cfg, file) <=>
           /\ Facts
           /\ \A p \in cfg.contains : Has(p)
           /\ \A p \in cfg.last_line_matches : Ends(file, p)
           /\ \A p \in cfg.line_regex : Hits(p)
    BY <1>1 DEF ArtifactPasses
  <1>3. FileEarned(cfg, file) <=>
           /\ Facts
           /\ \A p \in cfg.last_line_matches : Ends(file, p)
           /\ \A p \in cfg.contains \cup cfg.line_regex : \E n \in DOMAIN file.lines :
                /\ p \in file.lines[n].matches
                /\ p \in cfg.line_regex /\ cfg.ts_after_start /\ cfg.captures =>
                     file.lines[n].ts = "during"
    BY DEF FileEarned
  <1>4. \A p \in cfg.line_regex : Hits(p) => Has(p)
    BY DEF Hit
  <1>5. \A p \in cfg.contains \cup cfg.line_regex :
           (\E n \in DOMAIN file.lines :
                /\ p \in file.lines[n].matches
                /\ p \in cfg.line_regex /\ cfg.ts_after_start /\ cfg.captures =>
                     file.lines[n].ts = "during")
           <=> IF p \in cfg.line_regex THEN Hits(p) ELSE Has(p)
    BY DEF Hit, Timed
  <1> HIDE DEF Facts, Has, Hits
  <1> QED
    BY <1>2, <1>3, <1>4, <1>5

(* A criterion that grade() counts is backed by an entry of the answer.    *)
LEMMA MetIsBacked ==
  ASSUME NEW rubric, NEW answer, NEW content, NEW i \in Met(rubric, answer, content),
         Len(answer) \in Nat, DOMAIN answer = 1..Len(answer)
  PROVE  i \in DOMAIN rubric /\ Backs(rubric, answer, i, content)
  <1> DEFINE named == {k \in DOMAIN answer : answer[k].criterion = rubric[i]}
             e == Entry(rubric, answer, i)
  <1>1. i \in DOMAIN rubric /\ e.met /\ e.quote # "short" /\ e.quote \in content
    BY DEF Met, Quoted
  <1>2. CASE named # {}
    <2>1. \E k \in named : \A m \in named : m <= k
      BY <1>2, Greatest
    <2> DEFINE last == CHOOSE k \in named : \A m \in named : m <= k
    <2>2. last \in named
      BY <2>1
    <2>3. e = answer[last]
      BY <1>2 DEF Entry
    <2> HIDE DEF last, e
    <2> QED
      BY <1>1, <2>2, <2>3 DEF Backs
  <1>3. CASE named = {}
    <2>1. i \in DOMAIN answer /\ e = answer[i]
      BY <1>1, <1>3 DEF Entry, NoEntry
    <2>2. ~Names(answer, rubric[i])
      BY <1>3 DEF Names
    <2> HIDE DEF e
    <2> QED
      BY <1>1, <2>1, <2>2 DEF Backs
  <1> QED
    BY <1>2, <1>3

(* A criterion whose every entry meets it is one that grade() counts.      *)
LEMMA SureIsMet ==
  ASSUME NEW rubric, NEW answer, NEW content, NEW i \in DOMAIN rubric,
         Surely(rubric, answer, i, content),
         Len(answer) \in Nat, DOMAIN answer = 1..Len(answer)
  PROVE  i \in Met(rubric, answer, content)
  <1> DEFINE own == {k \in DOMAIN answer : answer[k].criterion = rubric[i]}
             e == Entry(rubric, answer, i)
             Good(k) == answer[k].met /\ answer[k].quote \in content \ {"short"}
  <1>1. \E k : e = answer[k] /\ Good(k)
    <2>1. CASE own # {}
      <3>1. \E k \in own : \A m \in own : m <= k
        BY <2>1, Greatest
      <3> DEFINE last == CHOOSE k \in own : \A m \in own : m <= k
      <3>2. last \in own
        BY <3>1
      <3>3. e = answer[last]
        BY <2>1 DEF Entry
      <3>4. \A k \in own : Good(k)
        BY <2>1 DEF Surely
      <3> HIDE DEF last, e, Good
      <3> QED
        BY <3>2, <3>3, <3>4
    <2>2. CASE own = {}
      <3>1. i \in DOMAIN answer /\ Good(i)
        BY <2>2 DEF Surely
      <3>2. e = answer[i]
        BY <2>2, <3>1 DEF Entry
      <3> HIDE DEF e, Good
      <3> QED
        BY <3>1, <3>2
    <2> QED
      BY <2>1, <2>2
  <1> HIDE DEF e
  <1>2. e.met /\ e.quote # "short" /\ e.quote \in content
    BY <1>1
  <1> QED
    BY <1>2 DEF Met, Quoted, e

(* A threshold some criteria reach is reached by as many or more.          *)
LEMMA MoreReaches ==
  ASSUME NEW cfg, Valid(cfg), Typed(cfg), cfg.kind = "judge",
         NEW few, NEW many, few \subseteq DOMAIN cfg.rubric, many \subseteq DOMAIN cfg.rubric,
         few \subseteq many \/ ~(Cardinality(few) > Cardinality(many)), Reaches(cfg, few)
  PROVE  Reaches(cfg, many)
  <1> DEFINE n == Len(cfg.rubric)
  <1>1. n \in Nat /\ DOMAIN cfg.rubric = 1..n /\ cfg.threshold \in Int
    BY DEF Valid, Typed
  <1>2. IsFiniteSet(few) /\ IsFiniteSet(many)
    <2>1. IsFiniteSet(1..n) /\ few \subseteq 1..n /\ many \subseteq 1..n
      BY <1>1, FS_Interval
    <2> QED
      BY <2>1, FS_Subset
  <1>3. Cardinality(few) \in Nat /\ Cardinality(many) \in Nat
    BY <1>2, FS_CardinalityType
  <1>4. Cardinality(few) <= Cardinality(many)
    <2>1. few \subseteq many => Cardinality(few) <= Cardinality(many)
      BY <1>2, FS_Subset
    <2> QED
      BY <1>3, <2>1
  <1>5. Cardinality(few) * 100 >= cfg.threshold * n
    BY DEF Reaches
  <1>6. cfg.threshold * n \in Int
    BY <1>1
  <1>7. Cardinality(many) * 100 >= cfg.threshold * n
    BY <1>3, <1>4, <1>5, <1>6
  <1> QED
    BY <1>7 DEF Reaches

(* A score that reaches the threshold is reached by the criteria that are  *)
(* backed, and one that does not is not by those that surely are met.      *)
LEMMA ReachesIsShown ==
  ASSUME NEW cfg, NEW answer, NEW w, Valid(cfg), Typed(cfg), cfg.kind = "judge",
         Len(answer) \in Nat, DOMAIN answer = 1..Len(answer)
  PROVE  /\ Reaches(cfg, Met(cfg.rubric, answer, w.texts[cfg.source])) => Shown(cfg, answer, w)
         /\ SurelyShown(cfg, answer, w) => Reaches(cfg, Met(cfg.rubric, answer, w.texts[cfg.source]))
  <1> DEFINE content == w.texts[cfg.source]
             met == Met(cfg.rubric, answer, content)
             backed == {i \in DOMAIN cfg.rubric : Backs(cfg.rubric, answer, i, content)}
             sure == {i \in DOMAIN cfg.rubric : Surely(cfg.rubric, answer, i, content)}
  <1>1. met \subseteq backed /\ sure \subseteq met
    BY MetIsBacked, SureIsMet
  <1>2. met \subseteq DOMAIN cfg.rubric /\ backed \subseteq DOMAIN cfg.rubric
        /\ sure \subseteq DOMAIN cfg.rubric
    BY DEF Met
  <1>3. (Shown(cfg, answer, w) <=> Reaches(cfg, backed))
        /\ (SurelyShown(cfg, answer, w) <=> Reaches(cfg, sure))
    BY DEF Shown, SurelyShown
  <1> HIDE DEF met, backed, sure
  <1>4. Reaches(cfg, met) => Reaches(cfg, backed)
    BY <1>1, <1>2, MoreReaches
  <1>5. Reaches(cfg, sure) => Reaches(cfg, met)
    BY <1>1, <1>2, MoreReaches
  <1> QED
    BY <1>3, <1>4, <1>5 DEF met

-----------------------------------------------------------------------------
(* The verification as a whole.                                            *)

(* A stored check is one validate_check let through; of a person's checks  *)
(* it requires the approval gates.                                         *)
Sorted(d) == /\ Valid(d) /\ Typed(d)
             /\ d.kind = "human" => (d.required <=> d.mode = "approve")

Local(m) == m = [try |-> m.try, at |-> m.at, content |-> m.content,
                 table |-> m.table, met |-> m.met]
Shape ==
    /\ mem = [i \in Ids |-> mem[i]] /\ step = [i \in Ids |-> step[i]]
    /\ result = [i \in Ids |-> result[i]] /\ given = [i \in Ids |-> given[i]]
    /\ \A i \in Ids : Local(mem[i])

Scene == /\ ws \in seen /\ seen \subseteq Workspaces /\ unlisted \subseteq Ids
         /\ \A i \in Ids : Sorted(checks[i])

(* What a check under way has read is how the world was at some moment,    *)
(* and the score it keeps is that of one of the answers it was given, none *)
(* of which was enough.                                                    *)
UnderWay(i) ==
    /\ step[i] \in {"start", "listing", "first", "second", "reported"}
    /\ step[i] # "start" => checks[i].kind # "human"
    /\ step[i] = "listing" => /\ checks[i].kind = "table"
                              /\ \E w \in seen : w.written /\ mem[i].table = w.table
    /\ Asking(i) => /\ checks[i].kind = "judge"
                    /\ \E w \in seen : mem[i].content = w.texts[checks[i].source]
    /\ step[i] \in {"start", "first"} => given[i] = {}
    /\ step[i] = "second" =>
          /\ \E a \in given[i] : mem[i].met = Met(checks[i].rubric, a, mem[i].content)
          /\ \A a \in given[i] : ~Reaches(checks[i], Met(checks[i].rubric, a, mem[i].content))
    /\ given[i] \subseteq Answers

(* What it reports is earned, a pass as well as a failure.                 *)
Reports(i) ==
    /\ step[i] # "reported" => ~result[i].passed /\ result[i].why = "verdict"
    /\ result[i].passed => Earned(i)
    /\ step[i] = "reported" /\ result[i].why = "verdict" /\ ~result[i].passed => Refuted(i)
    /\ checks[i].kind = "judge" /\ step[i] = "reported" =>
         /\ result[i].passed => \E a \in given[i], w \in seen : Shown(checks[i], a, w)
         /\ result[i].why = "unavailable" => given[i] = {}
         /\ result[i].why = "verdict" => given[i] # {}

CInv == Scene /\ Shape /\ \A i \in Ids : UnderWay(i) /\ Reports(i)

(* Storing a valid draft sorts it.                                         *)
LEMMA StoredIsSorted ==
  ASSUME NEW d, Valid(d), Typed(d)
  PROVE  Sorted(Stored(d))
  <1>1. CASE d.kind = "human"
    <2>1. /\ Stored(d).kind = d.kind /\ Stored(d).mode = d.mode
          /\ DOMAIN Stored(d) = DOMAIN d
          /\ Stored(d).required = (d.mode = "approve")
      BY <1>1 DEF Stored, Typed
    <2> QED
      BY <1>1, <2>1 DEF Sorted, Valid, Typed
  <1>2. CASE d.kind # "human"
    BY <1>2 DEF Stored, Sorted
  <1> QED
    BY <1>1, <1>2

(* A verification begins with what is stored and an empty history.         *)
LEMMA CInit == Init => CInv
  <1> SUFFICES ASSUME Init PROVE CInv
    OBVIOUS
  <1>1. Scene
    <2>1. PICK drafts \in Jobs : /\ \A i \in Ids : Valid(drafts[i])
                                 /\ checks = [i \in Ids |-> Stored(drafts[i])]
      BY DEF Init
    <2>2. \A i \in Ids : Sorted(checks[i])
      BY <2>1, StoredIsSorted, InputsAssumption
    <2> QED
      BY <2>2 DEF Init, Scene
  <1>2. Shape
    BY DEF Init, Shape, Local, Blank
  <1>3. \A i \in Ids : step[i] = "start" /\ given[i] = {} /\ result[i] = Unknown
    BY DEF Init
  <1>4. ASSUME NEW i \in Ids PROVE UnderWay(i) /\ Reports(i)
    BY <1>3 DEF UnderWay, Reports, Unknown, Asking
  <1> QED
    BY <1>1, <1>2, <1>4 DEF CInv

(* What was true of a moment of the world stays true.                      *)
LEMMA MomentsStay ==
  ASSUME UNCHANGED checks, seen \subseteq seen', unlisted \subseteq unlisted',
         NEW i \in Ids, given'[i] = given[i]
  PROVE  (Earned(i) => Earned(i)') /\ (Refuted(i) => Refuted(i)')
  <1> DEFINE cfg == checks[i]
  <1>1. CASE cfg.kind = "sql"
    BY <1>1 DEF Earned, Refuted
  <1>2. CASE cfg.kind = "artifact"
    BY <1>2 DEF Earned, Refuted
  <1>3. CASE cfg.kind = "table"
    BY <1>3 DEF Earned, Refuted
  <1>4. CASE cfg.kind \notin {"sql", "artifact", "table"}
    BY <1>4 DEF Earned, Refuted
  <1> QED
    BY <1>1, <1>2, <1>3, <1>4

(* The world moves on.                                                     *)
LEMMA WorldMoves ==
  ASSUME CInv, UNCHANGED <<checks, step, mem, result, given, unlisted>>,
         seen \subseteq seen', seen' \subseteq Workspaces, ws' \in seen'
  PROVE  CInv'
  <1>1. Scene' /\ Shape'
    BY DEF CInv, Scene, Shape
  <1>2. ASSUME NEW i \in Ids PROVE UnderWay(i)' /\ Reports(i)'
    <2>1. UnderWay(i) /\ Reports(i)
      BY DEF CInv
    <2>2. UnderWay(i)'
      BY <2>1 DEF UnderWay, Asking
    <2>3. (Earned(i) => Earned(i)') /\ (Refuted(i) => Refuted(i)')
      BY MomentsStay
    <2>4. (\E a \in given[i], w \in seen : Shown(checks[i], a, w))
             => (\E a \in given'[i], w \in seen' : Shown(checks'[i], a, w))
      OBVIOUS
    <2> QED
      BY <2>1, <2>2, <2>3, <2>4 DEF Reports
  <1> QED
    BY <1>1, <1>2 DEF CInv

(* A check goes on: the others stay where they are.                        *)
LEMMA OneCheck ==
  ASSUME CInv, NEW i \in Ids, UNCHANGED <<checks, ws, seen>>, Shape',
         unlisted \subseteq unlisted', unlisted' \subseteq Ids,
         \A j \in Ids \ {i} : /\ step'[j] = step[j] /\ mem'[j] = mem[j]
                              /\ result'[j] = result[j] /\ given'[j] = given[j],
         UnderWay(i)', Reports(i)'
  PROVE  CInv'
  <1>1. ASSUME NEW j \in Ids PROVE UnderWay(j)' /\ Reports(j)'
    <2>1. CASE j = i
      BY <2>1
    <2>2. CASE j # i
      <3>1. UnderWay(j) /\ Reports(j)
        BY DEF CInv
      <3>2. (Earned(j) => Earned(j)') /\ (Refuted(j) => Refuted(j)')
        BY <2>2, MomentsStay
      <3>3. UnderWay(j)'
        BY <2>2, <3>1 DEF UnderWay, Asking
      <3>4. Reports(j)'
        BY <2>2, <3>1, <3>2 DEF Reports
      <3> QED
        BY <3>3, <3>4
    <2> QED
      BY <2>1, <2>2
  <1>2. Scene'
    BY DEF CInv, Scene
  <1> QED
    BY <1>1, <1>2 DEF CInv

(* A report is the check's last step.                                      *)
LEMMA Reported ==
  ASSUME CInv, NEW i \in Ids, NEW passed, NEW why, NEW met, Report(i, passed, why, met),
         UNCHANGED <<checks, ws, seen, mem>>, checks[i].kind # "human",
         unlisted \subseteq unlisted', unlisted' \subseteq Ids,
         given' = [j \in Ids |-> given'[j]], \A j \in Ids \ {i} : given'[j] = given[j],
         given'[i] \subseteq Answers,
         passed => Earned(i)',
         ~passed /\ why = "verdict" => Refuted(i)',
         checks[i].kind = "judge" =>
            /\ passed => \E a \in given'[i], w \in seen : Shown(checks[i], a, w)
            /\ why = "unavailable" => given'[i] = {}
            /\ why = "verdict" => given'[i] # {}
  PROVE  CInv'
  <1>1. /\ step'[i] = "reported" /\ result'[i] = [passed |-> passed, why |-> why, met |-> met]
        /\ \A j \in Ids \ {i} : step'[j] = step[j] /\ result'[j] = result[j]
        /\ step' = [j \in Ids |-> step'[j]] /\ result' = [j \in Ids |-> result'[j]]
    BY DEF CInv, Shape, Local, Report
  <1>2. Shape'
    BY <1>1 DEF CInv, Shape, Local
  <1>3. result'[i].passed = passed /\ result'[i].why = why
    BY <1>1
  <1>4. UnderWay(i)'
    BY <1>1 DEF UnderWay, Asking
  <1>5. Reports(i)'
    BY <1>1, <1>3 DEF Reports
  <1> QED
    BY <1>1, <1>2, <1>4, <1>5, OneCheck

(* _check_sql and _check_artifact read the world once and report.          *)
LEMMA ReadersKeep ==
  ASSUME CInv, NEW i \in Ids, CheckSql(i) \/ CheckArtifact(i)
  PROVE  CInv'
  <1>0. /\ Sorted(checks[i]) /\ ws \in seen /\ ws \in Workspaces /\ given' = given
        /\ UNCHANGED <<checks, ws, seen, mem>>
        /\ unlisted \subseteq unlisted' /\ unlisted' \subseteq Ids
        /\ given' = [j \in Ids |-> given'[j]] /\ given'[i] \subseteq Answers
    BY DEF CInv, Scene, Shape, UnderWay, CheckSql, CheckArtifact, Steady, stored, world, history
  <1>1. CASE CheckSql(i)
    <2>1. checks[i].kind = "sql" /\ parse_expect(checks[i].expect)
      BY <1>0, <1>1 DEF CheckSql, Starts, Sorted, Valid
    <2> DEFINE passes == evaluate_expect(ws.cell, checks[i].expect)
    <2>2. passes <=> CellEarned(checks[i].expect, ws.cell)
      BY <1>0, <2>1, CellIsEarned, InputsAssumption DEF Sorted, Typed
    <2>3. (passes => Earned(i)') /\ (~passes => Refuted(i)')
      BY <1>0, <2>1, <2>2 DEF Earned, Refuted
    <2> HIDE DEF passes
    <2>4. \/ \E why \in {"config", "container", "exception"} : Report(i, FALSE, why, {})
          \/ Report(i, passes, "verdict", {})
      BY <1>1 DEF CheckSql, NotRead, passes
    <2>5. ASSUME NEW why \in {"config", "container", "exception"}, Report(i, FALSE, why, {})
          PROVE  CInv'
      BY <1>0, <2>1, <2>5, Reported
    <2>6. CASE Report(i, passes, "verdict", {})
      BY <1>0, <2>1, <2>3, <2>6, Reported
    <2> QED
      BY <2>4, <2>5, <2>6
  <1>2. CASE CheckArtifact(i)
    <2>1. checks[i].kind = "artifact"
      BY <1>2 DEF CheckArtifact, Starts
    <2> DEFINE passes == ArtifactPasses(checks[i], ws.file)
    <2>2. passes <=> FileEarned(checks[i], ws.file)
      BY <1>0, FileIsEarned, InputsAssumption
    <2>3. (passes => Earned(i)') /\ (~passes => Refuted(i)')
      BY <1>0, <2>1, <2>2 DEF Earned, Refuted
    <2> HIDE DEF passes
    <2>4. \/ \E why \in {"config", "container", "exception"} : Report(i, FALSE, why, {})
          \/ Report(i, passes, "verdict", {})
      BY <1>2 DEF CheckArtifact, NotRead, passes
    <2>5. ASSUME NEW why \in {"config", "container", "exception"}, Report(i, FALSE, why, {})
          PROVE  CInv'
      BY <1>0, <2>1, <2>5, Reported
    <2>6. CASE Report(i, passes, "verdict", {})
      BY <1>0, <2>1, <2>3, <2>6, Reported
    <2> QED
      BY <2>4, <2>5, <2>6
  <1> QED
    BY <1>1, <1>2

(* A check that has read and not reported goes on with what it read.       *)
LEMMA GoesOn ==
  ASSUME CInv, NEW i \in Ids, NEW label, NEW local, step[i] # "reported",
         step' = [step EXCEPT ![i] = label], mem' = [mem EXCEPT ![i] = local],
         UNCHANGED <<checks, ws, seen, result, unlisted>>,
         Local(local),
         given' = [j \in Ids |-> given'[j]], \A j \in Ids \ {i} : given'[j] = given[j],
         given'[i] \subseteq Answers, label \in {"listing", "first", "second"},
         label = "listing" => /\ checks[i].kind = "table"
                              /\ \E w \in seen : w.written /\ local.table = w.table,
         label \in {"first", "second"} =>
            /\ checks[i].kind = "judge"
            /\ \E w \in seen : local.content = w.texts[checks[i].source],
         label = "first" => given'[i] = {},
         label = "second" =>
            /\ \E a \in given'[i] : local.met = Met(checks[i].rubric, a, local.content)
            /\ \A a \in given'[i] : ~Reaches(checks[i], Met(checks[i].rubric, a, local.content))
  PROVE  CInv'
  <1>1. /\ step'[i] = label /\ mem'[i] = local
        /\ \A j \in Ids \ {i} : step'[j] = step[j] /\ mem'[j] = mem[j]
        /\ step' = [j \in Ids |-> step'[j]] /\ mem' = [j \in Ids |-> mem'[j]]
    BY DEF CInv, Shape, Local
  <1>2. \A j \in Ids : Local(mem'[j])
    BY <1>1 DEF CInv, Shape, Local
  <1>3. Shape'
    BY <1>1, <1>2 DEF CInv, Shape, Local
  <1>4. checks[i].kind # "human"
    OBVIOUS
  <1>5. UnderWay(i)'
    BY <1>1, <1>4 DEF UnderWay, Asking
  <1>6. Reports(i)'
    BY <1>1 DEF CInv, Reports
  <1>7. unlisted' = unlisted /\ unlisted \subseteq Ids
    BY DEF CInv, Scene
  <1> QED
    BY <1>1, <1>3, <1>5, <1>6, <1>7, OneCheck

(* _check_table keeps what it read, and reports on that and the listing.   *)
LEMMA TableKeeps ==
  ASSUME CInv, NEW i \in Ids, ReadTable(i) \/ CheckTable(i)
  PROVE  CInv'
  <1>0. /\ Sorted(checks[i]) /\ ws \in seen /\ ws \in Workspaces /\ given' = given
        /\ UNCHANGED <<checks, ws, seen>> /\ UnderWay(i) /\ seen \subseteq Workspaces
        /\ unlisted \subseteq unlisted' /\ unlisted' \subseteq Ids
        /\ given' = [j \in Ids |-> given'[j]] /\ given'[i] \subseteq Answers
    BY DEF CInv, Scene, Shape, UnderWay, ReadTable, CheckTable, Steady, stored, world, history
  <1>1. CASE ReadTable(i)
    <2>1. /\ checks[i].kind = "table" /\ safe_rel_path(checks[i].path) /\ step[i] = "start"
          /\ UNCHANGED unlisted
      BY <1>0, <1>1 DEF ReadTable, Starts, Sorted, Valid, history
    <2> DEFINE local == [mem[i] EXCEPT !.table = ws.table]
    <2>2. CASE UNCHANGED mem /\ Report(i, FALSE, "container", {})
      BY <1>0, <2>1, <2>2, Reported
    <2>3. CASE UNCHANGED mem /\ ~ws.written /\ Report(i, FALSE, "verdict", {})
      <3>1. Refuted(i)'
        BY <1>0, <2>1, <2>3 DEF Refuted
      <3> QED
        BY <1>0, <2>1, <2>3, <3>1, Reported
    <2>4. CASE /\ ws.written /\ mem' = [mem EXCEPT ![i].table = ws.table]
               /\ step' = [step EXCEPT ![i] = "listing"] /\ UNCHANGED result
      <3>1. local.table = ws.table
            /\ Local(local)
        BY DEF CInv, Shape, Local
      <3>2. mem' = [mem EXCEPT ![i] = local]
        BY <2>4
      <3> HIDE DEF local
      <3> QED
        BY <1>0, <2>1, <2>4, <3>1, <3>2, GoesOn
    <2> QED
      BY <1>1, <2>1, <2>2, <2>3, <2>4 DEF ReadTable
  <1>2. CASE CheckTable(i)
    <2>1. checks[i].kind = "table" /\ UNCHANGED mem
      BY <1>0, <1>2 DEF CheckTable, UnderWay
    <2>2. PICK w \in seen : w.written /\ mem[i].table = w.table
      BY <1>0, <1>2 DEF CheckTable, UnderWay
    <2>3. CASE Report(i, FALSE, "exception", {})
      BY <1>0, <2>1, <2>3, Reported
    <2>4. ASSUME NEW files, Report(i, TablePasses(checks[i], w.table, files), "verdict", {}),
                 files = ws.files \/ (files = {} /\ i \in unlisted')
          PROVE  CInv'
      <3> DEFINE passes == TablePasses(checks[i], w.table, files)
      <3>1. passes <=> TableEarned(checks[i], w.table) /\ Covered(checks[i], w.table, files)
        BY <1>0, <2>1, TableIsEarned, InputsAssumption DEF Sorted, Typed
      <3>2. files = {} => Covered(checks[i], w.table, files)
        BY DEF Covered
      <3>3. passes => Earned(i)'
        BY <1>0, <2>1, <2>2, <2>4, <3>1 DEF Earned
      <3>4. ~passes => Refuted(i)'
        BY <1>0, <2>1, <2>4, <3>1, <3>2 DEF Refuted
      <3>5. Report(i, passes, "verdict", {})
        BY <2>4
      <3> HIDE DEF passes
      <3> QED
        BY <1>0, <2>1, <3>3, <3>4, <3>5, Reported
    <2>5. \/ Report(i, FALSE, "exception", {})
          \/ Report(i, TablePasses(checks[i], w.table, ws.files), "verdict", {})
          \/ Report(i, TablePasses(checks[i], w.table, {}), "verdict", {}) /\ i \in unlisted'
      BY <1>2, <2>2 DEF CheckTable, TableVerdict
    <2> QED
      BY <2>3, <2>4, <2>5
  <1> QED
    BY <1>1, <1>2

(* A judge whose answers show less than the threshold in what it read      *)
(* fails.                                                                  *)
LEMMA NotEnough ==
  ASSUME CInv, NEW i \in Ids, UNCHANGED <<checks, seen>>, checks[i].kind = "judge",
         given'[i] \subseteq Answers,
         \E w \in seen : mem[i].content = w.texts[checks[i].source],
         \A a \in given'[i] : ~Reaches(checks[i], Met(checks[i].rubric, a, mem[i].content))
  PROVE  Refuted(i)'
  <1>1. PICK w \in seen : mem[i].content = w.texts[checks[i].source]
    OBVIOUS
  <1>2. Valid(checks[i]) /\ Typed(checks[i])
    BY DEF CInv, Scene, Sorted
  <1>3. ASSUME NEW a \in given'[i] PROVE ~SurelyShown(checks[i], a, w)
    <2>1. Len(a) \in Nat /\ DOMAIN a = 1..Len(a)
      BY <1>3, InputsAssumption
    <2> QED
      BY <1>1, <1>2, <1>3, <2>1, ReachesIsShown
  <1> QED
    BY <1>1, <1>3 DEF Refuted

(* A judge that asks again keeps what it read and the score it has.        *)
LEMMA AsksAgain ==
  ASSUME CInv, NEW i \in Ids, Asking(i), NEW local, mem' = [mem EXCEPT ![i] = local],
         UNCHANGED <<checks, ws, seen, unlisted, given, step, result>>,
         Local(local), local.content = mem[i].content, local.met = mem[i].met
  PROVE  CInv'
  <1>1. /\ step' = [step EXCEPT ![i] = step[i]] /\ given' = [j \in Ids |-> given'[j]]
        /\ UnderWay(i)
    BY DEF CInv, Shape
  <1>2. step[i] \in {"first", "second"}
    BY DEF Asking
  <1>3. /\ checks[i].kind = "judge" /\ given'[i] \subseteq Answers
        /\ \E w \in seen : local.content = w.texts[checks[i].source]
    BY <1>1 DEF UnderWay
  <1>4. step[i] = "first" => given'[i] = {}
    BY <1>1 DEF UnderWay
  <1>5. step[i] = "second" =>
           /\ \E a \in given'[i] : local.met = Met(checks[i].rubric, a, local.content)
           /\ \A a \in given'[i] : ~Reaches(checks[i], Met(checks[i].rubric, a, local.content))
    BY <1>1 DEF UnderWay
  <1> QED
    BY <1>1, <1>2, <1>3, <1>4, <1>5, GoesOn

(* A judge that gets no answer says so, or keeps the score of the answer   *)
(* it has.                                                                 *)
LEMMA UnansweredKeeps ==
  ASSUME CInv, NEW i \in Ids, Asking(i), Unanswered(i), UNCHANGED history, Steady
  PROVE  CInv'
  <1>0. /\ Sorted(checks[i]) /\ UnderWay(i) /\ seen \subseteq Workspaces
        /\ UNCHANGED <<checks, ws, seen, unlisted>>
        /\ unlisted \subseteq unlisted' /\ unlisted' \subseteq Ids
        /\ given' = [j \in Ids |-> given'[j]] /\ given'[i] \subseteq Answers
        /\ checks[i].kind = "judge" /\ given' = given
    BY DEF CInv, Scene, Shape, UnderWay, Steady, stored, world, history
  <1>1. CASE mem[i].try < 2
    <2> DEFINE local == [mem[i] EXCEPT !.try = 2, !.at = 1]
    <2>1. /\ local.content = mem[i].content /\ local.met = mem[i].met
          /\ Local(local)
      <3> DEFINE again == [mem[i] EXCEPT !.try = 2]
      <3>1. local = [again EXCEPT !.at = 1]
        OBVIOUS
      <3>2. Local(again) /\ again.content = mem[i].content /\ again.met = mem[i].met
        BY DEF CInv, Shape, Local
      <3> HIDE DEF local, again
      <3> QED
        BY <3>1, <3>2 DEF Local
    <2>2. mem' = [mem EXCEPT ![i] = local] /\ UNCHANGED <<step, result>>
      BY <1>1 DEF Unanswered
    <2> HIDE DEF local
    <2> QED
      BY <1>0, <2>1, <2>2, AsksAgain
  <1>2. CASE ~(mem[i].try < 2)
    <2>1. UNCHANGED mem
      BY <1>2 DEF Unanswered
    <2>2. CASE step[i] = "first"
      <3>1. Report(i, FALSE, "unavailable", {}) /\ given[i] = {}
        BY <1>0, <1>2, <2>2 DEF Unanswered, UnderWay
      <3> QED
        BY <1>0, <2>1, <3>1, Reported
    <2>3. CASE step[i] = "second"
      <3>1. PICK a \in given[i] : mem[i].met = Met(checks[i].rubric, a, mem[i].content)
        BY <1>0, <2>3 DEF UnderWay
      <3>2. /\ \E w \in seen : mem[i].content = w.texts[checks[i].source]
            /\ \A b \in given[i] : ~Reaches(checks[i], Met(checks[i].rubric, b, mem[i].content))
        BY <1>0, <2>3 DEF UnderWay
      <3>3. ~Reaches(checks[i], mem[i].met) /\ Refuted(i)'
        BY <1>0, <3>1, <3>2, NotEnough
      <3> DEFINE passes == Reaches(checks[i], mem[i].met)
      <3>4. Report(i, passes, "verdict", mem[i].met) /\ ~passes
        BY <1>2, <2>3, <3>3 DEF Unanswered
      <3> HIDE DEF passes
      <3> QED
        BY <1>0, <2>1, <3>1, <3>3, <3>4, Reported
    <2> QED
      BY <2>2, <2>3 DEF Asking
  <1> QED
    BY <1>1, <1>2

(* _check_judge reads what it judges, and asks one provider after another. *)
LEMMA AsksKeep ==
  ASSUME CInv, NEW i \in Ids,
         \/ ReadOutput(i) \/ NoProvider(i) \/ ProviderFails(i)
         \/ ProviderBreaks(i) \/ AnswerBreaks(i) \/ JudgeRambles(i)
  PROVE  CInv'
  <1>0. /\ Sorted(checks[i]) /\ UnderWay(i) /\ seen \subseteq Workspaces /\ ws \in seen
        /\ UNCHANGED <<checks, ws, seen, unlisted, given>> /\ given[i] \subseteq Answers
        /\ unlisted \subseteq unlisted' /\ unlisted' \subseteq Ids
        /\ given = [j \in Ids |-> given[j]] /\ checks[i].kind = "judge"
    BY DEF CInv, Scene, Shape, UnderWay, Steady, stored, world, history, ReadOutput, NoProvider,
           ProviderFails, ProviderBreaks, AnswerBreaks, Raises, JudgeRambles, Starts
  <1>1. CASE ReadOutput(i)
    <2> DEFINE content == ws.texts[checks[i].source]
               local   == [mem[i] EXCEPT !.content = content]
    <2>1. step[i] = "start" /\ given[i] = {}
      BY <1>0, <1>1 DEF ReadOutput, Starts, UnderWay
    <2>2. CASE Report(i, FALSE, "nothing", {}) /\ UNCHANGED mem
      BY <1>0, <2>1, <2>2, Reported
    <2>3. CASE /\ mem' = [mem EXCEPT ![i].content = content]
               /\ step' = [step EXCEPT ![i] = "first"] /\ UNCHANGED result
      <3>1. /\ local.content = content
            /\ Local(local)
        BY DEF CInv, Shape, Local
      <3>2. mem' = [mem EXCEPT ![i] = local]
        BY <2>3
      <3> HIDE DEF local
      <3> QED
        BY <1>0, <2>1, <2>3, <3>1, <3>2, GoesOn
    <2> QED
      BY <1>1, <2>2, <2>3 DEF ReadOutput
  <1>2. CASE NoProvider(i) \/ JudgeRambles(i)
    BY <1>2, UnansweredKeeps DEF NoProvider, JudgeRambles
  <1>3. CASE ProviderFails(i)
    <2>1. CASE Unanswered(i)
      BY <1>3, <2>1, UnansweredKeeps DEF ProviderFails
    <2>2. CASE ~Unanswered(i)
      <3> DEFINE local == [mem[i] EXCEPT !.at = mem[i].at + 1]
      <3>1. /\ mem' = [mem EXCEPT ![i] = local] /\ UNCHANGED <<step, result, given>>
        BY <1>0, <1>3, <2>2 DEF ProviderFails, CInv, Shape
      <3>2. /\ local.content = mem[i].content /\ local.met = mem[i].met
            /\ Local(local)
        BY DEF CInv, Shape, Local
      <3>3. Asking(i)
        BY <1>3 DEF ProviderFails
      <3> HIDE DEF local
      <3> QED
        BY <1>0, <3>1, <3>2, <3>3, AsksAgain
    <2> QED
      BY <2>1, <2>2
  <1>4. CASE ProviderBreaks(i) \/ AnswerBreaks(i)
    <2>1. Report(i, FALSE, "exception", {}) /\ UNCHANGED mem
      BY <1>4 DEF ProviderBreaks, AnswerBreaks, Raises
    <2> QED
      BY <1>0, <2>1, Reported
  <1> QED
    BY <1>1, <1>2, <1>3, <1>4

(* The better of two scores is one of them, and not enough only when the   *)
(* new one is not.                                                         *)
LEMMA BetterIs ==
  ASSUME NEW cfg, Valid(cfg), Typed(cfg), cfg.kind = "judge", NEW old, NEW new,
         old \subseteq DOMAIN cfg.rubric, new \subseteq DOMAIN cfg.rubric
  PROVE  /\ Better(old, new) \in {old, new}
         /\ Reaches(cfg, new) => Reaches(cfg, Better(old, new))
  <1>1. ~(Cardinality(new) > Cardinality(old)) /\ Reaches(cfg, new) => Reaches(cfg, old)
    BY MoreReaches
  <1> QED
    BY <1>1 DEF Better

(* _check_judge keeps the output it read and the better of two scores.     *)
LEMMA AnswersKeep ==
  ASSUME CInv, NEW i \in Ids, JudgeAnswers(i)
  PROVE  CInv'
  <1>0. /\ Sorted(checks[i]) /\ UnderWay(i) /\ seen \subseteq Workspaces /\ ws \in seen
        /\ UNCHANGED <<checks, ws, seen, unlisted>> /\ given[i] \subseteq Answers
        /\ unlisted \subseteq unlisted' /\ unlisted' \subseteq Ids
        /\ given = [j \in Ids |-> given[j]] /\ checks[i].kind = "judge"
    BY DEF CInv, Scene, Shape, UnderWay, Steady, stored, world, JudgeAnswers
  <1> DEFINE cfg == checks[i]
             content == mem[i].content
             Score(a) == Met(cfg.rubric, a, content)
  <1>1. step[i] \in {"first", "second"}
    BY DEF JudgeAnswers, Asking
  <1>2. PICK w \in seen : content = w.texts[cfg.source]
    BY <1>0, <1>1 DEF UnderWay, Asking
  <1>3. PICK answer \in Answers :
          LET new == Met(cfg.rubric, answer, content)
              met == IF step[i] = "first" THEN new ELSE Better(mem[i].met, new)
          IN /\ given' = [given EXCEPT ![i] = @ \cup {answer}]
             /\ IF /\ step[i] = "first" /\ Sloppy(cfg.rubric, answer, content)
                   /\ ~Reaches(cfg, met)
                THEN /\ mem' = [mem EXCEPT ![i] = [@ EXCEPT !.try = 1, !.at = 1, !.met = met]]
                     /\ step' = [step EXCEPT ![i] = "second"] /\ UNCHANGED result
                ELSE Report(i, Reaches(cfg, met), "verdict", met) /\ UNCHANGED mem
    BY DEF JudgeAnswers
  <1> DEFINE new == Score(answer)
             met == IF step[i] = "first" THEN new ELSE Better(mem[i].met, new)
             again == step[i] = "first" /\ Sloppy(cfg.rubric, answer, content) /\ ~Reaches(cfg, met)
  <1>4. /\ given'[i] = given[i] \cup {answer} /\ given' = [j \in Ids |-> given'[j]]
        /\ \A j \in Ids \ {i} : given'[j] = given[j]
        /\ given'[i] \subseteq Answers
    BY <1>0, <1>3
  <1>5. \E a \in given'[i] : met = Score(a)
    <2>1. CASE step[i] = "first"
      BY <1>4, <2>1
    <2>2. CASE step[i] # "first"
      <3>1. PICK a \in given[i] : mem[i].met = Score(a)
        BY <1>0, <1>1, <2>2 DEF UnderWay
      <3>2. met = new \/ met = mem[i].met
        BY <2>2 DEF Better
      <3> QED
        BY <1>4, <3>1, <3>2
    <2> QED
      BY <2>1, <2>2
  <1>6. ~Reaches(cfg, met) => \A a \in given'[i] : ~Reaches(cfg, Score(a))
    <2>1. CASE step[i] = "first"
      <3>1. given'[i] = {answer} /\ met = Score(answer)
        BY <1>0, <1>4, <2>1 DEF UnderWay
      <3> QED
        BY <3>1
    <2>2. CASE step[i] # "first"
      <3>1. PICK a \in given[i] : mem[i].met = Score(a)
        BY <1>0, <1>1, <2>2 DEF UnderWay
      <3>2. \A b \in given[i] : ~Reaches(cfg, Score(b))
        BY <1>0, <1>1, <2>2 DEF UnderWay
      <3>3. \A b : Score(b) \subseteq DOMAIN cfg.rubric
        BY DEF Met
      <3>4. Valid(cfg) /\ Typed(cfg)
        BY <1>0 DEF Sorted
      <3>5. mem[i].met \subseteq DOMAIN cfg.rubric /\ Score(answer) \subseteq DOMAIN cfg.rubric
        BY <3>1, <3>3
      <3>6. met = Better(mem[i].met, Score(answer))
        BY <2>2
      <3> HIDE DEF met, Score
      <3>7. Reaches(cfg, Score(answer)) => Reaches(cfg, met)
        BY <1>0, <3>4, <3>5, <3>6, BetterIs
      <3> QED
        BY <1>4, <3>2, <3>7
    <2> QED
      BY <2>1, <2>2
  <1>7. CASE again
    <2> DEFINE local == [mem[i] EXCEPT !.try = 1, !.at = 1, !.met = met]
    <2>1. mem' = [mem EXCEPT ![i] = local] /\ step' = [step EXCEPT ![i] = "second"]
          /\ UNCHANGED result
      BY <1>3, <1>7
    <2>2. \A a \in given'[i] : ~Reaches(cfg, Score(a))
      BY <1>6, <1>7
    <2> HIDE DEF met
    <2> HIDE DEF again
    <2>3. /\ local.content = content /\ local.met = met
          /\ Local(local)
      <3> DEFINE l1 == [mem[i] EXCEPT !.try = 1]
                 l2 == [l1 EXCEPT !.at = 1]
      <3>1. local = [l2 EXCEPT !.met = met]
        OBVIOUS
      <3>2. Local(l1) /\ l1.content = content
        BY DEF CInv, Shape, Local
      <3> HIDE DEF local, l1
      <3>3. Local(l2) /\ l2.content = content
        BY <3>2 DEF Local
      <3> HIDE DEF l2
      <3> QED
        BY <3>1, <3>3 DEF Local
    <2> HIDE DEF local
    <2> QED
      BY <1>0, <1>1, <1>2, <1>4, <1>5, <2>1, <2>2, <2>3, GoesOn
  <1>8. CASE ~again
    <2> DEFINE passes == Reaches(cfg, met)
    <2>1. Report(i, passes, "verdict", met) /\ UNCHANGED mem
      BY <1>3, <1>8
    <2>2. ~passes => Refuted(i)'
      <3> HIDE DEF met, again
      <3> QED
        BY <1>0, <1>2, <1>4, <1>6, NotEnough
    <2> HIDE DEF met, again
    <2>3. PICK a \in given'[i] : met = Score(a)
      BY <1>5
    <2>4. Len(a) \in Nat /\ DOMAIN a = 1..Len(a)
      BY <1>4, InputsAssumption
    <2>5. passes => Shown(cfg, a, w)
      BY <1>0, <1>2, <2>3, <2>4, ReachesIsShown DEF Sorted
    <2>6. Earned(i)'
      BY <1>0 DEF Earned
    <2> HIDE DEF passes
    <2> QED
      BY <1>0, <1>4, <2>1, <2>2, <2>5, <2>6, Reported
  <1> QED
    BY <1>7, <1>8

-----------------------------------------------------------------------------
(* A verdict is drawn when every automatic check has reported, and none of *)
(* them is under way again after it.                                       *)
Drawn == verdict.is # "none" => \A i \in Automatic : step[i] = "reported"

(* Every step keeps what is under way and what was reported.               *)
LEMMA CStep ==
  ASSUME CInv, [Next]_vars
  PROVE  CInv'
  <1>1. CASE AgentWrites
    <2>1. /\ UNCHANGED <<checks, step, mem, result, given, unlisted>>
          /\ seen' = seen \cup {ws'} /\ ws' \in Workspaces /\ seen \subseteq Workspaces
      BY <1>1 DEF AgentWrites, stored, history, CInv, Scene
    <2> QED
      BY <2>1, WorldMoves
  <1>2. CASE SourceRemoved
    <2>1. /\ UNCHANGED <<checks, step, mem, result, given, unlisted, seen, ws>>
          /\ ws \in seen /\ seen \subseteq Workspaces
      BY <1>2 DEF SourceRemoved, stored, history, CInv, Scene
    <2> QED
      BY <2>1, WorldMoves
  <1>3. CASE Conclude \/ UNCHANGED vars
    <2>1. /\ UNCHANGED <<checks, step, mem, result, given, unlisted, seen, ws>>
          /\ ws \in seen /\ seen \subseteq Workspaces
      BY <1>3 DEF Conclude, vars, stored, world, history, CInv, Scene
    <2> QED
      BY <2>1, WorldMoves
  <1>4. ASSUME NEW i \in Ids, Check(i) PROVE CInv'
    <2>1. CASE CheckSql(i) \/ CheckArtifact(i)
      BY <2>1, ReadersKeep
    <2>2. CASE ReadTable(i) \/ CheckTable(i)
      BY <2>2, TableKeeps
    <2>3. CASE \/ ReadOutput(i) \/ NoProvider(i) \/ ProviderFails(i)
               \/ ProviderBreaks(i) \/ AnswerBreaks(i) \/ JudgeRambles(i)
      BY <2>3, AsksKeep
    <2>4. CASE JudgeAnswers(i)
      BY <2>4, AnswersKeep
    <2> QED
      BY <1>4, <2>1, <2>2, <2>3, <2>4 DEF Check
  <1> QED
    BY <1>1, <1>2, <1>3, <1>4 DEF Next

(* Only an automatic check that has not reported takes a step.             *)
LEMMA StillOpen ==
  ASSUME CInv, NEW i \in Ids, Check(i)
  PROVE  i \in Automatic /\ step[i] # "reported" /\ UNCHANGED verdict
  <1>1. UnderWay(i)
    BY DEF CInv
  <1>2. step[i] # "reported" /\ UNCHANGED verdict /\ checks[i].kind # "human"
    BY <1>1 DEF Check, Steady, Starts, Asking, UnderWay, CheckSql, CheckArtifact, ReadTable,
                CheckTable, ReadOutput, NoProvider, ProviderFails, ProviderBreaks, AnswerBreaks,
                Raises, JudgeRambles, JudgeAnswers
  <1> QED
    BY <1>2 DEF Automatic, Human

(* What verify_outcome makes of the results: the checks it calls required  *)
(* are those that were asked for, a required one has passed, and the       *)
(* receipt names the weakest of their proofs.                              *)
LEMMA WeakestIsWeakest ==
  ASSUME NEW ids, NEW i \in ids, \A j \in ids : j \in Ids
  PROVE  Rank(Strength(checks[i].kind)) <= Rank(Weakest(Strengths(ids)))
  <1>1. Strength(checks[i].kind) \in Strengths(ids)
    BY DEF Strengths
  <1>2. \A kind : Strength(kind) \in {"verified", "judged", "accepted"}
    BY DEF Strength
  <1>3. Strength(checks[i].kind) \in {"verified", "judged", "accepted"}
    BY <1>2
  <1> DEFINE s == Strength(checks[i].kind)
             all == Strengths(ids)
  <1> HIDE DEF s, all
  <1>4. s \in all /\ s \in {"verified", "judged", "accepted"} => Rank(s) <= Rank(Weakest(all))
    BY DEF Rank, Weakest
  <1> QED
    BY <1>1, <1>3, <1>4 DEF s, all

LEMMA RequiredIsAskedFor ==
  ASSUME CInv
  PROVE  Required = AskedFor
  <1>1. ASSUME NEW i \in Ids PROVE (i \in Required) <=> (i \in AskedFor)
    <2>1. Human(i) => (checks[i].required <=> checks[i].mode = "approve")
      BY DEF CInv, Scene, Sorted, Human
    <2> QED
      BY <2>1 DEF Required, AskedFor, IsGate
  <1> QED
    BY <1>1 DEF Required, AskedFor

LEMMA ConcludesSoundly ==
  ASSUME CInv, Conclude
  PROVE  DeliveredIsProven'
  <1>1. /\ verdict'.is = Verdict /\ verdict'.strength = Weakest(Strengths(Required))
        /\ UNCHANGED <<checks, job, result>>
    BY DEF Conclude, stored
  <1> SUFFICES ASSUME Verdict = "delivered"
               PROVE  DeliveredIsProven'
    BY <1>1 DEF DeliveredIsProven
  <1>2. Required # {} /\ \A i \in Required : Passed(i)
    BY DEF Verdict
  <1>3. AskedFor' = AskedFor
    BY <1>1 DEF AskedFor, Human
  <1>4. ASSUME NEW i \in AskedFor
        PROVE  /\ IF Human(i) THEN job.approved ELSE result[i].passed
               /\ Rank(Strength(checks[i].kind)) <= Rank(verdict'.strength)
    <2>1. i \in Required /\ Passed(i)
      BY <1>2, RequiredIsAskedFor
    <2>2. IF Human(i) THEN job.approved ELSE result[i].passed
      BY <2>1 DEF Passed, Required
    <2>3. \A j \in Required : j \in Ids
      BY DEF Required
    <2>4. Rank(Strength(checks[i].kind)) <= Rank(Weakest(Strengths(Required)))
      BY <2>1, <2>3, WeakestIsWeakest
    <2> QED
      BY <1>1, <2>2, <2>4
  <1> QED
    BY <1>1, <1>2, <1>3, <1>4, RequiredIsAskedFor DEF DeliveredIsProven, Human

LEMMA VerdictStep ==
  ASSUME CInv, Drawn, DeliveredIsProven, [Next]_vars
  PROVE  Drawn' /\ DeliveredIsProven'
  <1>1. CASE Conclude
    <2>1. Drawn'
      BY <1>1 DEF Conclude, Drawn, Automatic, Human, stored
    <2> QED
      BY <1>1, <2>1, ConcludesSoundly
  <1>2. ASSUME NEW i \in Ids, Check(i) PROVE Drawn' /\ DeliveredIsProven'
    <2>1. verdict.is = "none" /\ UNCHANGED verdict
      BY <1>2, StillOpen DEF Drawn
    <2> QED
      BY <2>1 DEF Drawn, DeliveredIsProven
  <1>3. CASE AgentWrites \/ SourceRemoved \/ UNCHANGED vars
    <2>1. UNCHANGED <<checks, job, step, result, verdict>>
      BY <1>3 DEF AgentWrites, SourceRemoved, vars, stored
    <2> QED
      BY <2>1 DEF Drawn, DeliveredIsProven, AskedFor, Human, Automatic
  <1> QED
    BY <1>1, <1>2, <1>3 DEF Next

-----------------------------------------------------------------------------
(* Types.                                                                  *)

(* What a check may report, and what it may remember of the judge.         *)
LEMMA ReportTyped ==
  ASSUME CInv', CInv, TypeOK, NEW i \in Ids, NEW passed, NEW why, NEW met,
         Report(i, passed, why, met), UNCHANGED mem, Steady,
         passed \in BOOLEAN, why \in Whys, passed => why = "verdict",
         checks[i].kind = "judge" => met \subseteq DOMAIN checks[i].rubric
  PROVE  TypeOK'
  <1>1. /\ result'[i] = [passed |-> passed, why |-> why, met |-> met]
        /\ \A j \in Ids \ {i} : result'[j] = result[j]
        /\ UNCHANGED <<checks, configured, connected, verdict, mem>>
        /\ unlisted' \subseteq Ids
    BY DEF CInv, Scene, Shape, Report, Steady, stored, world
  <1>2. result'[i].passed = passed /\ result'[i].why = why /\ result'[i].met = met
    BY <1>1
  <1>3. ws' \in seen' /\ seen' \subseteq Workspaces /\ \A j \in Ids : Valid(checks'[j])
    BY DEF CInv, Scene, Sorted
  <1>4. \A j \in Ids : step'[j] \in {"start", "listing", "first", "second", "reported"}
    BY DEF CInv, UnderWay
  <1>5. ASSUME NEW j \in Ids
        PROVE  /\ mem'[j].try \in 1..2 /\ mem'[j].at \in Nat \ {0}
               /\ result'[j].passed \in BOOLEAN /\ result'[j].why \in Whys
               /\ result'[j].passed => result'[j].why = "verdict"
               /\ checks'[j].kind = "judge" =>
                     result'[j].met \cup mem'[j].met \subseteq DOMAIN checks'[j].rubric
    <2>1. CASE j = i
      BY <1>1, <1>2, <2>1 DEF TypeOK
    <2>2. CASE j # i
      BY <1>1, <2>2 DEF TypeOK
    <2> QED
      BY <2>1, <2>2
  <1>6. /\ configured' \subseteq {Providers[k] : k \in DOMAIN Providers}
        /\ connected' \in BOOLEAN
        /\ verdict' \in [is : {"none", "delivered", "waiting", "unavailable", "failed"},
                         strength : {"verified", "judged", "accepted"}]
    BY <1>1 DEF TypeOK
  <1> QED
    BY <1>1, <1>3, <1>4, <1>5, <1>6 DEF TypeOK

LEMMA MemoryTyped ==
  ASSUME CInv', CInv, TypeOK, NEW i \in Ids, NEW local,
         mem' = [mem EXCEPT ![i] = local], UNCHANGED result, Steady,
         local.try \in 1..2, local.at \in Nat \ {0},
         checks[i].kind = "judge" => local.met \subseteq DOMAIN checks[i].rubric
  PROVE  TypeOK'
  <1>1. /\ mem'[i] = local /\ \A j \in Ids \ {i} : mem'[j] = mem[j]
        /\ UNCHANGED <<checks, configured, connected, verdict, result>>
        /\ unlisted' \subseteq Ids
    BY DEF CInv, Scene, Shape, Steady, stored, world
  <1>2. ws' \in seen' /\ seen' \subseteq Workspaces /\ \A j \in Ids : Valid(checks'[j])
    BY DEF CInv, Scene, Sorted
  <1>3. \A j \in Ids : step'[j] \in {"start", "listing", "first", "second", "reported"}
    BY DEF CInv, UnderWay
  <1>4. ASSUME NEW j \in Ids
        PROVE  /\ mem'[j].try \in 1..2 /\ mem'[j].at \in Nat \ {0}
               /\ result'[j].passed \in BOOLEAN /\ result'[j].why \in Whys
               /\ result'[j].passed => result'[j].why = "verdict"
               /\ checks'[j].kind = "judge" =>
                     result'[j].met \cup mem'[j].met \subseteq DOMAIN checks'[j].rubric
    BY <1>1 DEF TypeOK
  <1>5. /\ configured' \subseteq {Providers[k] : k \in DOMAIN Providers}
        /\ connected' \in BOOLEAN
        /\ verdict' \in [is : {"none", "delivered", "waiting", "unavailable", "failed"},
                         strength : {"verified", "judged", "accepted"}]
    BY <1>1 DEF TypeOK
  <1> QED
    BY <1>1, <1>2, <1>3, <1>4, <1>5 DEF TypeOK

(* A verdict on the world is true or false.                                *)
LEMMA VerdictsAreBoolean ==
  /\ \A cell, e : evaluate_expect(cell, e) \in BOOLEAN
  /\ \A cfg, file : ArtifactPasses(cfg, file) \in BOOLEAN
  /\ \A cfg, t, files : TablePasses(cfg, t, files) \in BOOLEAN
  /\ \A cfg, met : Reaches(cfg, met) \in BOOLEAN
  <1>1. ASSUME NEW cell, NEW e PROVE evaluate_expect(cell, e) \in BOOLEAN
    <2>1. CASE e.op \in {"nonempty", "true", "between"}
      <3>1. CASE e.op = "nonempty"
        BY <3>1 DEF evaluate_expect, Comparators
      <3>2. CASE e.op = "true"
        <4> DEFINE holds == cell.text \in {"t", "true", "1", "yes"}
        <4>1. evaluate_expect(cell, e) = holds /\ holds \in BOOLEAN
          BY <3>2 DEF evaluate_expect, Comparators
        <4> QED
          BY <4>1
      <3>3. CASE e.op = "between"
        <4> DEFINE holds == cell.is = "number" /\ e.low <= cell.n /\ cell.n <= e.n
        <4>1. evaluate_expect(cell, e) = holds /\ holds \in BOOLEAN
          BY <3>3 DEF evaluate_expect, Comparators
        <4> QED
          BY <4>1
      <3> QED
        BY <2>1, <3>1, <3>2, <3>3
    <2>2. CASE e.op \in Comparators
      <3> DEFINE holds == /\ cell.is = "number"
                          /\ e.op \in {">=", ">", "!="}      \/ cell.n <= e.n
                          /\ e.op \in {"<=", "<", "!="}      \/ cell.n >= e.n
                          /\ e.op \in {"<=", ">=", "==", "="} \/ cell.n # e.n
      <3>1. holds \in BOOLEAN
        OBVIOUS
      <3>2. e.op \notin {"nonempty", "true", "between"}
        BY <2>2 DEF Comparators
      <3>3. evaluate_expect(cell, e) = holds
        BY <2>2, <3>2 DEF evaluate_expect, Comparators
      <3> QED
        BY <3>1, <3>3
    <2>3. CASE e.op \notin Comparators \cup {"nonempty", "true", "between"}
      <3>1. evaluate_expect(cell, e) = FALSE
        BY <2>3 DEF evaluate_expect, Comparators
      <3> QED
        BY <3>1
    <2> QED
      BY <2>1, <2>2, <2>3
  <1>2. \A cfg, file : ArtifactPasses(cfg, file) \in BOOLEAN
    BY DEF ArtifactPasses
  <1>3. \A cfg, t, files : TablePasses(cfg, t, files) \in BOOLEAN
    BY DEF TablePasses
  <1>4. \A cfg, met : Reaches(cfg, met) \in BOOLEAN
    BY DEF Reaches
  <1> QED
    BY <1>1, <1>2, <1>3, <1>4

LEMMA UnansweredTyped ==
  ASSUME CInv', CInv, TypeOK, NEW i \in Ids, Unanswered(i), Asking(i), Steady
  PROVE  TypeOK'
  <1>1. /\ Local(mem[i]) /\ checks[i].kind = "judge"
        /\ mem[i].met \subseteq DOMAIN checks[i].rubric
    BY DEF CInv, Shape, UnderWay, TypeOK
  <1>2. CASE mem[i].try < 2
    <2> DEFINE again == [mem[i] EXCEPT !.try = 2]
               local == [again EXCEPT !.at = 1]
    <2>1. mem' = [mem EXCEPT ![i] = local] /\ UNCHANGED result
      BY <1>2 DEF Unanswered
    <2>2. Local(again) /\ again.try = 2 /\ again.met = mem[i].met
      BY <1>1 DEF Local
    <2> HIDE DEF again
    <2>3. local.try = 2 /\ local.at = 1 /\ local.met = mem[i].met
      BY <2>2 DEF Local
    <2>4. /\ local.try \in 1..2 /\ local.at \in Nat \ {0}
          /\ checks[i].kind = "judge" => local.met \subseteq DOMAIN checks[i].rubric
      BY <1>1, <2>3
    <2> HIDE DEF local
    <2> QED
      BY <2>1, <2>4, MemoryTyped
  <1>3. CASE ~(mem[i].try < 2)
    <2> DEFINE met == mem[i].met
               passes == Reaches(checks[i], met)
    <2>1. /\ UNCHANGED mem
          /\ Report(i, FALSE, "unavailable", {}) \/ Report(i, passes, "verdict", met)
      BY <1>3 DEF Unanswered
    <2>2. passes \in BOOLEAN
      BY VerdictsAreBoolean
    <2>5. met \subseteq DOMAIN checks[i].rubric /\ {} \subseteq DOMAIN checks[i].rubric
      BY <1>1
    <2>6. {"verdict", "unavailable"} \subseteq Whys
      BY DEF Whys
    <2> HIDE DEF passes, met
    <2>3. CASE Report(i, FALSE, "unavailable", {})
      BY <2>1, <2>3, <2>5, <2>6, ReportTyped
    <2>4. CASE Report(i, passes, "verdict", met)
      BY <2>1, <2>2, <2>4, <2>5, <2>6, ReportTyped
    <2> QED
      BY <2>1, <2>3, <2>4
  <1> QED
    BY <1>2, <1>3

LEMMA AnswersTyped ==
  ASSUME CInv', CInv, TypeOK, NEW i \in Ids, JudgeAnswers(i)
  PROVE  TypeOK'
  <1>1. /\ Local(mem[i]) /\ checks[i].kind = "judge" /\ Steady
        /\ mem[i].met \subseteq DOMAIN checks[i].rubric
    BY DEF CInv, Shape, UnderWay, TypeOK, JudgeAnswers
  <1> DEFINE cfg == checks[i]
  <1>2. PICK answer \in Answers :
          LET new == Met(cfg.rubric, answer, mem[i].content)
              met == IF step[i] = "first" THEN new ELSE Better(mem[i].met, new)
          IN \/ /\ mem' = [mem EXCEPT ![i] = [@ EXCEPT !.try = 1, !.at = 1, !.met = met]]
                /\ UNCHANGED result
             \/ Report(i, Reaches(cfg, met), "verdict", met) /\ UNCHANGED mem
    BY DEF JudgeAnswers
  <1> DEFINE new == Met(cfg.rubric, answer, mem[i].content)
             met == IF step[i] = "first" THEN new ELSE Better(mem[i].met, new)
  <1>3. met \subseteq DOMAIN cfg.rubric
    <2>1. new \subseteq DOMAIN cfg.rubric
      BY DEF Met
    <2> HIDE DEF new
    <2> QED
      BY <1>1, <2>1 DEF Better
  <1>4. CASE /\ mem' = [mem EXCEPT ![i] = [@ EXCEPT !.try = 1, !.at = 1, !.met = met]]
             /\ UNCHANGED result
    <2> HIDE DEF met
    <2> DEFINE l1 == [mem[i] EXCEPT !.try = 1]
               l2 == [l1 EXCEPT !.at = 1]
               local == [l2 EXCEPT !.met = met]
    <2>1. mem' = [mem EXCEPT ![i] = local] /\ UNCHANGED result
      BY <1>4
    <2>2. Local(l1) /\ l1.try = 1
      BY <1>1 DEF Local
    <2> HIDE DEF l1
    <2>3. Local(l2) /\ l2.try = 1 /\ l2.at = 1
      BY <2>2 DEF Local
    <2> HIDE DEF l2
    <2>4. local.try = 1 /\ local.at = 1 /\ local.met = met
      BY <2>3 DEF Local
    <2>5. /\ local.try \in 1..2 /\ local.at \in Nat \ {0}
          /\ checks[i].kind = "judge" => local.met \subseteq DOMAIN checks[i].rubric
      BY <1>3, <2>4
    <2> HIDE DEF local
    <2> QED
      BY <1>1, <2>1, <2>5, MemoryTyped
  <1>5. CASE Report(i, Reaches(cfg, met), "verdict", met) /\ UNCHANGED mem
    <2> HIDE DEF met
    <2> DEFINE passes == Reaches(cfg, met)
    <2>1. passes \in BOOLEAN /\ Report(i, passes, "verdict", met)
      BY <1>5, VerdictsAreBoolean
    <2> HIDE DEF passes
    <2> QED
      BY <1>1, <1>3, <1>5, <2>1, ReportTyped DEF Whys
  <1> QED
    BY <1>2, <1>4, <1>5

LEMMA ReadersTyped ==
  ASSUME CInv', CInv, TypeOK, NEW i \in Ids,
         CheckSql(i) \/ CheckArtifact(i) \/ ReadTable(i) \/ CheckTable(i) \/ ReadOutput(i)
  PROVE  TypeOK'
  <1>1. Steady /\ Local(mem[i])
    BY DEF CheckSql, CheckArtifact, ReadTable, CheckTable, ReadOutput, CInv, Shape
  <1>2. ASSUME NEW passed \in BOOLEAN, NEW why \in Whys, passed => why = "verdict",
               Report(i, passed, why, {}), UNCHANGED mem
        PROVE  TypeOK'
    BY <1>1, <1>2, ReportTyped
  <1>3. "verdict" \in Whys /\ "config" \in Whys /\ "container" \in Whys
        /\ "exception" \in Whys /\ "nothing" \in Whys
    BY DEF Whys
  <1>4. CASE CheckSql(i)
    <2> DEFINE passes == evaluate_expect(ws.cell, checks[i].expect)
    <2>1. passes \in BOOLEAN
      BY VerdictsAreBoolean
    <2>2. /\ UNCHANGED mem
          /\ \/ Report(i, FALSE, "config", {}) \/ Report(i, FALSE, "container", {})
             \/ Report(i, FALSE, "exception", {}) \/ Report(i, passes, "verdict", {})
      BY <1>4 DEF CheckSql, NotRead
    <2> HIDE DEF passes
    <2> QED
      BY <1>2, <1>3, <2>1, <2>2
  <1>5. CASE CheckArtifact(i)
    <2> DEFINE passes == ArtifactPasses(checks[i], ws.file)
    <2>1. passes \in BOOLEAN
      BY VerdictsAreBoolean
    <2>2. /\ UNCHANGED mem
          /\ \/ Report(i, FALSE, "config", {}) \/ Report(i, FALSE, "container", {})
             \/ Report(i, FALSE, "exception", {}) \/ Report(i, passes, "verdict", {})
      BY <1>5 DEF CheckArtifact, NotRead
    <2> HIDE DEF passes
    <2> QED
      BY <1>2, <1>3, <2>1, <2>2
  <1>6. CASE CheckTable(i)
    <2>1. PICK files \in {ws.files, {}} :
             \/ Report(i, FALSE, "exception", {})
             \/ Report(i, TablePasses(checks[i], mem[i].table, files), "verdict", {})
      BY <1>6 DEF CheckTable, TableVerdict
    <2> DEFINE passes == TablePasses(checks[i], mem[i].table, files)
    <2>2. passes \in BOOLEAN
      BY VerdictsAreBoolean
    <2>3. /\ UNCHANGED mem
          /\ Report(i, FALSE, "exception", {}) \/ Report(i, passes, "verdict", {})
      BY <1>6, <2>1 DEF CheckTable
    <2> HIDE DEF passes
    <2> QED
      BY <1>2, <1>3, <2>2, <2>3
  <1>7. CASE ReadTable(i)
    <2> DEFINE local == [mem[i] EXCEPT !.table = ws.table]
    <2>1. \/ /\ UNCHANGED mem
             /\ \E why \in {"config", "container", "verdict"} : Report(i, FALSE, why, {})
          \/ mem' = [mem EXCEPT ![i] = local] /\ UNCHANGED result
      BY <1>7 DEF ReadTable
    <2>2. local.try = mem[i].try /\ local.at = mem[i].at /\ local.met = mem[i].met
      BY <1>1 DEF Local
    <2>3. local.try \in 1..2 /\ local.at \in Nat \ {0}
          /\ (checks[i].kind = "judge" => local.met \subseteq DOMAIN checks[i].rubric)
      BY <2>2 DEF TypeOK
    <2> HIDE DEF local
    <2>4. CASE mem' = [mem EXCEPT ![i] = local] /\ UNCHANGED result
      BY <1>1, <2>3, <2>4, MemoryTyped
    <2> QED
      BY <1>2, <1>3, <2>1, <2>4
  <1>8. CASE ReadOutput(i)
    <2> DEFINE local == [mem[i] EXCEPT !.content = ws.texts[checks[i].source]]
    <2>1. \/ UNCHANGED mem /\ Report(i, FALSE, "nothing", {})
          \/ mem' = [mem EXCEPT ![i] = local] /\ UNCHANGED result
      BY <1>8 DEF ReadOutput
    <2>2. local.try = mem[i].try /\ local.at = mem[i].at /\ local.met = mem[i].met
      BY <1>1 DEF Local
    <2>3. local.try \in 1..2 /\ local.at \in Nat \ {0}
          /\ (checks[i].kind = "judge" => local.met \subseteq DOMAIN checks[i].rubric)
      BY <2>2 DEF TypeOK
    <2> HIDE DEF local
    <2>4. CASE mem' = [mem EXCEPT ![i] = local] /\ UNCHANGED result
      BY <1>1, <2>3, <2>4, MemoryTyped
    <2> QED
      BY <1>2, <1>3, <2>1, <2>4
  <1> QED
    BY <1>4, <1>5, <1>6, <1>7, <1>8

LEMMA TypeStep ==
  ASSUME CInv', CInv, TypeOK, [Next]_vars
  PROVE  TypeOK'
  <1>1. CASE AgentWrites \/ SourceRemoved \/ UNCHANGED vars
    <2>1. /\ UNCHANGED <<checks, configured, step, mem, result, verdict>>
          /\ connected' \in BOOLEAN
      BY <1>1 DEF AgentWrites, SourceRemoved, vars, stored, world, TypeOK
    <2>2. ws' \in seen' /\ seen' \subseteq Workspaces /\ unlisted' \subseteq Ids
      BY DEF CInv, Scene
    <2> QED
      BY <2>1, <2>2 DEF TypeOK
  <1>2. CASE Conclude
    <2>1. /\ UNCHANGED <<checks, configured, step, mem, result, ws, seen, connected, unlisted>>
          /\ verdict' = [is |-> Verdict, strength |-> Weakest(Strengths(Required))]
      BY <1>2 DEF Conclude, stored, world, history
    <2>2. /\ Verdict \in {"none", "delivered", "waiting", "unavailable", "failed"}
          /\ Weakest(Strengths(Required)) \in {"verified", "judged", "accepted"}
      BY DEF Verdict, Weakest
    <2> QED
      BY <2>1, <2>2 DEF TypeOK
  <1>3. ASSUME NEW i \in Ids, Check(i) PROVE TypeOK'
    <2>1. CASE NoProvider(i) \/ JudgeRambles(i)
      BY <2>1, UnansweredTyped DEF NoProvider, JudgeRambles
    <2>2. CASE ProviderFails(i)
      <3>1. CASE Unanswered(i)
        BY <2>2, <3>1, UnansweredTyped DEF ProviderFails
      <3>2. CASE ~Unanswered(i)
        <4> DEFINE local == [mem[i] EXCEPT !.at = mem[i].at + 1]
        <4>1. /\ mem' = [mem EXCEPT ![i] = local] /\ UNCHANGED result
              /\ Steady /\ Local(mem[i])
          BY <2>2, <3>2 DEF ProviderFails, CInv, Shape
        <4>2. local.try = mem[i].try /\ local.at = mem[i].at + 1 /\ local.met = mem[i].met
          BY <4>1 DEF Local
        <4> HIDE DEF local
        <4>3. /\ local.try \in 1..2 /\ local.at \in Nat \ {0}
              /\ checks[i].kind = "judge" => local.met \subseteq DOMAIN checks[i].rubric
          BY <4>2 DEF TypeOK
        <4> QED
          BY <4>1, <4>3, MemoryTyped
      <3> QED
        BY <3>1, <3>2
    <2>3. CASE JudgeAnswers(i)
      BY <2>3, AnswersTyped
    <2>4. CASE ProviderBreaks(i) \/ AnswerBreaks(i)
      <3>1. /\ Report(i, FALSE, "exception", {}) /\ UNCHANGED mem /\ Steady
            /\ "exception" \in Whys /\ FALSE \in BOOLEAN
            /\ {} \subseteq DOMAIN checks[i].rubric
        BY <2>4 DEF ProviderBreaks, AnswerBreaks, Raises, Whys
      <3> QED
        BY <3>1, ReportTyped
    <2> QED
      BY <1>3, <2>1, <2>2, <2>3, <2>4, ReadersTyped DEF Check
  <1> QED
    BY <1>1, <1>2, <1>3 DEF Next

-----------------------------------------------------------------------------
(* Every check under way holds what the world was at some moment, and what *)
(* it has reported is earned, in every state a verification reaches        *)
(* (verify.py, run_checks).                                                *)
THEOREM Invariance == Spec => []CInv
  <1>1. Init => CInv
    BY CInit
  <1>2. CInv /\ [Next]_vars => CInv'
    BY CStep
  <1> QED
    BY <1>1, <1>2, PTL DEF Spec

(* Checks, results and verdicts keep their types.                          *)
THEOREM TypesKept == Spec => []TypeOK
  <1>1. Init => TypeOK
    <2> SUFFICES ASSUME Init PROVE TypeOK
      OBVIOUS
    <2>1. CInv
      BY CInit
    <2>2. /\ ws \in seen /\ seen \subseteq Workspaces /\ unlisted \subseteq Ids
          /\ \A i \in Ids : Valid(checks[i])
      BY <2>1 DEF CInv, Scene, Sorted
    <2>3. /\ configured \subseteq {Providers[k] : k \in DOMAIN Providers}
          /\ connected = TRUE /\ verdict = [is |-> "none", strength |-> "verified"]
      BY DEF Init
    <2>4. \A i \in Ids : step[i] = "start" /\ mem[i] = Blank /\ result[i] = Unknown
      BY DEF Init
    <2>5. /\ Blank.try = 1 /\ Blank.at = 1 /\ Blank.met = {}
          /\ Unknown.passed = FALSE /\ Unknown.why = "verdict" /\ Unknown.met = {}
      BY DEF Blank, Unknown
    <2>6. ASSUME NEW i \in Ids
          PROVE  /\ step[i] \in {"start", "listing", "first", "second", "reported"}
                 /\ mem[i].try \in 1..2 /\ mem[i].at \in Nat \ {0}
                 /\ result[i].passed \in BOOLEAN /\ result[i].why \in Whys
                 /\ result[i].passed => result[i].why = "verdict"
                 /\ result[i].met \cup mem[i].met = {}
      <3>1. mem[i].try \in 1..2 /\ mem[i].at \in Nat \ {0} /\ mem[i].met = {}
        BY <2>4, <2>5
      <3>2. result[i].passed \in BOOLEAN /\ ~result[i].passed
        <4>1. result[i].passed = FALSE
          BY <2>4, <2>5
        <4> QED
          BY <4>1, Zenon
      <3>3. result[i].why \in Whys
        BY <2>4, <2>5 DEF Whys
      <3>4. result[i].met = {} /\ step[i] = "start"
        BY <2>4, <2>5
      <3> QED
        BY <3>1, <3>2, <3>3, <3>4
    <2>7. \A i \in Ids : checks[i].kind = "judge" =>
             result[i].met \cup mem[i].met \subseteq DOMAIN checks[i].rubric
      BY <2>6
    <2>8. connected \in BOOLEAN
          /\ verdict \in [is : {"none", "delivered", "waiting", "unavailable", "failed"},
                          strength : {"verified", "judged", "accepted"}]
      BY <2>3
    <2> HIDE DEF Whys
    <2> QED
      BY <2>2, <2>3, <2>6, <2>7, <2>8 DEF TypeOK
  <1>2. CInv' /\ CInv /\ TypeOK /\ [Next]_vars => TypeOK'
    BY TypeStep
  <1> QED
    BY <1>1, <1>2, Invariance, PTL DEF Spec

(* A check that passed holds of the real system as it was at some moment   *)
(* of this verification, whoever wrote meanwhile, with every rule it can   *)
(* carry; a coverage rule unless its listing failed (verify.py, _check_sql,*)
(* _check_artifact, _check_table; tablecheck.py, check).                   *)
THEOREM PassEarned == Spec => []PassIsEarned
  <1>1. CInv => PassIsEarned
    BY DEF CInv, Reports, PassIsEarned, Automatic
  <1> QED
    BY <1>1, Invariance, PTL

(* A check that fails by its verdict did not hold at some moment, and a    *)
(* judge fails only when no answer it was given surely reaches the         *)
(* threshold (verify.py, the same functions, grade and _check_judge).      *)
THEOREM FailEarned == Spec => []FailIsEarned
  <1>1. CInv => FailIsEarned
    BY DEF CInv, Reports, FailIsEarned, Automatic
  <1> QED
    BY <1>1, Invariance, PTL

(* A judge passes on one of the answers it was given, each criterion with  *)
(* an entry that quotes the output, and is unavailable only when nobody    *)
(* answered (verify.py, grade and _check_judge).                           *)
THEOREM Judged == Spec => []JudgedOnEvidence
  <1>1. CInv => JudgedOnEvidence
    BY DEF CInv, Reports, JudgedOnEvidence
  <1> QED
    BY <1>1, Invariance, PTL

(* A delivered outcome has every check asked of it passed or approved, at  *)
(* least one of them, and a receipt no stronger than its weakest proof     *)
(* (app/outcomes.py, verify_outcome).                                      *)
THEOREM DeliveryProven == Spec => []DeliveredIsProven
  <1>1. Init => Drawn /\ DeliveredIsProven
    BY DEF Init, Drawn, DeliveredIsProven
  <1>2. CInv /\ Drawn /\ DeliveredIsProven /\ [Next]_vars => (Drawn /\ DeliveredIsProven)'
    BY VerdictStep
  <1> QED
    BY <1>1, <1>2, Invariance, PTL DEF Spec

=============================================================================
