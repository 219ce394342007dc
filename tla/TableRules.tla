----------------------------- MODULE TableRules -----------------------------
(***************************************************************************)
(* `table` checks (app/tablecheck.py): rules over a CSV file the agent     *)
(* wrote.  Amounts are integers of cents.  A cell is its value and its     *)
(* text as a key; a rule is the tree the whitelist allows, cut to two      *)
(* levels: comparisons of terms, joined by and / or.                       *)
(***************************************************************************)
EXTENDS Integers, Sequences, FiniteSets

(* What a node of a rule evaluates to.  Error is a RuleError; Crash is any *)
(* other exception, which tablecheck.check does not catch.                 *)
Number(n) == [is |-> "number", n |-> n, text |-> ""]
Words(t)  == [is |-> "text",   n |-> 0, text |-> t]
Nothing   == [is |-> "none",   n |-> 0, text |-> ""]
Error     == [is |-> "error",  n |-> 0, text |-> ""]
Crash     == [is |-> "crash",  n |-> 0, text |-> ""]
Broken(v) == v.is \in {"error", "crash"}

(* An atom is a column name or a constant.                                 *)
Atom(a, row) ==
    IF a.is # "column" THEN a
    ELSE IF a.text \in DOMAIN row THEN row[a.text].value ELSE Nothing

(* \div is only defined for divisors above zero.                          *)
Quotient(x, y) == IF y > 0 THEN x \div y ELSE (-x) \div (-y)

(* _val of a BinOp: both sides must be numbers; a division by zero crashes *)
Arithmetic(op, a, b) ==
    IF a.is # "number" \/ b.is # "number" THEN Error
    ELSE CASE op = "+" -> Number(a.n + b.n)
           [] op = "-" -> Number(a.n - b.n)
           [] op = "*" -> Number((a.n * b.n) \div 100)
           [] op = "/" -> IF b.n = 0 THEN Crash ELSE Number(Quotient(a.n * 100, b.n))

Term(t, row) ==
    IF t.op = "atom" THEN Atom(t.a, row)
    ELSE Arithmetic(t.op, Atom(t.a, row), Atom(t.b, row))

(* _cmp: numbers are equal within a cent.  Whether two amounts exactly one *)
(* cent apart are is a matter of floating point: `cent`.  A number is      *)
(* compared with text by its printed form ("12.0"), which no text of the   *)
(* instances spells.                                                       *)
Gap(x, y) == IF x < y THEN y - x ELSE x - y
Close(a, b, cent) == a.n = b.n \/ (cent /\ Gap(a.n, b.n) = 1)

Printed(v) == IF v.is = "number" THEN "a number" ELSE v.text

Holds(op, a, b, cent) ==
    LET eq == Close(a, b, cent) IN
    CASE op = "==" -> eq
      [] op = "!=" -> ~eq
      [] op = "<"  -> a.n < b.n /\ ~eq
      [] op = "<=" -> a.n <= b.n \/ eq
      [] op = ">"  -> a.n > b.n /\ ~eq
      [] op = ">=" -> a.n >= b.n \/ eq

Comparison(c, row, cent) ==
    LET a == Term(c.left, row)  b == Term(c.right, row) IN
    IF Broken(a) THEN a.is ELSE IF Broken(b) THEN b.is
    ELSE IF a.is = "number" /\ b.is = "number"
         THEN IF Holds(c.op, a, b, cent) THEN "true" ELSE "false"
    ELSE IF c.op \notin {"==", "!="} THEN "error"
    ELSE IF (Printed(a) = Printed(b)) = (c.op = "==") THEN "true" ELSE "false"

(* evaluate: a BoolOp evaluates every value before it joins them, so one   *)
(* that raises raises for the rule, whatever the others are.               *)
Rule(r, row, cent) ==
    LET values == [i \in DOMAIN r.parts |-> Comparison(r.parts[i], row, cent)]
        raised == {i \in DOMAIN values : values[i] \in {"error", "crash"}}
        true   == {i \in DOMAIN values : values[i] = "true"}
    IN  IF raised # {} THEN values[CHOOSE i \in raised : \A k \in raised : i <= k]
        ELSE IF (IF r.join = "and" THEN true = DOMAIN values ELSE true # {})
             THEN "true" ELSE "false"

(* applies: the rows the rules are about; a `where` that cannot be read    *)
(* selects the row.  No `where` is a rule without parts.                   *)
Where(cfg, row, cent) == Rule(cfg.where, row, cent)
AppliesReadable(cfg, row, cent) == Where(cfg, row, cent) = "true"     \* a mutant
Applies(cfg, row, cent) == Where(cfg, row, cent) # "false"

(* What the program's types and parse_rule guarantee: amounts are numbers, *)
(* and a comparison is one of the six between terms of the whitelist.      *)
RowTyped(row)  == \A c \in DOMAIN row : row[c].value.n \in Int
TermTyped(t)   == /\ t.op \in {"atom", "+", "-", "*", "/"}
                  /\ t.a.n \in Int /\ t.b.n \in Int
PartTyped(c)   == /\ c.op \in {"==", "!=", "<", "<=", ">", ">="}
                  /\ TermTyped(c.left) /\ TermTyped(c.right)
RuleTyped(r)   == /\ DOMAIN r.parts \subseteq Nat
                  /\ \A i \in DOMAIN r.parts : PartTyped(r.parts[i])
TableTyped(t)  == /\ t.cent \in BOOLEAN
                  /\ Len(t.rows) \in Nat /\ DOMAIN t.rows = 1..Len(t.rows)
                  /\ \A i \in DOMAIN t.rows : RowTyped(t.rows[i])

-----------------------------------------------------------------------------
(* check: the verdict on a table [cols, rows, cent], given the names in    *)
(* the directory it must cover.  An empty field of cfg asks for nothing.   *)
Missing(cfg, t) == cfg.columns \ t.cols
Selected(cfg, t) == {i \in DOMAIN t.rows : Applies(cfg, t.rows[i], t.cent)}

Key(row, c)     == IF c \in DOMAIN row THEN row[c].key ELSE ""
KeyOf(cfg, row) == [c \in cfg.unique |-> Key(row, c)]
Duplicates(cfg, t) ==
    {i \in Selected(cfg, t) : \E k \in Selected(cfg, t) :
        k < i /\ KeyOf(cfg, t.rows[k]) = KeyOf(cfg, t.rows[i])}

HasRule(cfg) == cfg.row_rule.parts # <<>>
BadRows(cfg, t) ==
    {i \in Selected(cfg, t) : Rule(cfg.row_rule, t.rows[i], t.cent) # "true"}

Absent(cfg, t, files) ==
    {f \in files \cap cfg.pattern :
        \A i \in DOMAIN t.rows : cfg.column \notin DOMAIN t.rows[i]
                                 \/ t.rows[i][cfg.column].key # f}

(* A crash of a rule leaves check() altogether.                            *)
Crashes(cfg, t) ==
    /\ Missing(cfg, t) = {}
    /\ \E i \in DOMAIN t.rows :
         \/ (cfg.unique # {} \/ HasRule(cfg)) /\ Where(cfg, t.rows[i], t.cent) = "crash"
         \/ /\ HasRule(cfg) /\ Applies(cfg, t.rows[i], t.cent)
            /\ Rule(cfg.row_rule, t.rows[i], t.cent) = "crash"

TablePasses(cfg, t, files) ==
    /\ Missing(cfg, t) = {}
    /\ Len(t.rows) >= cfg.min_rows
    /\ cfg.unique # {} => Duplicates(cfg, t) = {}
    /\ HasRule(cfg) => BadRows(cfg, t) = {}
    /\ cfg.covers => Absent(cfg, t, files) = {}
=============================================================================
