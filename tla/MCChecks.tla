------------------------------ MODULE MCChecks ------------------------------
(* Instances of Checks for TLC: amounts are cents.                         *)
EXTENDS Checks, TLC

CONSTANTS p1, p2, c1, c2        \* model values

Registry == <<p1, p2>>

-----------------------------------------------------------------------------
Column(c) == [is |-> "column", n |-> 0, text |-> c]
One(a) == [op |-> "atom", a |-> a, b |-> a]
Part(left, op, right) == [left |-> left, op |-> op, right |-> right]
Every(parts) == [join |-> "and", parts |-> parts]
Some(parts) == [join |-> "or", parts |-> parts]
NoRule == Every(<<>>)

Sum    == [op |-> "+", a |-> Column("net"), b |-> Column("gst")]
Adds   == Every(<<Part(Sum, "==", One(Column("total")))>>)
Rate   == Every(<<Part([op |-> "/", a |-> Column("gst"), b |-> Column("net")], "<=", One(Number(10)))>>)
Either == Some(<<Part(One(Column("status")), "==", One(Words("ok"))),
                Part(One(Column("net")), ">", One(Number(0)))>>)
Ok     == Every(<<Part(One(Column("status")), "==", One(Words("ok")))>>)
Paid   == Every(<<Part(One(Column("net")), ">", One(Number(0)))>>)

Table == [kind |-> "table", path |-> "inside", required |-> TRUE, columns |-> {"net"},
          unique |-> {}, row_rule |-> NoRule, where |-> NoRule, min_rows |-> -1,
          covers |-> FALSE, pattern |-> {}, column |-> "id"]
Sql == [kind |-> "sql", required |-> TRUE, query |-> "select",
        expect |-> [op |-> "between", low |-> 1, n |-> 9]]
File == [kind |-> "artifact", required |-> TRUE, path |-> "inside", non_empty |-> TRUE,
         modified_since_start |-> TRUE, contains |-> {}, last_line_matches |-> {"end"},
         line_regex |-> {"row"}, ts_after_start |-> TRUE, captures |-> TRUE]
Log  == [File EXCEPT !.non_empty = FALSE, !.modified_since_start = FALSE,
                     !.contains = {"row"}, !.last_line_matches = {}, !.line_regex = {"end"}]
Ending(pattern) == [Log EXCEPT !.last_line_matches = {pattern}, !.line_regex = {}]
Judge == [kind |-> "judge", required |-> TRUE, rubric |-> <<c1, c2>>, threshold |-> 80,
          source |-> "outbox"]
Gate == [kind |-> "human", required |-> TRUE, mode |-> "approve"]

Readers == {
    Sql, [Sql EXCEPT !.expect.op = ">", !.required = FALSE],
    [Sql EXCEPT !.expect.op = "around"], [Sql EXCEPT !.query = "update"],
    File, [File EXCEPT !.captures = FALSE], [File EXCEPT !.contains = {"not text"}],
    Log, Ending("end"), Ending("anything"), [Ending("anything") EXCEPT !.contains = {}],
    [Table EXCEPT !.row_rule = Adds, !.where = Ok, !.unique = {"id"}],
    [Table EXCEPT !.row_rule = Either, !.where = Paid, !.unique = {"id"}],
    [Table EXCEPT !.row_rule = Rate], [Table EXCEPT !.unique = {"id"}], [Table EXCEPT !.min_rows = 3],
    [Table EXCEPT !.covers = TRUE, !.pattern = {"a", "b"}]}
Judges == {Judge, [Judge EXCEPT !.threshold = 50, !.source = "file"], [Judge EXCEPT !.threshold = 0]}
Gates  == {Gate, [Gate EXCEPT !.mode = "sample"]}

\* A check that reads with a judge or a person's check, and a judge with a person's.
SomeJobs == {<<x, y>> : x \in Readers, y \in Gates} \cup {<<Sql, y>> : y \in Judges}
            \cup {<<Judge, y>> : y \in Gates} \cup {<<File, Judge>>, <<Gate, Gate>>}

-----------------------------------------------------------------------------
Money(n) == [value |-> Number(n), key |-> "amount"]
Name(t)  == [value |-> Words(t), key |-> t]
Row(id, net, gst, total, status) ==
    "id" :> Name(id) @@ "net" :> net @@ "gst" :> gst @@ "total" :> total @@ "status" :> Name(status)
Right == Row("a", Money(100), Money(10), Money(110), "ok")
Cent  == Row("b", Money(100), Money(10), Money(111), "ok")
Again == Row("a", Money(0), Money(10), Money(10), "duplicate")
Vague == Row("a", Name("n/a"), Money(10), Money(10), "ok")

Sheet(rows, cent) == [cols |-> {"id", "net", "gst", "total", "status"}, rows |-> rows, cent |-> cent]
Text(n, t) == [is |-> IF t = "" THEN "none" ELSE "number", n |-> n, text |-> t]
Line(m, ts) == [matches |-> m \cup {"anything"}, ts |-> ts, blank |-> FALSE]
Blanks == [matches |-> {"anything"}, ts |-> "none", blank |-> TRUE]

Fresh == [cell |-> Text(5, "5"), written |-> TRUE, table |-> Sheet(<<Right, Cent>>, TRUE), files |-> {"a", "b"},
          file |-> [exists |-> TRUE, size |-> 9, recent |-> TRUE,
                    lines |-> <<Line({"row"}, "naive"), Line({"row", "end"}, "during"), Blanks>>],
          texts |-> [outbox |-> {"q1", "q2", "short"}, file |-> {"q1"}]]
Stale == [Fresh EXCEPT !.cell = Text(10, "10"), !.table = Sheet(<<Right, Again, Cent>>, FALSE),
          !.file.recent = FALSE, !.file.lines = <<Line({"end"}, "before"), Line({"row"}, "naive")>>,
          !.files = {"a", "b", "c"}, !.texts.outbox = {"q2"}]
Odd   == [Fresh EXCEPT !.cell = Text(0, ""), !.table = Sheet(<<Right, Vague>>, TRUE),
          !.file.size = 0, !.file.lines = <<>>, !.texts.outbox = {}]
Bare  == [Odd EXCEPT !.written = FALSE, !.file.exists = FALSE, !.cell = Text(9, "9")]
SomeWorkspaces == {Fresh, Stale, Odd, Bare}

Says(c, met, q) == [criterion |-> c, met |-> met, quote |-> q]
SomeAnswers == {
    <<>>, <<Says(c1, TRUE, "q1"), Says(c2, TRUE, "q2")>>,
    <<Says(c1, TRUE, "q1"), Says(c2, TRUE, "misquote")>>,
    <<Says(c2, TRUE, "q2"), Says(c1, FALSE, "none")>>,
    <<Says(c2, TRUE, "q2")>>,
    <<Says("other", TRUE, "q2"), Says("other", TRUE, "short")>>,
    <<Says(c1, TRUE, "q1"), Says(c1, FALSE, "none"), Says(c2, TRUE, "q2")>>}
=============================================================================
