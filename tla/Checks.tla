------------------------------- MODULE Checks -------------------------------
(***************************************************************************)
(* The verification of one outcome's automatic checks (app/verify.py):     *)
(* run_checks gathers one run_check per check; a check reads the agent's   *)
(* workspace or the organisation's data source from throwaway containers,  *)
(* a judge asks the configured model providers (app/llm.py) one after      *)
(* another.  Nothing stops the agent's other runs from writing to the      *)
(* workspace meanwhile.                                                    *)
(***************************************************************************)
EXTENDS TableRules

CONSTANTS
    Ids,            \* the positions of the checks of the job
    Jobs,           \* definitions of done, as an owner or the planner hands
                    \*   them in: a draft of a check per position
    Workspaces,     \* what the workspace and the data source can look like
    Providers,      \* the registry, in its order
    Default,        \* DEFAULT_PROVIDER
    JudgeProvider,  \* JUDGE_PROVIDER, which may name none of the registry
    Answers,        \* the judge's answers that are JSON
    MaxWrites       \* bound: changes of the workspace or of the data sources

ASSUME ChecksAssumption == MaxWrites \in Nat

VARIABLES
    checks,     \* the stored check of each position
    ws,         \* the workspace and the data source
    connected,  \* the data source is registered in the organisation
    configured, \* the providers whose key is set
    job,        \* is the outcome live (gated), has a person approved this attempt
    step,       \* where each check is
    mem,        \* the local variables of each check
    result,     \* what each check reported
    verdict,    \* what the engine makes of the results
    writes,
    seen,       \* history: what ws has been since the verification began
    given,      \* history: the answers each judge was given
    unlisted    \* history: table checks that could not list their directory

stored  == <<checks, configured, job>>
world   == <<ws, connected, writes, seen>>
history == <<given, unlisted>>
vars    == <<stored, world, history, step, mem, result, verdict>>

-----------------------------------------------------------------------------
(* validate_check: what may be stored, and how it is normalised.           *)
Comparators == {">=", "<=", "==", "=", "!=", ">", "<"}

parse_expect(e) == e.op \in {"nonempty", "true", "between"} \cup Comparators
validate_select(query) == query = "select"
safe_rel_path(path) == path = "inside"

Valid(d) ==
    /\ d.kind \in {"sql", "artifact", "table", "judge", "human"}
    /\ d.kind = "sql" => validate_select(d.query) /\ parse_expect(d.expect)
    /\ d.kind = "judge" => Len(d.rubric) \in 1..10 /\ d.threshold \in 1..100
    /\ d.kind \in {"artifact", "table"} => safe_rel_path(d.path)
    /\ d.kind = "table" => \/ d.columns # {} \/ d.unique # {} \/ HasRule(d) \/ d.covers
                           \/ d.where.parts # <<>> \/ d.min_rows >= 0
    /\ d.kind = "human" => d.mode \in {"approve", "sample"}

Stored(d) == IF d.kind = "human" THEN [d EXCEPT !.required = (d.mode = "approve")] ELSE d

(* A draft is a record with the fields of its kind, an amount is a number, *)
(* and what json.loads makes of an answer is a list.                       *)
Typed(d) ==
    /\ {"kind", "required"} \subseteq DOMAIN d
    /\ d.kind = "human" => "mode" \in DOMAIN d
    /\ d.kind = "sql"   => d.expect.low \in Int /\ d.expect.n \in Int
    /\ d.kind = "judge" => DOMAIN d.rubric = 1..Len(d.rubric) /\ d.threshold \in Int
    /\ d.kind = "table" => /\ RuleTyped(d.row_rule) /\ RuleTyped(d.where)
                           /\ d.min_rows \in Int
ASSUME InputsAssumption ==
    /\ \A drafts \in Jobs : \A i \in Ids : Typed(drafts[i])
    /\ \A w \in Workspaces :
         /\ w.cell.n \in Int /\ TableTyped(w.table)
         /\ Len(w.file.lines) \in Nat /\ DOMAIN w.file.lines = 1..Len(w.file.lines)
    /\ \A answer \in Answers : Len(answer) \in Nat /\ DOMAIN answer = 1..Len(answer)

(* evaluate_expect: a first cell that is no number fails every comparison. *)
evaluate_expect(cell, e) ==
    CASE e.op = "nonempty" -> cell.text # ""
      [] e.op = "true"     -> cell.text \in {"t", "true", "1", "yes"}
      [] e.op = "between"  -> cell.is = "number" /\ e.low <= cell.n /\ cell.n <= e.n
      [] e.op \in Comparators ->
            /\ cell.is = "number"
            /\ e.op \in {">=", ">", "!="}      \/ cell.n <= e.n
            /\ e.op \in {"<=", "<", "!="}      \/ cell.n >= e.n
            /\ e.op \in {"<=", ">=", "==", "="} \/ cell.n # e.n
      [] OTHER -> FALSE

(* _check_artifact on the file [exists, size, recent, lines]: a line is    *)
(* the patterns it matches, its timestamp, if the pattern captures one,    *)
(* and whether it is blank.  The last line is the last that is not blank,  *)
(* or the empty text, which some patterns match.                           *)
MatchEmpty  == {"anything"}
Texts(file) == {n \in DOMAIN file.lines : ~file.lines[n].blank}
LastMatches(file) ==
    IF Texts(file) = {} THEN MatchEmpty
    ELSE file.lines[CHOOSE n \in Texts(file) : \A k \in Texts(file) : k <= n].matches

Timed(cfg) == cfg.ts_after_start /\ cfg.captures
Hit(cfg, pattern, line) == pattern \in line.matches /\ (Timed(cfg) => line.ts = "during")

ArtifactPasses(cfg, file) ==
    /\ file.exists
    /\ cfg.non_empty => file.size > 0
    /\ cfg.modified_since_start => file.recent
    /\ \A p \in cfg.contains : \E n \in DOMAIN file.lines : p \in file.lines[n].matches
    /\ cfg.last_line_matches \subseteq LastMatches(file)
    /\ \A p \in cfg.line_regex : \E n \in DOMAIN file.lines : Hit(cfg, p, file.lines[n])

(* A `contains` that is no text cannot be searched for in a line, and a    *)
(* timestamp without a zone cannot be compared with the start: it is met   *)
(* on the way back from the last line, unless a hit comes before it.       *)
FileCrashes(cfg, file) ==
    /\ file.exists
    /\ \/ "not text" \in cfg.contains /\ file.lines # <<>>
       \/ \E p \in cfg.line_regex, n \in DOMAIN file.lines :
             /\ p \in file.lines[n].matches /\ Timed(cfg) /\ file.lines[n].ts = "naive"
             /\ \A k \in DOMAIN file.lines : k > n => ~Hit(cfg, p, file.lines[k])

-----------------------------------------------------------------------------
(* grade: criterion i is matched to the last entry with its text, else to  *)
(* the entry at its position; it is met when the entry says so and quotes  *)
(* three words or more that are in the output.                             *)
NoEntry == [criterion |-> "", met |-> FALSE, quote |-> "none"]
Entry(rubric, answer, i) ==
    LET named == {k \in DOMAIN answer : answer[k].criterion = rubric[i]} IN
    IF named # {} THEN answer[CHOOSE k \in named : \A m \in named : m <= k]
    ELSE IF i \in DOMAIN answer THEN answer[i] ELSE NoEntry

Quoted(entry, content) == entry.quote # "short" /\ entry.quote \in content
Met(rubric, answer, content) ==
    {i \in DOMAIN rubric : LET e == Entry(rubric, answer, i)
                           IN  e.met /\ Quoted(e, content)}
Sloppy(rubric, answer, content) ==
    \E i \in DOMAIN rubric : LET e == Entry(rubric, answer, i)
                             IN  e.met /\ ~Quoted(e, content)

Reaches(cfg, met) == Cardinality(met) * 100 >= cfg.threshold * Len(cfg.rubric)

(* _candidates: the judge's provider, or the default one, then the others  *)
(* in the order of the registry; those without a key are left out.         *)
InRegistry(p) == \E i \in DOMAIN Providers : Providers[i] = p
Preferred == IF InRegistry(JudgeProvider) THEN JudgeProvider ELSE Default
Candidates ==
    LET rest == SelectSeq(Providers, LAMBDA p : p # Preferred)
        all  == IF InRegistry(Preferred) THEN <<Preferred>> \o rest ELSE rest
    IN  SelectSeq(all, LAMBDA p : p \in configured)

-----------------------------------------------------------------------------
(* What a check reports.  why: how it came to its verdict.  For a judge,   *)
(* met is the criteria it counts.                                          *)
Whys    == {"verdict", "config", "container", "exception", "nothing", "unavailable"}
Unknown == [passed |-> FALSE, why |-> "verdict", met |-> {}]
NoTable == [cols |-> {}, rows |-> <<>>, cent |-> FALSE]
Blank   == [try |-> 1, at |-> 1, content |-> {}, table |-> NoTable, met |-> {}]

(* Every check, result and verdict has its type.                           *)
TypeOK ==
    /\ \A i \in Ids : Valid(checks[i])
    /\ configured \subseteq {Providers[k] : k \in DOMAIN Providers}
    /\ ws \in seen /\ seen \subseteq Workspaces /\ connected \in BOOLEAN
    /\ \A i \in Ids :
         /\ step[i] \in {"start", "listing", "first", "second", "reported"}
         /\ mem[i].try \in 1..2 /\ mem[i].at \in Nat \ {0}
         /\ result[i].passed \in BOOLEAN /\ result[i].why \in Whys
         /\ result[i].passed => result[i].why = "verdict"
         /\ checks[i].kind = "judge" =>
                result[i].met \cup mem[i].met \subseteq DOMAIN checks[i].rubric
    /\ unlisted \subseteq Ids
    /\ verdict \in [is : {"none", "delivered", "waiting", "unavailable", "failed"},
                    strength : {"verified", "judged", "accepted"}]

Init ==
    /\ \E drafts \in Jobs :
         /\ \A i \in Ids : Valid(drafts[i])
         /\ checks = [i \in Ids |-> Stored(drafts[i])]
    /\ ws \in Workspaces /\ connected = TRUE /\ writes = 0 /\ seen = {ws}
    /\ configured \in SUBSET {Providers[k] : k \in DOMAIN Providers}
    /\ job \in [gated : BOOLEAN, approved : BOOLEAN]
    /\ step = [i \in Ids |-> "start"] /\ mem = [i \in Ids |-> Blank]
    /\ result = [i \in Ids |-> Unknown]
    /\ verdict = [is |-> "none", strength |-> "verified"]
    /\ given = [i \in Ids |-> {}] /\ unlisted = {}

(* Another run of the agent writes; an owner removes the data source.      *)
AgentWrites ==
    /\ writes < MaxWrites /\ writes' = writes + 1
    /\ ws' \in Workspaces \ {ws} /\ seen' = seen \cup {ws'}
    /\ UNCHANGED <<stored, connected, history, step, mem, result, verdict>>

SourceRemoved ==
    /\ connected /\ connected' = FALSE
    /\ writes < MaxWrites /\ writes' = writes + 1
    /\ UNCHANGED <<stored, ws, seen, history, step, mem, result, verdict>>

Report(i, passed, why, met) ==
    /\ result' = [result EXCEPT ![i] = [passed |-> passed, why |-> why, met |-> met]]
    /\ step' = [step EXCEPT ![i] = "reported"]

Starts(i, kind) == step[i] = "start" /\ checks[i].kind = kind
Steady == UNCHANGED <<stored, world, verdict>>

(* run_container: it fails or times out; or docker is not there, which     *)
(* raises, and run_check calls that a verifier error.                      *)
NotRead(i) == \E why \in {"container", "exception"} : Report(i, FALSE, why, {})

(* _check_sql: one container runs the query, read-only.                    *)
CheckSql(i) ==
    /\ Starts(i, "sql")
    /\ IF ~validate_select(checks[i].query) \/ ~connected THEN Report(i, FALSE, "config", {})
       ELSE \/ NotRead(i)
            \/ Report(i, evaluate_expect(ws.cell, checks[i].expect), "verdict", {})
    /\ UNCHANGED <<mem, history>> /\ Steady

(* _check_artifact: one container reads the file's facts and last lines.   *)
CheckArtifact(i) ==
    /\ Starts(i, "artifact")
    /\ IF ~safe_rel_path(checks[i].path) THEN Report(i, FALSE, "config", {})
       ELSE \/ NotRead(i)
            \/ IF FileCrashes(checks[i], ws.file) THEN Report(i, FALSE, "exception", {})
               ELSE Report(i, ArtifactPasses(checks[i], ws.file), "verdict", {})
    /\ UNCHANGED <<mem, history>> /\ Steady

(* _check_table reads the register with one container, then lists the      *)
(* directory it must cover with another; a listing that fails is an empty  *)
(* directory.                                                              *)
ReadTable(i) ==
    /\ Starts(i, "table")
    /\ IF ~safe_rel_path(checks[i].path) THEN Report(i, FALSE, "config", {}) /\ UNCHANGED mem
       ELSE \/ Report(i, FALSE, "container", {}) /\ UNCHANGED mem
            \/ ~ws.written /\ Report(i, FALSE, "verdict", {}) /\ UNCHANGED mem
            \/ /\ ws.written
               /\ mem' = [mem EXCEPT ![i].table = ws.table]
               /\ step' = [step EXCEPT ![i] = "listing"] /\ UNCHANGED result
    /\ UNCHANGED history /\ Steady

TableVerdict(i, files) ==
    IF Crashes(checks[i], mem[i].table) THEN Report(i, FALSE, "exception", {})
    ELSE Report(i, TablePasses(checks[i], mem[i].table, files), "verdict", {})
CheckTable(i) ==
    /\ step[i] = "listing"
    /\ \/ TableVerdict(i, ws.files) /\ UNCHANGED unlisted
       \/ TableVerdict(i, {}) /\ unlisted' = unlisted \cup {i}
       \/ Report(i, FALSE, "exception", {}) /\ UNCHANGED unlisted
    /\ UNCHANGED <<mem, given>> /\ Steady

(* _check_judge reads what it judges once, then asks.  A container that    *)
(* fails reads nothing; the agent's final message needs none.              *)
ReadOutput(i) ==
    /\ Starts(i, "judge")
    /\ LET content == ws.texts[checks[i].source] IN
       \/ /\ content = {} \/ checks[i].source # "result"
          /\ Report(i, FALSE, "nothing", {}) /\ UNCHANGED mem
       \/ /\ content # {}
          /\ mem' = [mem EXCEPT ![i].content = content]
          /\ step' = [step EXCEPT ![i] = "first"] /\ UNCHANGED result
    /\ UNCHANGED history /\ Steady

Asking(i) == step[i] \in {"first", "second"}

(* A question that got no JSON twice: the first makes the judge            *)
(* unavailable, the second leaves the first answer's score.                *)
Unanswered(i) ==
    IF mem[i].try < 2
    THEN mem' = [mem EXCEPT ![i] = [@ EXCEPT !.try = 2, !.at = 1]] /\ UNCHANGED <<step, result>>
    ELSE /\ IF step[i] = "first" THEN Report(i, FALSE, "unavailable", {})
            ELSE Report(i, Reaches(checks[i], mem[i].met), "verdict", mem[i].met)
         /\ UNCHANGED mem

(* complete: the provider at hand fails or says nothing, and the next one  *)
(* is asked; after the last, or when none has a key, it raises LLMError.   *)
NoProvider(i) ==
    /\ Asking(i) /\ Candidates = <<>>
    /\ Unanswered(i) /\ UNCHANGED history /\ Steady

ProviderFails(i) ==
    /\ Asking(i) /\ Candidates # <<>>
    /\ UNCHANGED history
    /\ IF mem[i].at < Len(Candidates)
       THEN mem' = [mem EXCEPT ![i].at = @ + 1] /\ UNCHANGED <<step, result>>
       ELSE Unanswered(i)
    /\ Steady

(* It answers 200 with a body of another shape (null for its content, a    *)
(* list, a string): what that raises is caught by neither complete nor     *)
(* ask, and the check ends as a verifier error.                            *)
Raises(i) == Report(i, FALSE, "exception", {}) /\ UNCHANGED <<mem, history>> /\ Steady
ProviderBreaks(i) == Asking(i) /\ Candidates # <<>> /\ Raises(i)

(* It answers with JSON whose criteria are no list.                        *)
AnswerBreaks(i) == Asking(i) /\ Candidates # <<>> /\ Raises(i)

(* It answers with a text that holds no JSON: no other provider is asked.  *)
JudgeRambles(i) ==
    /\ Asking(i) /\ Candidates # <<>>
    /\ UNCHANGED history
    /\ Unanswered(i) /\ Steady

(* It answers.  A first answer below the threshold that misquotes is asked *)
(* for once more; the better of the two scores counts.                     *)
BetterOfBoth(old, new) == old \cup new                              \* a mutant
BetterFirst(old, new)  == old                                       \* a mutant
Better(old, new) == IF Cardinality(new) > Cardinality(old) THEN new ELSE old

JudgeAnswers(i) ==
    /\ Asking(i) /\ Candidates # <<>>
    /\ \E answer \in Answers :
         LET cfg == checks[i]
             new == Met(cfg.rubric, answer, mem[i].content)
             met == IF step[i] = "first" THEN new ELSE Better(mem[i].met, new)
         IN  /\ given' = [given EXCEPT ![i] = @ \cup {answer}]
             /\ IF /\ step[i] = "first" /\ Sloppy(cfg.rubric, answer, mem[i].content)
                   /\ ~Reaches(cfg, met)
                THEN /\ mem' = [mem EXCEPT ![i] = [@ EXCEPT !.try = 1, !.at = 1, !.met = met]]
                     /\ step' = [step EXCEPT ![i] = "second"] /\ UNCHANGED result
                ELSE Report(i, Reaches(cfg, met), "verdict", met) /\ UNCHANGED mem
    /\ UNCHANGED unlisted /\ Steady

-----------------------------------------------------------------------------
(* verify_outcome on the gathered results.  A person's check is answered   *)
(* here: a gate by the approval of this attempt, anything else is passed.  *)
Human(i)    == checks[i].kind = "human"
Everything  == Ids                                                  \* a mutant
Automatic   == {i \in Ids : ~Human(i)}
IsGate(i)   == Human(i) /\ checks[i].mode = "approve" /\ job.gated
Passed(i)   == IF Human(i) THEN IsGate(i) => job.approved ELSE result[i].passed
Required    == {i \in Ids : IF Human(i) THEN IsGate(i) ELSE checks[i].required}
Pending(i)  == IsGate(i) /\ ~job.approved
Failing     == {i \in Required : ~Passed(i) /\ ~Pending(i)}

Strength(kind) == CASE kind = "judge" -> "judged" [] kind = "human" -> "accepted"
                    [] OTHER -> "verified"
Strengths(ids) == {Strength(checks[i].kind) : i \in ids}
Strongest(strengths) ==                                             \* a mutant
    IF "verified" \in strengths THEN "verified"
    ELSE IF "judged" \in strengths THEN "judged" ELSE "accepted"
Weakest(strengths) ==
    IF "accepted" \in strengths THEN "accepted"
    ELSE IF "judged" \in strengths THEN "judged" ELSE "verified"

Verdict ==
    IF Required # {} /\ \A i \in Required : Passed(i) THEN "delivered"
    ELSE IF Failing = {} /\ \E i \in Required : Pending(i) THEN "waiting"
    ELSE IF Failing # {} /\ \A i \in Failing : result[i].why = "unavailable"
         THEN "unavailable" ELSE "failed"

Conclude ==
    /\ verdict.is = "none" /\ \A i \in Automatic : step[i] = "reported"
    /\ verdict' = [is |-> Verdict, strength |-> Weakest(Strengths(Required))]
    /\ UNCHANGED <<stored, world, history, step, mem, result>>

Check(i) == \/ CheckSql(i) \/ CheckArtifact(i) \/ ReadTable(i) \/ CheckTable(i)
            \/ ReadOutput(i) \/ NoProvider(i) \/ ProviderFails(i)
            \/ ProviderBreaks(i) \/ AnswerBreaks(i) \/ JudgeRambles(i) \/ JudgeAnswers(i)
Next == AgentWrites \/ SourceRemoved \/ Conclude \/ \E i \in Ids : Check(i)
Spec == Init /\ [][Next]_vars

(* Containers and model calls have timeouts, and gather waits for every    *)
(* check.  That docker answers before one (_volume_exists, which waits     *)
(* without a limit) is assumed.                                            *)
Fairness == WF_vars(Conclude) /\ \A i \in Ids : WF_vars(Check(i))
FairSpec == Spec /\ Fairness

-----------------------------------------------------------------------------
(* What a cell must be, by its distance from the bounds.                   *)
Accepted(e, n) ==
    CASE e.op = "between" -> n - e.low \in Nat /\ e.n - n \in Nat
      [] e.op = ">=" -> n - e.n \in Nat         [] e.op = "<=" -> e.n - n \in Nat
      [] e.op = ">"  -> n - e.n \in Nat \ {0}   [] e.op = "<"  -> e.n - n \in Nat \ {0}
      [] e.op \in {"==", "="} -> n = e.n        [] e.op = "!=" -> n # e.n
CellEarned(e, cell) ==
    IF e.op = "nonempty" THEN cell.text # "" ELSE
    IF e.op = "true" THEN cell.text \in {"t", "true", "1", "yes"}
    ELSE cell.is = "number" /\ Accepted(e, cell.n)

(* What a rule says of a row, by the difference of its sides: a row it     *)
(* cannot be evaluated on, in any of its parts, does not satisfy it.       *)
Satisfies(part, row, slack) ==
    LET a == Term(part.left, row)  b == Term(part.right, row)  d == a.n - b.n IN
    /\ ~Broken(a) /\ ~Broken(b)
    /\ IF a.is = "number" /\ b.is = "number"
       THEN \/ part.op \in {"==", "<=", ">="} /\ d \in (-slack)..slack
            \/ part.op \in {"<", "<=", "!="} /\ d < -slack
            \/ part.op \in {">", ">=", "!="} /\ d > slack
       ELSE \/ part.op = "==" /\ Printed(a) = Printed(b)
            \/ part.op = "!=" /\ Printed(a) # Printed(b)
Readable(part, row) ==
    LET a == Term(part.left, row)  b == Term(part.right, row) IN
    /\ ~Broken(a) /\ ~Broken(b)
    /\ part.op \in {"==", "!="} \/ (a.is = "number" /\ b.is = "number")
Legible(r, row) == \A n \in DOMAIN r.parts : Readable(r.parts[n], row)
Proves(r, row, slack) ==
    /\ Legible(r, row)
    /\ IF r.join = "and" THEN \A n \in DOMAIN r.parts : Satisfies(r.parts[n], row, slack)
       ELSE \E n \in DOMAIN r.parts : Satisfies(r.parts[n], row, slack)
Excluded(cfg, row, slack) ==        \* the `where` can be read and is false
    Legible(cfg.where, row) /\ ~Proves(cfg.where, row, slack)

TableEarned(cfg, t) ==
    LET slack == IF t.cent THEN 1 ELSE 0
        in    == {n \in DOMAIN t.rows : ~Excluded(cfg, t.rows[n], slack)} IN
    /\ cfg.columns \subseteq t.cols
    /\ cfg.min_rows > 0 => cfg.min_rows \in DOMAIN t.rows
    /\ cfg.unique = {} \/ \A n, m \in in :
         n # m => \E c \in cfg.unique : Key(t.rows[n], c) # Key(t.rows[m], c)
    /\ HasRule(cfg) => \A n \in in : Proves(cfg.row_rule, t.rows[n], slack)
Covered(cfg, t, files) ==
    cfg.covers => \A f \in files \cap cfg.pattern : \E n \in DOMAIN t.rows :
        cfg.column \in DOMAIN t.rows[n] /\ t.rows[n][cfg.column].key = f

(* What a file must be: its last line that is not blank matches, or there  *)
(* is none and the pattern matches nothing at all.                         *)
Ends(file, p) ==
    \/ Texts(file) = {} /\ p \in MatchEmpty
    \/ \E n \in Texts(file) :
         p \in file.lines[n].matches /\ ~\E k \in Texts(file) : k > n
FileEarned(cfg, file) ==
    /\ file.exists /\ (cfg.non_empty => file.size > 0)
    /\ cfg.modified_since_start => file.recent
    /\ \A p \in cfg.last_line_matches : Ends(file, p)
    /\ \A p \in cfg.contains \cup cfg.line_regex : \E n \in DOMAIN file.lines :
         /\ p \in file.lines[n].matches
         /\ p \in cfg.line_regex /\ cfg.ts_after_start /\ cfg.captures =>
              file.lines[n].ts = "during"

(* A check holds, or does not, of the real system as it was at a moment of *)
(* this verification, whoever wrote meanwhile; a coverage rule of the two  *)
(* moments it read, unless the listing failed, which verify.py:242 takes   *)
(* for an empty directory.                                                 *)
Earned(i) ==
    LET cfg == checks[i] IN
    CASE cfg.kind = "sql"      -> \E w \in seen : CellEarned(cfg.expect, w.cell)
      [] cfg.kind = "artifact" -> \E w \in seen : FileEarned(cfg, w.file)
      [] cfg.kind = "table"    -> \E w \in seen :
            /\ w.written /\ TableEarned(cfg, w.table)
            /\ i \in unlisted \/ \E v \in seen : Covered(cfg, w.table, v.files)
      [] OTHER -> TRUE

(* A check that passed holds: of the data source, the file, or every row   *)
(* and every listed file of the register.  (For judges see below.)         *)
PassIsEarned == \A i \in Automatic : result[i].passed => Earned(i)

(* A judge passes on ONE of the answers it was given: enough criteria,     *)
(* each with an entry that calls it met and quotes the output.  The entry  *)
(* is the criterion's own when the answer names all of them, or none; an   *)
(* answer that leaves one out lends it the entry at its position.  And the *)
(* judge is called unavailable only when nobody gave an answer, and a      *)
(* verdict rests on one: an outage of the second question does not hide    *)
(* the first answer (a body of another shape does, as an exception).       *)
Names(a, c) == \E k \in DOMAIN a : a[k].criterion = c
Whole(rubric, a) ==
    \/ \A n \in DOMAIN rubric : Names(a, rubric[n])
    \/ \A n \in DOMAIN rubric : ~Names(a, rubric[n])
Backs(rubric, a, n, content) == \E k \in DOMAIN a :
    /\ a[k].met /\ a[k].quote \in content \ {"short"}
    /\ \/ a[k].criterion = rubric[n]
       \/ k = n /\ (Whole(rubric, a) => ~Names(a, rubric[n]))
Shown(cfg, a, w) ==
    Reaches(cfg, {n \in DOMAIN cfg.rubric : Backs(cfg.rubric, a, n, w.texts[cfg.source])})
JudgedOnEvidence ==
    \A i \in Ids : checks[i].kind = "judge" /\ step[i] = "reported" =>
        /\ result[i].passed => \E a \in given[i], w \in seen : Shown(checks[i], a, w)
        /\ result[i].why = "unavailable" => given[i] = {}
        /\ result[i].why = "verdict" => given[i] # {}

(* A check that fails by its verdict, and not by a container, an outage or *)
(* an exception, did not hold at a moment of the verification; a judge     *)
(* only when no answer it was given reaches the threshold with entries     *)
(* that cannot be told otherwise.  A failure costs another attempt.        *)
Surely(rubric, a, n, content) ==
    LET own == {k \in DOMAIN a : a[k].criterion = rubric[n]}
        its == IF own # {} THEN own ELSE DOMAIN a \cap {n}
    IN  its # {} /\ \A k \in its : a[k].met /\ a[k].quote \in content \ {"short"}
SurelyShown(cfg, a, w) ==
    Reaches(cfg, {n \in DOMAIN cfg.rubric : Surely(cfg.rubric, a, n, w.texts[cfg.source])})
Refuted(i) ==
    LET cfg == checks[i] IN
    CASE cfg.kind = "sql"      -> \E w \in seen : ~CellEarned(cfg.expect, w.cell)
      [] cfg.kind = "artifact" -> \E w \in seen : ~FileEarned(cfg, w.file)
      [] cfg.kind = "table"    -> \E w, v \in seen :
            ~w.written \/ ~TableEarned(cfg, w.table) \/ ~Covered(cfg, w.table, v.files)
      [] OTHER -> \E w \in seen : \A a \in given[i] : ~SurelyShown(cfg, a, w)
FailIsEarned ==
    \A i \in Automatic :
        step[i] = "reported" /\ result[i].why = "verdict" /\ ~result[i].passed => Refuted(i)

(* Delivered means that there was something to prove, that every check     *)
(* required passed and every gate is approved, and that the receipt does   *)
(* not claim a stronger proof than its weakest one.                        *)
Rank(s) == CASE s = "verified" -> 0 [] s = "judged" -> 1 [] s = "accepted" -> 2
AskedFor == {i \in Ids : checks[i].required /\ (Human(i) => job.gated)}
DeliveredIsProven ==
    verdict.is = "delivered" =>
        /\ AskedFor # {}
        /\ \A i \in AskedFor :
             /\ IF Human(i) THEN job.approved ELSE result[i].passed
             /\ Rank(Strength(checks[i].kind)) <= Rank(verdict.strength)

(* The verification ends, whatever the containers and the judges do.       *)
EveryCheckReports == <>(verdict.is # "none")

=============================================================================
