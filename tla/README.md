# AntonAgents: a TLA+ verification project

AntonAgents runs AI agents in containers, on a schedule or on request, and
turns each run into an *attempt* toward an *outcome*: a job with a definition of
done that is verified independently, retried within a budget, escalated to a
person when it must be, approved where the job says so, and delivered. One
asyncio process serves the API, the scheduler, the recovery loop and every run,
over one SQLite connection. Its correctness is a matter of interleavings: every
`await` lets another coroutine read or write the rows a function has just read.

## Inventory

| Part | State it keeps | Operations | Hard behaviour | What makes it correct |
|---|---|---|---|---|
| Outcome engine (`app/outcomes.py`, rows in `app/db.py`) | `outcomes` row: status, attempts, next_attempt_at, recovery_json, receipt_json, review fields | `begin_attempt`, `finish_attempt`, `verify_outcome`, `_decide`, `_reverify`, `_launch_next_attempt`, `recovery_loop`, `resume_pending`, `review`, `resolve`, `backfill_from_run` | long functions with many awaits work on one row; crashes; people racing the loop | attempts one at a time and within budget; delivered means checked and approved; nothing is left in the middle |
| Delivery (`app/deliver.py`) | `deliveries` rows: status, attempts, next_try_at | `deliver_outcome`, `retry_due`, forced redelivery | read, send, mark across awaits; crash before rows exist | the records are true; once per destination when calls do not overlap |
| Escalation (`app/escalate.py`) | `escalations` rows per (event, round, destination) | `fire`, `escalate`, `_try`, `retry_due` | a background task reads the round late; a claimed row is never sent after a crash | a destination is told once per round, and told in the end |
| Action gateway (`app/gateway.py`, `app/guardrails.py`) | `actions` rows; tokens and policies of live runs | `_tools_call`, `_record`, `execute_approved`, `reject`, `decide_action` | batches that outlive their container, two people, a provider that raises | a call runs at most once, only with permission, and the audit trail is true |
| Runner and live events (`app/runner.py`, `stream_run`) | `runs` and `events` rows, slots, containers, subscribers | `start_run`, `execute_run`, `_watch_oom`, `_kill_container`, `subscribe`, `_publish` | slots, time limits, early exits, OOM classification, streams joining late | a run's row says what happened in its container; every run ends and frees its slot |
| Job specs and scheduler (`app/main.py`, `app/db.py`, `app/scheduler.py`) | `agents`, `job_specs`, `job_checks` rows; APScheduler jobs | `create_job`, `create_agent`, `put_job_spec`, `job_go_live`, `enable`, `set_schedule`, `delete`, `_fire`, `start` | requests that write a row and then the scheduler; launches that check and then create | one live definition; the scheduler agrees with the row; one occurrence at a time |
| Teams (`app/main.py`, `app/auth.py`) | `memberships`, `invitations`, `sessions` rows | `register`, `google_callback`, `accept_invitation`, `remove_member`, `set_member_role`, `current_user` | count, then write; join, then mark | a team keeps an admin; an invitation lets one person in |
| Checks (`app/verify.py`, `app/tablecheck.py`, `app/llm.py`) | `check_results` | `validate_check`, `run_checks`, `grade`, `check`, `complete` | three-valued results, a judge asked twice, a workspace that changes meanwhile | a check that cannot be made never passes; a pass is earned |
| Rate limiter (`app/ratelimit.py`) | a bucket per API key | `check` | refill and cap | no more than burst plus rate |
| Connectors, planner, ledger, alerts, configuration, console, container agent | small or none | one request each | – | see *Not modelled* |

The parts meet in the rows: the scheduler, a recovery or the API creates a run;
`execute_run` calls `begin_attempt`, runs the container, and at its end creates
the task `finish_attempt`; `verify_outcome` runs the checks, lists the calls the
gateway holds, and writes one decision; `recovery_loop` takes up rows that are
`recovering` and due, and then the failed escalations and deliveries;
`resume_pending` verifies what a restart left `running` or `verifying`; people
call `review`, `resolve` and `verify` on the same rows at any time.

`PROJECT.json` lists every part, modelled or not, and every hazard at its line.

## Plan

All of the plan is built, in this order: `OutcomeEngine` with `OutcomeLifecycle`;
`Delivery`; `Escalation`; `Gateway` with `Guardrails` and `ConnectorCalls`;
`Runner`; `Jobs`; `Teams`; `Checks` with `TableRules`; `RateLimit`; and the
proof modules. What would come next: the planner, and the data sources beyond
what the checks use of them.

## The modules

### The outcome's way

* `OutcomeEngine`: the state is the outcome's row (`outcome`), its runs
  (`runs`), the status of each tool call (`action`), and for each coroutine a
  label and its local variables (`pc`, `mem`). Coroutines are the runs
  themselves (from `begin_attempt` to the end of `finish_attempt`), one request
  per person, the recovery loop, the tasks it creates to verify again, and
  `resume_pending`. An action is what a function does between two awaits that
  matter; what it read earlier and still uses (the variable `o` of the code) is
  `mem[p].seen`. So `verify_outcome` is `VerifyRead`, `VerifyMark`,
  `VerifyCheck`, and then exactly one of `SettleAwaiting`, `SettleDelivered`,
  `SettleNoRecovery`, `SettleFailed`, `SettleUnavailable`, or `VerifyRaises`.
* `OutcomeLifecycle`: what the engine promises while no person steps in: the
  outcome opens, makes at most `MaxAttempts` attempts, and stops for good.
* `Delivery`: the rows of one live outcome's message destinations (`rows`), the
  receipt, what really arrived (`arrived`), and the coroutines that may be
  inside `deliver_outcome` for it: a verification or an approval, the loop's
  `retry_due`, and people who ask to deliver again. `Begin` reads the outcome;
  for each destination `Claim` is `claim_delivery` and the decision to skip it,
  `Send` the request, `MarkSent` and `MarkFailed` are `mark_delivery`, `Tell` is
  the escalation and notification of a destination that is given up; at the end
  `ListDeliveries` and `WriteReceipt`. It stands beside `OutcomeEngine`, which
  has the same call as `DeliverRead` and `DeliverReceipt`: there the question is
  what it does to the outcome's row, here what it does to the destinations.
* `Escalation`: the events the engine fires of one outcome (`AskApproval`,
  `GiveUp`, `DeliveryFails`), the entries people and the engine add to its log,
  the background tasks (`Read`, `Claim`, `Send`, `Mark`, `EndTask`) and the
  loop's `retry_due` (`ListDue`, `Retry`, `DropRow`, `EndTick`) over the rows
  of the `escalations` table. `arrived` and `tries` count what really happened.
* `Checks` with `TableRules`: what `verify_outcome` knows when it decides. A
  verification gathers one `run_check` per check; `CheckSql`, `CheckArtifact`,
  `ReadTable`/`CheckTable` and `ReadOutput`/`JudgeAnswers` each read the world
  at their own moment, while `AgentWrites` and `SourceRemoved` change it. Each of
  them may also fail (`NotRead`; a listing that failed is kept in `unlisted`), and a
  check that raises ends as `run_check` has it, "verifier error": a rule divides by
  zero, a timestamp has no zone or a `contains` is no text (`FileCrashes`), a
  provider's body has another shape (`ProviderBreaks`), the judge's criteria are no
  list (`AnswerBreaks`). `Valid` is `validate_check`, `Entry`, `Met` and `Quoted` are `grade`, `Candidates` is
  the order in which `llm.complete` tries the providers, and `Verdict` is what
  `verify_outcome` draws from the results. `TableRules` evaluates `row_rule`,
  `where`, `unique` and coverage over a table; values are numbers of cents,
  words, nothing or an error, and an error is a value of its own because
  `check` treats a rule that raises in `where` and in `row_rule` differently.

### The agent's side

* `Gateway`: `Register`/`RunEnds` are `register` and `unregister_run`. A
  `tools/call` request arrives with a batch (`Arrive`), records its calls one
  by one (`Record`, with the policy of the run at that moment), sends the
  allowed ones in one message (`Upstream`), and settles their rows (`Settle`);
  any of these steps may come after the container is gone. People review the
  outcome (`Review`) or decide one call (`Decide`); `Claim` is the conditional
  update of `set_action`, `RunCall` and `Mark` are `execute_approved`. `ran`
  counts what the provider really ran.
* `Guardrails`: `classify`, `policy_for`, `decide` and `normalize`. The name of
  a tool is the set of categories whose verbs it has, first or anywhere.
* `ConnectorCalls`: the gateway's promise to the outside, which `Gateway`
  implements: a call is granted, refused or waits for a person; only a granted
  call runs, at most once, and nothing runs after its books are closed.
* `Runner`: `execute_run` as one coroutine per run (`pc`, `mem`), its container
  (`box`), the stored events, and the streams of people who watch. `Store` is
  `handle` up to its await and `Publish` what follows it; the pump can be
  cancelled in between, which is why they are two steps. `SeeOom` is the
  watcher, which may come late or never; `Classify` is the code after the pump;
  `Close` and `Alerts` are the end, with or without `finish_attempt`.
* `Jobs`: one routine. Requests are coroutines of clients, cut at their awaits:
  `CreateJob`, `CreateAgent`, `PutSpec`, `GoLive`, `DryRun`, `Switch` (enable,
  disable, schedule, unschedule), `RunNow`, `Delete`. The scheduler's job (`job`) is separate from
  the row (`agent`). `Fire` is `_fire`, cut between its check and its launch;
  an occurrence then runs, recovers and settles.
* `Teams`: one team, the people's own workspaces, sessions, invitations, and
  requests cut between reading, counting and writing.
* `RateLimit`: `TokenBucketLimiter.check` and the clock, for any number of keys.

`MCOutcomeEngine`, `MCDelivery`, `MCEscalation`, `MCGateway`, `MCRunner`,
`MCJobs`, `MCTeams` and `MCChecks` are instances for TLC with their symmetry;
`OutcomeEngine_proofs`, `Delivery_proofs`, `Escalation_proofs`, `Gateway_proofs`,
`Runner_proofs` (with the rate limiter that stands before the runs of API callers,
as `Bucket == INSTANCE RateLimit`), `Jobs_proofs`, `Teams_proofs` and
`Checks_proofs` hold the theorems.

### What the models leave out, and why they may

* Data. In `OutcomeEngine` the result of all automatic checks is `pass`, `fail`
  or `unavailable` (every failing check was unavailable; `Checks` says how it
  comes about); why a run failed is a class that `classify` can return for that
  run; cost and memory limits decide either way. Receipts keep only what they
  say of the automatic checks and of the gate.
* Time. `next_attempt_at` and the dates of retries are set or not; when set,
  they may pass at any moment. `RateLimit` counts seconds.
* Statements that no other coroutine can come between are one step.
  `link_run_to_outcome` reads, then writes two rows and commits in one step: no
  other coroutine uses either row between the two writes except by the same
  read, which the model separates.
* A send (`_send`), a tool's provider and a model provider are external: they
  take the message and answer, refuse it, or take it while the answer is lost,
  which the code sees as an error.
* The rows of `notifications`, backfilled outcomes (verified once, with nobody
  able to review or recover them), and the flag a user sets on an outcome are in
  no module.
* In `OutcomeEngine` a tool call is held on its own: batches, policies and what the
  provider answers belong to `Gateway`. A call may be held while its run is running
  (`RunHold`) or later, by a request that the container's end did not stop
  (`LateHold`; `late` are the calls such a request has left to record). A call in
  neither of the two is not held.
* In `Gateway` requests whose method is not `tools/call` go through unrecorded
  (`Passed`); in `Jobs` every schedule is valid: what an invalid one does is in
  *What the models showed*.
* Amounts in `TableRules` are integers of cents. The code calls numbers equal
  within a cent; whether two amounts exactly one cent apart are is a matter of
  floating point, and so a choice of the table (`cent`).
* `RateLimit` replaces floats by integers: a token is 60 parts, so that the rate
  per minute is a whole number of parts per second.

## The runs

| Run | Question | Bounds |
|---|---|---|
| `recovery` | the engine alone: attempts apart and within budget, delivered means checked, nothing held back, dry runs single, everything settles that a fault does not leave to the next start, `OutcomeLifecycle` is implemented | 4 runs, 2 attempts, 1 re-verification, 2 crashes, 1 held call, live and dry-run outcomes, calls held during and after a run, an agent that may be disabled, runs that end early and verifications that raise; about 185 000 states |
| `reviewers` | two people approving, rejecting and re-verifying a gated outcome: one executor per call, decisions on calls are final, the gate holds | 2 people, 1 run, an approval gate, exceptions in verifications, people act while the log is shorter than 1 entry; about 543 000 states up to symmetry |
| `desk` | one person's requests, spot-checks of a sampled outcome included, in any order and against the loop, leave no outcome recovering without a date | 1 person, 3 runs, sampling instead of a gate, early exits and a disabled agent, log bound 2; about 320 000 states up to symmetry |
| `deliveries` | a verification run twice, the loop's retries, a forced redelivery and a crash at one destination: the records are true, the tries bounded, nothing is sent twice by calls that do not overlap, giving up is told, the destination is decided in the end | 3 tries, 2 verifications, 1 forced call, 1 crash, lost answers; about 695 000 states |
| `escalations` | events that come twice, tasks that read the round late, retries, lost answers and a crash: a message arrives once per round, the tries are bounded, every event settles | 2 tasks, 1 destination, 3 tries, log bound 1, 1 crash; about 346 000 states |
| `calls` | a batch that outlives its container, a changing policy, two people and a crash: a call runs once and with permission, the trail is true, no held call is overlooked, `ConnectorCalls` is implemented | 1 run, 1 batch of up to 2 calls of 2 kinds, 2 policies, 2 people, 1 crash; about 404 000 states up to symmetry |
| `runs` | two runs for one slot, or one that is watched and a crash: a success ended by itself and without trouble, the reason of a failure is kept, a kill for memory is named, a stream that joins in a quiet moment sees everything, every run ends | 2 runs, 1 slot, 1 event each; or 1 run, 2 events, 1 stream, 1 crash; about 711 000 states |
| `jobs` | two owners create, define, publish, switch, dry-run and delete a routine while the scheduler fires: one live definition and the last one, the scheduler agrees with the row, one occurrence at a time, a draft stays paused | 2 requests at once, 2 versions, 2 runs, 1 crash, three groups of requests; about 3 854 000 states |
| `teams` | two requests at once and a crash: the team keeps an admin, an invitation is used once | the founder and one more person, 1 invitation, open and closed sign-up, 1 crash; about 598 000 states up to symmetry |
| `checks` | a verification of two checks of every kind in a workspace that changes, with two providers: a pass and a failure are earned, a judgement has an answer behind it, a delivery is proven, the verification ends | 2 checks of 41 jobs, 5 of which `validate_check` refuses, 4 workspaces, 7 answers, 1 change; about 555 000 states |
| `unchecked_approval` | violated: an approval after a refused change request delivers work whose checks failed | |
| `double_send` | violated: without any failure a message arrives twice | |

### Why the bounds are enough

Four runs are enough for two attempts and two crashes: a crash in the middle of
a launch strands at most one run, and a fifth run would not start. Two attempts
are the fewest with a recovery between them; one re-verification is the fewest
for which the streak of `_reverify` is both below and at its limit. A second
held call would only be decided as the first is. The bounds `MaxLog` and
`MaxRestarts` are constants of the modules and are in no property of theirs but
`TriesBounded`, which counts the crashes that happened. No run with a liveness
property uses symmetry. Deadlock is not checked: each of these systems may come
to rest (an outcome that is delivered, a desk nobody comes to).

In `deliveries`, three coroutines are enough for every pair of callers to
overlap, and a third to come between them; three tries are the code's
`MAX_ATTEMPTS`. One destination is enough for what a row goes through; with two
destinations, one verifier run twice and the loop, two tries and a crash, the same
properties hold (411 000 states), which is not a run of its own: a call handles
destinations one by one and their rows are independent. `escalations` has one
destination for the same reason, and two tasks because two events of one kind
are the fewest that can ask for the same row.

In `calls` two calls are the fewest of which one is sent and one is held, and two
people the fewest that contend for a claim. The two kinds are a read (allowed by
default) and a message (held by default) with arguments too long for the row; the
second policy blocks the one and holds the other. In `jobs` the three groups of
requests of `MCJobs` are what two clients can do at once; each request meets
every other that writes the same rows. In `checks` each reader meets a person's
check, each judge meets a reader, and both kinds of gate meet; the four
workspaces differ in every cell, table, file and text the checks look at.

### Properties with an excuse

Where the code does lose a race, the property says when, by a history variable,
so that it can be violated by everything else. `disturbed` in `Delivery`: a call
began inside another one, an answer was lost, or a crash cut a call. `misled` in
`Escalation`: the answer to a send that arrived was lost, or a crash came before
it was recorded. `raced` in `Jobs` and `Teams`: two requests of one group
overlapped or a crash cut one. `blind` in `Jobs`: a run launched by hand, past
one that waited for its slot, or past one that came up after the look. `unsure` in `Teams`: two requests
held the invitation or a crash kept it from being marked. `late` in `Gateway`: a
call that was recorded after its container was gone; in `OutcomeEngine` the same
calls, which `NothingHeldBack` leaves out: nobody reviews one that is held after
`verify_outcome` has listed the others. `faulted` in `OutcomeEngine`: a run ended
before its container started, or a verification raised. `EventuallySettles` lets it
leave the outcome running or verifying until the next start, which forgets the fault
(`Restart`) and so must take the outcome up. `unlisted` in `Checks`: a coverage rule
whose directory could not be listed. `faulty` in `Runner`: a
container that closed its output and stayed, or whose client died.
`undisturbed`: streams that joined in a quiet moment. `trouble` in `Runner` is a
history of another kind: it excuses nothing, and remembers the errors a run has taken
in and whether it was killed, so that `SucceededIsClean` can forbid them all.

An excuse is a case that the property does not catch. The hazards of `PROJECT.json`
say for each what is caught and what is not.

The scope of what holds in the engine: `AttemptNumbersUnique`, `OneAttemptAtATime`,
`ImplementsLifecycle` and `DeliveredMeansChecked` are claims about the engine
without people (run `recovery`). With them, `unchecked_approval` and the first two
items of *What the models showed* break them.

### Fairness

* `OutcomeEngine`: weak fairness of each coroutine's next step, since asyncio
  resumes a coroutine once its await is over and a container ends at its time
  limit; of the recovery loop, which ticks every `RECOVERY_TICK_S` for as long as
  the process lives (`lifespan`); and of the resumption after a restart. Nothing
  makes people ask, the server crash, or a call be held. `EventuallySettles`: what
  is running, verifying or recovering is in the end delivered, failed, awaiting
  approval or in need of a person, or a fault has left it (`LeftByFault`) and the
  server has not been started again. No fairness makes a fault happen or a restart
  come; when one comes, `Resume` is fair.
* `Delivery`: a call goes on and a verification ends for the same reason, the
  time of a retry comes, and the loop calls `retry_due` at each tick; nobody has
  to ask for a redelivery. `EventuallyDecided` is about behaviours without a
  crash: a crash between the status "delivered" and the first row leaves nothing
  for `resume_pending` or `retry_due` to find, so nothing is ever sent.
* `Escalation`: tasks and sends go on, dates come, the loop ticks; events need not
  happen. `EveryEventSettles` is about behaviours without a crash: a row that was
  claimed and not marked is never listed by `due_escalations`.
* `Runner`: each coroutine and stream goes on and a time limit runs out. Nothing
  makes a container end, or docker tell of a kill. A slot is given to one of those
  who wait; asyncio's semaphore is first in, first out, hence strong fairness of
  `Start`. `EveryRunEnds` is about behaviours whose containers behave.
* `Checks`: the containers of the checks and the model calls have timeouts, and
  `gather` waits for every check. Before a container, `_volume_exists`
  (`runner.py:142`) asks docker and waits without a limit: `EveryCheckReports`
  assumes that docker answers. The workspace need not come to rest.

## What the models showed

Two runs are violations of what the repository says of itself:

* `unchecked_approval`: `review` rejects held calls before it refuses a change
  request without a note (`outcomes.py:649-650`, 697-698). The outcome still
  awaits approval, and the approval that follows finalizes the receipt as it is.
* `double_send`: `claim_delivery` gives the row to every caller
  (`db.py:1956-1964`) and `deliver_outcome` looks only for "sent" before it sends
  (`deliver.py:302-310`). Two calls that overlap both send; the unique key that
  `deliver.py:5-7` relies on only keeps the row single.

Modelling met more behaviours worth knowing. The models contain all of them,
unless said otherwise, and the properties are stated around them:

* `resolve` stores a retry that is already due and then launches it itself; a tick
  of the loop between the two launches it as well (`outcomes.py:742-745`, the same
  in `review` at 705-707): two attempts for one click.
* `execute_run` returns at `runner.py:451` and 576 without `finish_attempt`; the
  outcome stays running and keeps the routine busy until the server restarts. So does
  an outcome whose verification raised: `finish_attempt` only logs the exception
  (`outcomes.py:110-111`).
* A `tools/call` request that outlives its container records the calls of its batch
  without looking at the run (`gateway.py:159-171`). One that is held after
  `verify_outcome` has listed the held calls (`outcomes.py:232`) belongs to an outcome
  that may be delivered already; it stays held and nobody is asked.
* `deliver_outcome` writes back the receipt it read before the sends
  (`deliver.py:326-329`). A re-verification that fails meanwhile keeps its status
  "failed" and loses its receipt to the old one.
* A re-verification by hand may write back `recovering` after the retry was
  launched, without a date (`outcomes.py:316-318`): nothing takes the outcome up,
  so `RecoveringIsScheduled` is about all requests but `verify`.
* `add_action` cuts stored arguments at 20 000 characters (`db.py:2026`); what no
  longer parses is read as none, so an approved call of that size does not run
  "exactly as the agent requested" (`gateway.py:14`).
* When the provider's answer does not come, the agent is told that "the action was
  not run" (`gateway.py:217-218`) while it may have; its row stays `forwarded` for
  good, as it stays `approved` when the server dies between the claim and the mark.
* A container that closes its output and stays keeps its slot for ever:
  `proc.wait()` is outside the time limit (`runner.py:613`).
* A stream that joins while events are published loses those between its replay
  and its subscription (`main.py:1663-1673`).
* `get_latest_spec` returns the published definition before a newer draft
  (`db.py:1767-1772`), so "go live" does not publish "the routine's newest draft"
  (`main.py:1381`) once there is a published one. Two publications that overlap
  may leave none or two published.
* `run_agent_now` and `v1_run` launch without looking at `inflight_outcome`, and
  `_fire` looks before the outcome of the last launch exists.
* A crash between `create_agent` and `set_agent_enabled(False)` in `create_job`
  leaves a draft enabled and scheduled. A crash between the insert of a routine
  with an invalid schedule and its deletion (`main.py:451-459`) makes
  `scheduler.start` raise at the next boot (outside the model).
* `current_user` puts a removed member back into the organisation of the user's
  row when no membership is left (`auth.py:111-114`). `google_callback` and
  `accept_invitation` ignore an invitation's `new_workspace`, and `revoke_invitation`
  overwrites the status of an accepted invitation.
* The `delivery_failed` escalations of two destinations in one round share a row,
  so the second is not sent.
* An answer of the judge that leaves a criterion out lends it the entry at its
  position (`verify.py:294`). A directory that cannot be listed is an empty one
  (`verify.py:243`), so a coverage rule passes. A judge's check whose second question is answered with a
  body of another shape fails as a verifier error, although the first answer has a
  score (`llm.py:49-62` catches only HTTP and value errors). A
  `contains` that is no text can be stored, and ends its check as a verifier error
  (`verify.py:201`); so does a line whose timestamp has no zone, unless a later line
  is a hit (`verify.py:221`). A `where` or row rule that compares
  a column whose text looks like a number with a text never matches, since one
  side is a number and the other is not (`tablecheck.py:71-73`, 105).

## The proofs

The runs check small instances; the theorems hold for every value of the constants,
from the assumptions on them alone (`ProcsAssumption` and its like: names are
distinct, parameters are of their kinds). All invariants are proved in the same
way: an inductive `IInv`, `Init => IInv`, one lemma per action or group of
actions, and the theorem from `IInv`.

* `OutcomeEngine_proofs`. `TypeCorrect`: the type invariant is inductive.
  `OneExecutorAlways`, `DecidedCallsAreKept`: from
  `CallInv`, which says that a call in a coroutine's hands is `approved` and in no
  other hands. It is needed because the property itself says nothing of the row,
  and the step that ends a call writes the row whatever it holds.
  `GateIsRespected`, `DryRunsAreSingle`, `RecoveryIsScheduled`: from `IInv`,
  which adds to the types what each row promises (`RowInv`), that a dry run has
  one run (`OneRunWhenDry`), and that what every coroutine carries to its next
  write is sound (`AllSound`): a stale copy is harmless because the trigger
  never changes, an answer to an approval carries the receipt of a gated
  outcome, and a verification that recovers never belongs to a dry run. Without
  that part the invariant is not inductive, since the writes use old copies.
  `RecoveryIsScheduled` assumes that `"verify"` is not among the requests.
  `DeliveredIsChecked` assumes that nobody approves (`unchecked_approval` shows why):
  what every coroutine is about to write then passed its checks (`DInv`).
  `AttemptsFollow`, `AttemptsAreNumbered` and `NothingIsHeldBack` assume, as the
  run `recovery` does, that no people take part. They follow from `EngineAlone`: one
  coroutine is busy at a time (`OneBusy`), each finds the outcome in a state that it
  may work on (`AtWork`: the loop takes up only what recovers, everybody else what
  does not), and an active run is in the hands of its task or of the loop that
  starts it (`InHand`). `NothingIsHeldBack` is inductive beside them: a delivery is
  written when the listing was empty, and from then on no run is running, so that a
  call can only be held by a request which outlived its container.
  `LifecycleKept` is the refinement of `OutcomeLifecycle`, with the same assumption.
  Its counter is the number of runs that were started (`Begun`), so the invariant
  `LInv` (`BudgetKept`) has to count: the runs started have different numbers between
  1 and the attempts of the row (an injection into an interval, `BegunBounded`),
  nobody but the engine writes the log (`Unaided`), and a run that is yet to start,
  or an outcome that waits for its retry, still has an attempt of the budget
  (`Granted`). It also says at which status the coroutine that owns the outcome
  finds it (`Stage`, `LoopStage`). Then every step is `Quiet` (it starts no run and
  keeps what the status maps to, a stutter of the abstract specification), or it is
  the one that opens the outcome, starts an attempt, or ends it.
* `Delivery_proofs`. `RecordsAreTrue`: `RecordedMeansArrived` is read from the
  table in one step and used in a later one, so the invariant adds what a call
  carries in between: a call about to record success has a message that arrived
  (`MarksTruly`), and the list it will put on the receipt names only such
  destinations (`ListsTruly`). Nothing un-arrives, so both survive everybody
  else's steps. `OnceWhenAlone` and `LastFailureIsTold`: until something is
  `disturbed`, what arrived is on record or about to be put there by the only call
  there is, and what that call read of the row still holds (`CallsAlone`).
  `TriesStayBounded` counts: every try is on record, in flight, or lost in a crash
  (`Known`), and the tries, with those that forced calls may still begin, stay
  below the cap (`Capped`); a try that nobody forced begins with fewer than
  `MaxTries` on record, so `Known` brings it below the cap.
* `Gateway_proofs`. `NoCallTwice`, `TrailIsTrue`, `NoneOverlooked`, from an `IInv`
  in parts: each row agrees with what happened (`RowTrue`), a request carries rows
  of its own batch at the stage its label says (`RequestSound`), a person carries
  a call that is approved and has not run (`PersonSound`), no call is in two hands
  (`OneHand`), and the lists of an outcome's desk and of a review in progress hold
  every call that may still be held (`DeskSound`, `ReviewSound`). `PromiseKept`
  is the refinement: every step maps to a step of `ConnectorCalls` or a stutter;
  sending a batch maps to one `Run` of all its calls, which needs `RequestSound` to
  know that each is granted and has not run.
* `Escalation_proofs`. `SendersApart`: a task sends a row that is pending, which it
  found new; the loop sends one that failed and is due and has left its list
  (`ProcSound`, `ListSound`). So no two senders share a row. `ToldOnce` and
  `TriesEnd` follow with `RowSound`: an arrival is on record, in the hands of the
  coroutine that is about to record it, or the key is `misled`; and a try that is
  not on record belongs to a coroutine that still works on the row, or to a crash.
* `Teams_proofs`. `TeamKeepsAdmin`: whoever is about to write a departure has
  counted another admin who is still one, unless somebody overlapped (`WriteSafe`),
  and members are registered, so that the safety net of `current_user` brings
  nobody else in (`MembersKnown`); `InvitationUsedOnce`: one holder at a time, and a use comes before the mark of
  its own holder (`UseSound`).
* `Runner_proofs`. `SuccessIsEarned`, `ReasonSurvives`, `MemoryIsNamed`: what the
  coroutine has decided agrees with its container from `proc.wait()` to the end
  (`PathSound`); the row repeats it, and whatever trouble the run has had has left an
  error among its local variables (`RowSound`). The pump cancelled between
  an event and its publication is where it is delicate: the invariant follows the
  place `handle` returns to (`At`). `QuietJoinSeesAll`: such a stream has sent all
  that is stored but the event not published yet (`InTime`), or the time limit cut
  an event off (`CutOff`). The same module holds the limiter's theorem.
  `RateIsBounded`: whatever moment one begins to count from, a
  key gets in no more calls than a burst and the elapsed time allow, because the
  parts left in its bucket and the calls let in never exceed the capacity and the
  refill (a potential argument over the integers). Nothing is run for it: a clock
  has no bound worth enumerating, and the theorem covers every rate and burst.
* `Jobs_proofs`. All four invariants of the run, from an `IInv` in parts. A request is
  where its kind can be (`Placed`), and a routine that does not exist has nothing
  (`Unborn`, `Absent`). Versions are numbered without gaps (`Versioned`), so
  one more than the newest is a number nobody has; that a set of versions has a newest
  is the pigeonhole principle (`NewestIn`). `LastIsLive`: while definitions are
  written one after the other, one request at most is between its archiving and its
  insertion or publication, the number it will insert is free, and nothing
  is published meanwhile but what it has yet to replace (`SpecSound`).
  `ScheduleKept`: while switches follow one another, the scheduler's job is what the
  row asks for, except for what the one request under way is about to register
  (`SwitchSound`). `PausedKept`: until somebody switches a draft on, the clock is idle
  and has no run, and the row is enabled only while the request that creates it is
  about to pause it (`PauseSound`). `OneAtATime`: who has looked at
  `inflight_outcome` and missed nothing sees nothing in flight, and of two runs
  that wait or are in flight one is `blind` (`OccSound`).
* `Checks_proofs`. From `CInv`: what a check under way holds in its local variables is
  how the world was at a moment in `seen`, its score is that of one of the answers
  it was given (`UnderWay`), and what it has reported, a pass or a failure, is earned
  (`Reports`).
  The program's evaluators (`evaluate_expect`, `TablePasses` with its rules,
  `ArtifactPasses`, `Met`) are written as the code computes them, and what a pass
  must mean (`CellEarned`, `TableEarned`, `FileEarned`, `Shown`) in another way: by
  the distance from a bound, the difference of two sides, pairs of rows instead of the
  duplicates found so far. The lemmas that the first is the second are the proof's weight
  (`CellIsEarned`, `TableIsEarned`, `FileIsEarned`, `MetIsBacked`, `ReachesIsShown`).
  They are equivalences, so that `PassEarned` and `FailEarned` rest on the same ones. A
  judge's failure also needs that no answer so far was enough when it is asked again
  (`NotEnough`), and that the better of two scores is kept (`MoreReaches`); "the first row that
  raises" and "the last entry with this text" are `CHOOSE`s over sets of positions,
  whose least and greatest elements come from the well-foundedness of `<` (`Least`,
  `Greatest`). `DeliveryProven`: a verdict is drawn when all automatic checks have
  reported (`Drawn`), and a stored person's check is required exactly when it is a
  gate (`Sorted`), so what `verify_outcome` requires is what the job asked for.
  `TypesKept` needs `CInv` for the kinds of the checks.
  `InputsAssumption` says that drafts, tables and answers are of the program's types;
  TLC evaluates it on the run's instance.

Model-checked only: the liveness properties, since fairness is out of the prover's
reach. That a provider asked by `Checks` is one of `Candidates`, and what the
recursive helpers of the library compute for every sequence, take induction over data
and are in no theorem; the type of `mem[i].at` is a position, no more.

## Not modelled

* Planner (`app/planner.py`): prompts and the context they gather; what it drafts
  is validated as `Checks` has it and saved as `Jobs` has it.
* Connectors and data sources: HTTP clients and credentials. The gateway and the
  checks model what comes back.
* Container agent (`agent/`): another process, known here by the events it prints
  and the code it exits with.
* Ledger, metering and alerts: sums over finished runs; they read what others
  write and never fail a run.
* Configuration, schemas, encryption, passwords, cookies and the expiry of
  sessions: data, or one statement.
* Web console: a client of the API.
