# Verification of kernel.os-joy.com

TLA+ modules of the kernel, the TLC instances that check them, and TLAPS proofs
about them. The kernel is one Python process (FastAPI, threads, forked
children) over one PostgreSQL database. A shell sends it lines over HTTP; a pool
of threads answers them with calls of a language model; background sweeps work
the same database at their own pace. Almost all of its correctness rests on what
is committed when, and on what another thread may have committed in between:
that is what is modelled. Prompts, wire formats and the content of replies are
not.

Paths are relative to `src/`; `memory/`, `loop/`, `tools/`, `adapters/` stand
for the directories of that name under `services/`.

## 1. Inventory

| component | state | operations | who touches it |
|---|---|---|---|
| **Answer guarantee** (`memory/intake.py`, `loop/worker.py`, `main.py` lifespan) | table `intake`: status, attempts, answer, failed_reason, status_changed_at, delivered_at | record_message, claim_next, mark_answered, mark_failed, fail_overdue, requeue_failed, abandon_exhausted, mark_delivered, recover_orphaned | routes /intake, /answers, /answers/delivered; 4 workers; the reconcile sweep; start-up |
| **Killable execution** (`loop/execution.py`) | a child process and its queue | run_with_deadline: completed, timed out (killed), crashed | every model call of a worker |
| **Tool seam** (`tools/tools.py`) | registry in code, table tool_catalog with its vectors | search_catalog, decide, observe, judge_observation, execute, compose_confirmation, reconcile_catalog | a worker's attempt; start-up |
| **Reminders** (`tools/reminder.py`) | tables `reminder` (intake_id pin, fire_at, fired_at, cancelled_at), `reminder_decline` | create, cancel, update, claim_due, mark_fired, near, within, standing, record_decline | the tool seam; routes /reminders; the firing sweep |
| **Conversation memory** (`memory/conversation.py`) | tables conversation_item (append-only), conversation_gist (cutoffs) | record_utterance, recent, next_symbiot_to_fold / _collapse, claim_fold, pending_for_fold, record_gist | intake route, workers, firing and enrichment sweeps; compression and idle sweeps |
| **Enrichment** (`memory/enrichment.py`) | table enrichment (one row per burst, anchored on its last message) | next_burst_to_enrich, claim, compose, is_echo_of_prior, record, record_burst | enrichment sweep |
| **Ingestion, ontology** (`memory/ontology.py`, intake.next_uningested) | tables schema_ontology (types, UNIQUE names), active_ontology_embedding, diary_facts, diary_fact_ontology (which types a fact is filed under) | next_uningested, extract_concepts, recall_candidates, route_concept, mint, persist | ingestion sweep |
| **Ontology merge pass** (`memory/ontology_gc.py`) | the same tables; merged_into, the redirect of a type that was folded | candidate_pairs, cluster, pick_survivor, collapse | its sweep |
| **Retrieval** (`memory/retrieval.py`, `deep_retrieval.py`) | none | search, expand_by_concept | workers, enrichment |
| **Missives, dispatch, push, presence, preferences** (`loop/missive.py`, `loop/notify.py`, `adapters/push.py`, `memory/presence.py`, `memory/notification_prefs.py`) | tables missive, reply_channel (push subscriptions), presence, notification_preference | deliver, unseen_for_symbiot, mark_seen, dispatch, save_subscription, fan_out, notify, prune_subscription, set_channel | routes /inbox, /push, /presence, /notifications; all sweeps |
| **Identity** (`identity.py`) | login codes, sessions | issue_login_code, verify_login_code, session_status, logout | routes /login, /session |
| **Model configuration, LLM ladder, calibration** (`memory/model_config.py`, `adapters/llm.py`, `models.py`, `calibration.py`, `memory/generative_call.py`) | tables model, model_role; a cache of both in each process, behind a lock; the measured window of the local floor; the ledger of calls | upsert_model, delete_model, set_role, reload_from_conn, generate, _fit, _call, measure | every model call; route /models; start-up |
| **Rate limiting** (`core/rate_limit.py`) | sliding window per caller and path | retry_after, enforce | the routes it guards |
| Zone, persona, reply, echo, observe | none of their own but the symbiot's zone | rendering and reading | workers, routes |
| Config, DTOs, protocol words, logs, pool, e-mail, embeddings, migrations, scripts | constants, schemas, I/O | | all |

How they interact. All through the database and by calls within one process.
Routes run on autocommit connections (`core/db.py`), so every statement of a
route is a transaction; workers and sweeps open transactions of their own, at
READ COMMITTED. Rows are claimed with `FOR UPDATE SKIP LOCKED`; what must
happen once is pinned by a UNIQUE column (`reminder.intake_id`,
`reminder_decline.intake_id`, `enrichment.intake_id`, `diary_facts.intake_id`). A
connection of the pool is not in autocommit: its first statement opens a transaction
that ends with the `with` block, and a `conn.transaction()` inside it is a savepoint
(`db.py:67`, `101`). So an attempt at a message holds none over the model calls of its
children, as its reads and its writes have blocks of their own (`_process_one`), but a
fold, an enrichment pass, an ingestion and a merge pass each hold one from their first
read to their end, model calls included. In either case what was read before a call
may be stale after it; in the latter, what was written before it is not seen by
others until the end.

What is hard, and what would make each component correct:

* *Answer guarantee.* Workers hang, are swept while alive, and return late; the
  process dies between any two commits. Correct: every acknowledged message ends
  answered or abandoned, once, and what was told about it stays; one attempt has
  one worker; the conversation holds the reply exactly when the row does; one
  nudge at most.
* *Reminders.* A firing in progress races cancels, edits and retried attempts;
  executors read before they write. Correct: never fired and cancelled, said once
  and as it stands, one per message, a due one fires.
* *Conversation.* Two sweeps and live turns race over one tail; ids are issued
  before they commit. Correct: gist and tail cover the stream without overlap,
  cutoffs only grow.
* *Enrichment.* A burst is picked before its lock is claimed, and answers come
  late. Correct: each message considered, once; each follow-up compared with all
  before it; a follow-up and its records stand or fall together.
* *Ontology.* Ingesters hold what they read of the vocabulary through model
  calls, and what they wrote uncommitted, while a merge pass does the same to fold it. Correct: one fact a message; redirects end
  at a live type; a fact stays filed under what its types became.
* *Notifications.* A subscription is read, then used and pruned outside a
  transaction. Correct: a live subscription survives the pruning of a dead one; a
  failing channel stops no other; a missive is acknowledged by its symbiot.
* *Identity.* The mail is sent inside the transaction that writes the code; the
  guess is judged outside the one that spends it. Correct: what can be spent was
  mailed; what was spent has its session; a code is compared with a bounded number of
  guesses.
* *Rate limiting.* Correct: who waits as long as told is let in.
* *Execution.* The deadline races the answer and a child may cling to life.
  Correct: the parent always returns, with one outcome.
* *Generation.* Checks, writes and the reload of a cache are statements of their
  own; one prompt is fitted to one model and answered by another. Correct: no role
  without a model; the cache follows the store; a prompt is within the window of
  the model that answers; the ledger names that one.

Every hazard, at its line, with the properties that answer for it, is in
`PROJECT.json`.

## 2. Modules

| module | what it is | theorems |
|---|---|---|
| `AnswerGuarantee` | abstract: what is promised about an acknowledged message | |
| `Intake` | the table, the workers, the reconcile sweep, recovery, three routes; implements `AnswerGuarantee` | `IntakeProofs` |
| `ReminderPromise` | abstract: what is promised about a reminder that was taken | |
| `Reminder` | the reminder's lifecycle, the attempts of the tool seam, the terse routes, the firing sweep; implements `ReminderPromise` | `ReminderProofs` |
| `Conversation` | the stream, the gist, the compression sweep's two folds, the read of a reply | `ConversationProofs` |
| `Enrichment` | bursts, their settling, the deep second pass and its follow-ups | `EnrichmentProofs` |
| `Ontology` | ingestion's routing and filing, the merge pass, the walk by shared type | `OntologyProofs` |
| `Notify` | missives, channels, preferences, presence, push subscriptions | `NotifyProofs` |
| `Door` | rate limit, login code, session | `DoorProofs` |
| `Generation` | the model catalog and its caches, one generative call, the child it runs in | `GenerationProofs` |
| `MC...` | one instance of each for TLC, with its configurations | |

The modules meet at tables and outcomes, and each says what it takes from the
others as a choice: a message of `Intake` settles in `Enrichment` and `Ontology`
by one step (`Answer`, `Settle`); a child's outcome in `Intake` is any that
`Generation` brings back; the missives that `Enrichment` and `Reminder` commit
are raised by any thread in `Notify` (`deliver`).

Left of the plan: the catalog of tools (`reconcile_catalog`) as a race of two starting
kernels.

## 3. Intake

The grain is the committed transaction. `_process_one` is split where it commits
or waits: claim (`LockOldest` takes the row lock, `ClaimNext` commits),
`Gather`, the children (`Reply`, `Decide`, `Confirm`), the executor (`Act`),
the outcome's transaction (`Settle`), the nudge (`Nudge`). Each UPDATE of
`intake.py` is an operator on a row with the same name and the same guard; the
reconcile pass composes three of them in the code's order. The pass is one step
because its statements commit together and each looks at one row at a time.
`IterationFails` is an exception on the worker's own thread, which `run` logs
and survives; `Crash` is the end of the process at any moment; `Recover` and
`StartThreads` are lifespan's order, recovery first.

| variable | code |
|---|---|
| `intake` | the table; `answer` names the attempt that composed the reply, `overdue` says that `status_changed_at` is older than the ceiling |
| `asked`, `replied` | turns on `conversation_item` pointing at the message |
| `step`, `held`, `try`, `result` | where a worker's thread is, its message, which claim that was, its child's outcome |
| `owed` | the ids the abandon statement returned and the loop has not nudged about yet |
| `nudges`, `shown`, `kernel` | calls of push.notify; what /answers has told; the process |

*Abstractions.* A row that is working may become overdue at any moment, also
with its worker alive, since an attempt may take several deadlines in a row.
Children appear by their outcome. One kernel process owns the database and
WORKER_ENABLED is on, as deployed. What a tool does is `Reminder`'s concern.

*Fairness* (`FairSpec`). Worker threads, the sweep and start-up run for as long
as the process does, and each of their steps ends: children within their
deadline, transactions because the database answers. Weak fairness per worker,
strong on the claim's commit: a claim may fail, but not each time for ever. Time
passes. Nothing obliges a shell to do anything or the kernel to crash;
`EveryMessageSettles` assumes that the kernel eventually stays up.

*Runs.*

* `intake`: two workers, two messages (one of an authenticated sender), two
  attempts each, crashes without bound. Two workers are what a stale worker and
  its successor take; a second message is what a wrong claim, nudge or row lands
  on; two attempts make both a retry and an exhausted budget happen. The shells
  read and confirm the first message only (`ShellsWatchOne`): reads change
  nothing a worker or sweep looks at, and of the second message the workers' and
  the sweeps' steps are there in full. Checks types, five safety invariants, that
  `Intake` implements `AnswerGuarantee`, and that each message settles.
* `stale_worker` (violation): a comment of fail_overdue says a swept worker's
  outcome changes nothing. After the re-queue and a second claim it does: the
  status is `working` again and the guard asks for nothing else.

## 4. Reminder

| variable | code |
|---|---|
| `reminder`, `decline` | the tables `reminder`, `reminder_decline`; the stamps as booleans |
| `missives` | the missives raised for each reminder (its mirror on the stream commits with them) |
| `now` | the clock, up to `Horizon` |
| `job` | one attempt: the local time it began with, the decision, the judge's match, the stamps `find` saw, the result |
| `tried`, `answered` | attempts begun and answers given, as far as they bound retries |
| `firing` | a sweep's open transaction: the row it holds FOR UPDATE and the line it read |

The writes of `reminder.py` are operators of the same names with the guards of
their WHERE clauses. A statement is one step; an executor's `find` and its write
are two (READ COMMITTED). A write to a row a firing holds waits (`Locked`), as does
the insert of a decline, whose foreign key needs a share of that lock. A decision
is any tool with any arguments, since what a model reads into a line may differ
between attempts; the judge picks any candidate or none, and its failing open is
none. A failed attempt may begin again up to the limit, with another decision.
Two attempts at a message may overlap, as Intake's stale workers do.

*Abstractions.* Wording is a model value and similarity any choice among the
candidates; the caps on candidates are therefore covered. Channels are data. A
terse route's reading of the clock and its write are one step. Ids are issued in
order of commit.

*Fairness* (`FairSpec`). Time passes and a sweep looks again; a firing may fail and
roll back now and then but not for ever, hence strong fairness on `Fire`.

*Run.*

* `reminder`: two symbiots, a worker with two attempts at one message, two sweeps,
  two lines, two reminders, and a clock that stands before their moment or at it. The
  attempts follow each other; two that overlap are in the theorems, which hold for any
  number of workers, as are several moments. Two reminders due at once are what a claim
  skips. Checks types, what is said, the pin, that `Reminder` implements
  `ReminderPromise` (`KeepsPromise`), and that a due one fires unless it is called off
  or moved.

`ReminderPromise` has four actions for a reminder: it is taken on some terms, its terms
are changed for the same owner, it is called off, or it is said, once, when its moment
has come and in the words it then has. In the mapping an attempt's steps, a sweep's
claim and a write that finds no live row are invisible; `create`, `update`, `cancel`
and the commit of a firing are the four. A firing maps to `Say` only if its row is still
due and still worded as it was read, which is what the row's lock is for.

## 5. Conversation

| variable | code |
|---|---|
| `item` | the table `conversation_item`: whose line each id is, and whether its insert's transaction is open, committed or rolled back |
| `fresh` | the items whose `created_at` is less than COMPRESS_IDLE_SECONDS ago |
| `gists` | the table `conversation_gist` per symbiot; `turns`, `told` and `open` say what a paragraph was made from |
| `claimed` | the advisory lock of each symbiot's fold |
| `sweep` | a pass: the trigger it looks for, the symbiot it picked, the gist row and the turns it read |
| `reader` | a call of `recent`: the gist row it read, then the tail |

Every statement of a fold and of a read is a step, since each sees what has
committed by then. `_compress_one` and `_collapse_idle_one` are one set of actions
with `keep` for the budget: the code of the two differs in the eligibility read and
that number. `run_compression_sweep`'s `or` is `Otherwise`. The writers (requests,
workers, the firing and enrichment sweeps) are any number of short transactions
that take an id, then commit or roll back, in any order.

*Abstractions.* A summary is the set of turns that went into it. The token counts
are a constant per id: any line may be the large one, as the theorems hold for all
such constants. `fresh` lets go of items one by one and in any order, which only
matters in that a tail is quiet when none of its items is fresh. A failure at an
earlier statement of a fold than the model call leaves behind what one at the
call does, and is not a step of its own. One kernel process starts one sweep; the
claim is there for several processes on one database, and so are two sweeps here.
Reads exclude nothing or one line (`exclude_intake_ids`); an excluded line may be
in the gist already, and then the reply reads it twice: the model has this, no
property speaks of it.

*Fairness* (`FairSpec`). Transactions of writers end, time passes, a sweep's
thread keeps going (it catches what a fold raises), and a fold that is tried
again and again goes through at some try. Without the last a symbiot whose fold always
fails is picked first for ever, and no other is folded: the pick is by lowest
id.

*Runs.*

* `conversation`: two symbiots, two sweeps, a reader, and two lines, the first of
  which alone is over the budget. Two lines are what a fold, a kept tail and a line
  that commits late take; two symbiots, that one is picked before the other. More
  lines are the theorems'.
* `conversation_hole` (violation): recent's doc says that gist and tail miss
  nothing. A line that takes its id before another one and commits after a fold
  has read past it is missed for ever. `NothingMissedButOpen` and
  `NothingDropped` say, in the passing run and in the proofs, that nothing else is.

## 6. Enrichment

| variable | code |
|---|---|
| `clock` | now(), in ticks, up to `Horizon` |
| `intake` | the authenticated messages: whose, when, and whether answered |
| `enrichment`, `missives` | the table enrichment, one verdict a message; the follow-ups sent, with what each was compared with |
| `claimed` | the advisory lock of each symbiot, held by a pass's transaction |
| `pass` | a sweep's transaction: picked, claiming, composing, about to record |

A pass is the one transaction of `_enrich_one`, split at its reads: the burst is
picked before the lock is tried, what was sent before is read after it. The
window query is its definition: a message ends a burst when the next eligible one
of its symbiot comes more than the interval later. `Record` writes the missive
and a row for each member, or, where a row is there, nothing.

*Abstractions.* Whether anything is worth saying, and whether it echoes, are
choices; what is modelled of the guard is which follow-ups were compared, and that
an unreachable embedder lets one through. Whether the burst's length is within
the model's window is data. A message given up waits for ever.

*Fairness* (`FairSpec`). Time passes; a sweep's thread keeps going, as it catches what
a pass raises. Failed passes are bounded (`MaxFailures`), so a burst whose pass
always fails, which holds all others off since the lowest id is picked first, is not
there: `AnswerIsConsidered` assumes that a pass goes through in the end.

*Run* `enrichment`: one symbiot, two sweeps, three messages in three ticks, the
interval one tick. Three messages make bursts of one, two and three, an answer that
comes late inside a burst or before one already considered, and a stale pick; two
sweeps, a lock that is held.

## 7. Ontology

| variable | code |
|---|---|
| `onto` | schema_ontology: coined or not, parent, the redirect merged_into, and whether there is a vector in active_ontology_embedding |
| `settled` | which messages of intake are eligible |
| `routed`, `links` | diary_facts and diary_fact_ontology: what each fact was filed under, and what it is linked to now |
| `ingester` | an ingestion: its message, the concepts left, what recall offered, the name about to be inserted, and (`wrote`) the rows its transaction inserted |
| `gc` | the merge pass: clusters left, the survivor, its losers left; the rows its transaction updated (`wrote`) and the links it re-pointed (`links`) |

The grain is the statement, and the transaction is the whole ingestion or the whole
pass. `_ingest_one` takes a connection, `zone.of` reads on it, and all that follows to
the end of the block is one transaction, as the pool's connections are not in
autocommit; the transactions that `mint` and `persist` open are savepoints of it.
Likewise `candidate_pairs` opens the transaction of a merge pass, and each `collapse`
is a savepoint of it. So `onto` and `links` hold what is committed, and what a
transaction has written lies over it for its own eyes (`Seen`, `LinksSeen`) until it
commits (`Persist`, `EndPass`) or is rolled back (`IngestFails`, `MergeFails`), the types
it minted or all the collapses of the pass with it.

An ingestion reads the vocabulary (`Recall`), decides after a model call (`Reuse`, or
`Coin` of a name that may be in the table by then, folded or not), inserts (`Mint`:
the INSERT waits while another transaction holds the name, and then leaves the
winner's row or, if that was rolled back, writes its own), and persists fact and links
with what it minted. Two that wait for each other's names are ended by the database's
deadlock detection, which is an `IngestFails`. The merge pass reads pairs once
(`Confirm`), then, cluster by cluster, has the survivor picked and folds the losers,
each statement over what others have committed by then.

*Abstractions.* Distances, scores, gates and prompts are choices: any live type
may be offered, any pair confirmed, any member survive. No row is ever deleted and
names are unique, so a type is known by its name. Only one merge pass runs (one
kernel starts one); ingesters may be several, one for each kernel on the database.

*Runs.*

* `ontology`: three names, two messages, two ingesters, at most two concepts a message.
  Three names are a cluster of three and a chain of two merges; two ingesters, a race
  for a name, each holding a name the other waits for, and a second filing of one
  message; two messages, one filed while the pass has re-pointed the other's links and
  not committed. Symmetric in names and ingesters; safety only.
* `ontology_stale` (violation): a comment of cluster says that a fact filed under
  any member ends up under the survivor. Of a type folded by a pass that is still at
  work, row and vector are there for everyone else: a message is routed to it, filed
  after the pass has re-pointed the links it could see, and keeps a link to the folded
  type, where the walk of `expand_by_concept`, which follows no redirect, never
  meets it.

## 8. Notifications

| variable | code |
|---|---|
| `missive`, `channel` | the tables missive and reply_channel, the latter by endpoint |
| `alive` | the endpoints the push service knows |
| `disabled`, `present` | notification_preference; the symbiots seen within the presence window |
| `browser` | a device: session, what its inbox shows, its endpoint |
| `thread` | a fan-out: channels, targets and dead ones still to serve, as it read them |

A fan-out runs on the thread that raised it, outside any transaction: preferences
and presence are read once (`dispatch`), subscriptions once (`_send_web_push`), each
send is a step (`_send`), and the dead are pruned at the end by id. Meanwhile devices
sign in, poll, subscribe and acknowledge. `notify` is the path of a settled message
with a reply channel.

*Abstractions.* Keys, signing and mail are the outcome of a send. A missive may be
raised for any symbiot. The push service forgets endpoints at any time; it never
brings one back, and gives a browser a new one when it subscribes again.

*Run* `notify`: two symbiots, one device, two threads, one missive, two endpoints.
The device changes hands; its endpoint dies, is replaced and adopted under either
thread's feet. More devices make the same races again. Symmetric; safety only.

## 9. The door

| variable | code |
|---|---|
| `row` | login_code, the live row of each symbiot; `fresh` and `expired` are its age against the two intervals |
| `drawn`, `mailbox`, `spent` | codes drawn, codes that arrived, codes consumed |
| `judged` | none: how many guesses each code was compared with, for `BudgetHolds` |
| `session` | the table session |
| `thread` | a request: mailing inside its transaction, or judging against what it read |
| `hits`, `told` | the limiter's window of one caller; the wait a refused one was told |

`issue_login_code` draws the code and locks the row; `Mail` sends, or does not, and
commits, or does not: mail without row is possible, row without mail is not.
`verify_login_code` reads in a statement of its own; `Charge` and `Spend` write to the
row as it is then. The UPDATE of a wrong guess adds to what the row holds, that of a
right one matches the id alone. A request that read a code before it was burned or spent is
therefore judged still, and mints a session if it is right.

`BudgetHolds` says what is left of the budget in this: a code that can be spent was
compared with fewer guesses than its budget, and no code is ever compared with more than
its budget and one for each other request. The bound is reached (two requests and a
budget of two: three guesses, the last of them after the burn, and right).

*Abstractions.* Codes are numbers, a guess is a code that was mailed to anyone or
a mistyped one. The limiter is for one caller on one path, which is how it keeps
its windows; its clock has `Grain` ticks in a second. `hits` keeps ages, oldest
first, as the deque keeps times; `Outlived` counts those that `retry_after` would pop
(its loop stops at the first that has not aged out), and `InWindow` is the rest.

*Run* `door`: two symbiots, three requests, two codes, two sessions, two wrong guesses
a code, two hits in a window of one second of two ticks. Three requests are two
judgements at once beside a mailing, or beside the guess that burns; two codes, one
that overwrites another under a request that judges the first; half seconds are what
the truncation of the wait needs. Symmetric; safety only.

## 10. Generation

| variable | code |
|---|---|
| `store`, `parent` | the tables model and model_role; the cache of the kernel's process |
| `mode`, `up` | IS_LOCAL; whether the kernel runs |
| `request` | a request on /models, between its check, its write and its reload |
| `call` | a unit of work: its process's cache, the prompt and the model it is fitted to, the rungs left, the ledger's row, where parent and child are |
| `overlap`, `writes`, `boots` | whether two requests ever ran at once; bounds |

Requests are in autocommit: check and write are two statements, as are the reads of
catalog and roles. A child is spawned (`run_with_deadline`), loads its own cache,
fits the prompt (`_fit`, which condenses the context by a call of its own), goes
down the ladder (`Outage`, `Refuse`, `Hang`), writes the ledger and puts its result.
The parent waits for the deadline, terminates, and kills one that clings.

*Abstractions.* One role stands for all. Sizes and windows are small numbers in
one unit, the margin off; the floor of `_MIN_CONTEXT_TOKENS` under a condensed
context is a context of nothing. Output caps, wires and schemas are left out. The
builtin tiers are those of the code, by short names.

*Fairness* (`FairSpec`). Weak fairness for the parent's steps alone: its joins have
time-outs. Nothing is assumed of a child or of a provider; `WorkReturns` holds all
the same.

*Runs.*

* `generation`: one operator's model, narrower or wider than the builtin tiers; two
  requests, one unit of work, three writes, one start, on either kind of box. An
  action constraint (`Apart`) lets requests overlap only while no work runs, on a
  cloud box; a unit of work reads the store for itself, so that one request beside it
  shows it every state a read can meet. Of the three prompts one fits all windows but
  the narrowest, one has no context to condense, and one is condensed for every
  window, for some of them twice. `FitsOneAsked` is what holds of a prompt's size in
  all of these: it is within the window of the model that answers, or of the one that
  was asked for.
* `generation_refit` (violation): a comment of _call says that the local branch
  fits again for the model that will answer. A prompt that was condensed once holds
  its context no longer in the words the second fitting looks for, and goes out as
  it is.

What `generation` does not show: that a change on /models takes effect at once
(`main.py:496`) is checked while no two requests overlap; a reload that fails after its
write was committed, which leaves the cache behind until the next one, is not a step of
the model; `FitsOneAsked` holds of itself for a prompt without context, which nothing
can condense; and that no window is wider than `Wide` is a bound of the model, as
the code sets none to LOCAL_WINDOW_TOKENS.

The property is `PromptFits`, as the comments state it. Two more of them it refutes under
other constants, without a run of their own: with `Modes = {FALSE}`, `Added = {x}`,
`Windows = {4}` and `Wide = 3`, llm.py:410-411 ("every rung is at least as wide as the one
above"), by an operator's model wider than the rungs it falls to; and with
`Modes = {TRUE, FALSE}`, no operator's model and two starts, main.py:86-87 (the measured
window "only binds where the local model is the one answering"), by a window measured on
a local-only box and read by a later start on the cloud, where the floor is then the
narrowest rung. `CloudFits` proves `PromptFits` for the boxes where neither happens.

## 11. Proofs

`IntakeProofs` proves for any number of messages, workers and attempts what
`intake` checks on two: `TypeCorrect`, `OneWorkerPerAttempt`,
`RowsExplainThemselves`, `NoneAbandonedEarly`, `ToldOutcomeIsFinal`,
`ConversationMirrors`, `AtMostOneNudge`, and `GuaranteeKept` (the
refinement). Assumed are the ASSUMEs of `Intake` (message ids are naturals, the
budget is positive), which every run evaluates.

The invariants are not inductive alone. `AttemptHasOneWorker` needs to know that
a worker in mid-attempt holds a claim no newer than the row's count, that one
still under its claim's lock holds a row that is `received`, and that no two
workers hold the same lock; `NudgedOnceSettled` needs to know that a message whose
nudge is still to come (in `owed`, or with a worker about to nudge) is settled and
has had none. `IInv` is the conjunction of these with the invariants
themselves. One lemma per action shows that it preserves `IInv`; `Inductive`
puts them together; the refinement uses `IInv` to find the abstract step of
each action.

`ReminderProofs` proves the same way what `reminder` checks: `TypeCorrect`,
`NeverBothStamps`, `SaidOnce`, `MessageLeavesOne`, `DeclinesStayHome`,
`SettledForGood`, and `PromiseIsKept` (the refinement). Assumed are the ASSUMEs of
`Reminder`. What the invariants
lack to be inductive: rows unwritten are blank and written ones whole
(`RowsWhole`); what a sweep holds is live, worded as the sweep read it, and held
by no other sweep (`ClaimsHold`: this is where the row lock and SKIP LOCKED
enter); what an attempt carries is its sender's (`JobsOK`). Four lemmas say what a
cancel, an update, a create and an unchanged table keep; each action's lemma
cites one of them. The refinement needs one fact more, `ClaimsDue`: what a sweep holds
stays due until it lets go, since nobody moves a row it has locked. `StepMoves` reduces
every step to a statement over the table, a firing, a tick or nothing, and one lemma for
each of these finds the step of the promise. `SettledForGood` (`SettledStays`) is in no
run: but for a row's pin it is part of the promise.

`ConversationProofs` proves what `conversation` checks: `TypeCorrect`,
`ExactlyOnce`, `SummaryComplete`, `NoOverlap`, `NoGap`. Assumed are the ASSUMEs
of `Conversation`; among them `WeightAssumption`, that a larger set of lines weighs
no less, follows from the counts being natural numbers by induction over finite
sets, which is out of the prover's reach, and is evaluated by every run. The
invariant adds: ids are issued in order (`IssuedInOrder`), so a new line is past every
cutoff; each row of a history continues those before it (`HistoryOK`); a line that is
committed or still being written is past the cutoff, folded, or passed over
(`Accounted`: the open ones must be in it, as they may commit at any time); a sweep
past its claim holds the lock, so that the row it read is still the newest when it
appends (`PassOK`); a read's row never changes and its tail is what lies past it
(`ReadOK`). `OverflowIsOldest` is why a fold's cutoff leaves no kept turn behind,
`RowKeeps` is what an append does to all of this.

`OntologyProofs` proves what `ontology` checks, for any number of names, messages and
ingesters: `TypeCorrect`, `RedirectsResolve`, `FactsFollowTheirTypes`. Assumed are the
ASSUMEs of `Ontology`. There are two tables to keep in order, the one that is committed
and the one the merge pass sees (`Seen(gc.wrote)`), and each fact of one has its
counterpart in the other. `IInv` says of both that rows are whole (`Rows`); that what
ingestions hold uncommitted are names not in the table, each held by one of them
(`Pending`: this is where a second INSERT of a name waits); that the types an ingestion has
in hand are in the table it sees (`Working`); that a pass has written rows and
links of what is committed alone (`Rewritten`); and that it owns what it has in hand:
its clusters are disjoint sets of types live in its view, and its survivor and losers
are live and in none of them (`Owned`; `ClustersApart` is why the classes of stitched
pairs are disjoint). On top of it, `Leads` says of both tables that redirects end at live
types and that facts are linked to what their types lead to. A commit of an ingestion
adds rows to both (`GrownRows`, `GrownLeads`); a collapse turns a live type of the pass's
view into a redirect to another (`CollapseFolds`), and what led to the loser then leads
to the survivor, where its links go (`CollapseLeads`); at the end of a pass the view
becomes the table (`EndPassLeads`), and a roll-back makes the table the view again.

`DoorProofs` proves all that `door` checks, `TypeCorrect`, `MailedBeforeLive`,
`SpentCodesOpen`, `GuessesAreCounted` and `WaitsAreTrue`, for any number of symbiots,
requests and codes, any budget, limit, window and grain. Assumed are the ASSUMEs of
`Door`. The invariant adds that a request that judges read a code that had come to the
symbiot's mailbox (`Reading`), and, for the budget, four things. A code is unseen until
its transaction commits: no row holds it and no request read it (`Fresh`). A live code is
in the row it was read from (`InPlace`), so that a wrong guess at it is charged to its
own row. The guesses a live code was compared with are at most those its row has
counted (`Counted`), which is where the UPDATE's own addition enters. And those it was
compared with, together with the requests that have read it and are still to judge, are
fewer than the budget and the requests there are (`Bounded`): while the code lives by
`Counted`, and after that as each guess judged is one fewer to be judged. For the
limiter it is `Paced`: no more hits are kept than the limit, and while a caller waits as it
was told, either there is room or the oldest hit will have left the window by the end
of the wait. `MinIsLeast` is what the choice of the first hit that has not aged out
means, `WindowIs` what is left of the hits in the window, and `Quotient` what the
truncation to whole seconds, plus one, is worth.

`EnrichmentProofs` proves what `enrichment` checks of safety, for any number of sweeps,
messages and failures: `TypeCorrect`, `ConsideredOnce`, `NoneSideBySide`. Assumed are
the ASSUMEs of `Enrichment`. The invariant adds that a symbiot's lock is held by the very
pass that composes or records for it (`Locking`), so nothing is sent to the symbiot
between the read of what was sent and the commit, and what a pass compared is all of it
(`Compared`); and that a burst is of answered messages with one that no other comes
after (`IsBurst`), which `AnchorIsLast` needs for the follow-up's anchor to be one of its
own. A burst is picked before the lock, and may be stale when it is recorded:
`AnchoredOnce` then rests on the UNIQUE key of the members alone.

`NotifyProofs` proves `TypeCorrect`, `LiveOnesStay`, `AllAreTried` and
`AcknowledgedByItsOwn` for any number of devices, threads and missives. Assumed are the
ASSUMEs of `Notify`. The invariant adds that a known endpoint has a row of its own number
(`Numbered`), and that what a thread holds as dead was issued and is dead
(`DeadForGood`): an endpoint the push service dropped is never known again, so the prune
at the end of a fan-out, on what it learnt some sends before, removes none that lives.
`OnCourse` says how far each fan-out has come.

`GenerationProofs` proves every safety property that `generation` checks, for any
number of models, requests, units of work, starts and any sizes and windows:
`TypeCorrect`, `CacheFollows`, `ComposedToFit` (`FitsOneAsked`) and `LedgerIsTrue`.
Assumed are the ASSUMEs of `Generation`. It has two inductive invariants, the second
on top of the first. `IInv` is about the configuration: while no two requests
overlapped, one at most is under way, what it has read is the store, and the cache
differs from the store only between its write and its reload (`InStep`); the role is
a model of the code or one that is registered (`Assigned`), which the foreign key keeps,
as the check of a request may be stale by its write. `Works` is about the calls, and
uses it where a child reads the role. `OnCourse` says, stage by stage, what is known of
the prompt: about to be fitted to the model asked for, as it came, or a second time to
the local one, fitted to the first already (`Fitting`); fitted; out for a summary, and
then too wide for its target; on its ladder, and then `Good` for every rung that is
left. The last is what makes an outage harmless, and what the result is read off. What
a condensation yields is `CondensedFits` and `Spliced`: the target's window, or the
instructions alone; but a context condensed before stays, and all that is left to say
is that it was condensed to the window of the model asked for, having overrun it.

`CloudFits` proves `PromptFits` itself from two hypotheses on the constants that the
code does not enforce and most boxes meet: IS_LOCAL is never set (`Modes = {FALSE}`),
and no operator's model is wider than the flagship. Either of the two
refutations named in section 10 drops one. Under both, the tables hold no measured
window (`Plain`) and no rung of a ladder is narrower than the model it is called for
(`LadderWidens`, by the tiers of BUILTIN_MODELS and the two fallback maps).

Only model-checked: liveness (`EveryMessageSettles`, `DueFires`, `EndsUpFolded`,
`AnswerIsConsidered`, `WorkReturns`) and the violations. The former depend on fairness
and ENABLED, which the prover does not treat; the latter are counterexamples. Every
invariant and every action property that a passing run checks is a theorem.

## 12. Met on the way, and stated by no run

The models contain these; the code, its comments and tests promise nothing of them
that a property could quote, or what they promise is beneath the abstraction.

* An exception out of `push.notify` (its own reads, the signer) leaves the loop of
  the reconcile pass, and the other messages abandoned in it get no nudge
  (`worker.py:742`; `NudgeRaises`).
* A schedule retried after its first attempt was stored reports what it decided now,
  though `create` kept the row of the first (`reminder.py:508`).
* A cancel that is refused words its reason from a row read before the write: fired
  in between, it is said to have been called off (`reminder.py:751`).
* A message whose ingestion always raises, and a symbiot whose fold or burst always
  fails, is picked first each time and holds off the others (`intake.py:338`,
  `conversation.py:325`, `enrichment.py`).
* A request that read a code before it was burned or spent is judged all the same, and
  if it is right it mints a session, since the UPDATE of a right guess matches the id
  alone (`identity.py:189`). So two right guesses at once mint two sessions of one
  code, which `doc/authentication.md:24` and `:49` call single-use; and a right guess that lands
  after the burn opens a session, where `:49` has it that "from that point every guess, even
  the right one, fails identically". "The count can't be raced past the limit" (`:65`) is
  true of `failed_attempts`, not of the guesses judged. A right guess at a code that was
  overwritten meanwhile consumes the one that took its place. `BudgetHolds` bounds how
  many guesses this lets through; no run states what the document says.
* `ontology_gc.py:255-257` and `:284` say that no transaction is open across the model calls
  of a merge pass, and the comments of `mint` and `persist` (`ontology.py:339`, `380`) that
  none is over a network call. `candidate_pairs` and `zone.of` have opened one by then
  (section 7), which pins the connection and holds row locks and coined names over
  the calls that follow; one call that fails rolls back the whole pass, or the whole ingestion.
* A second filing of a message (`ontology.py:405`) commits the types it minted all the same, and
  no fact is under them.
* A parent may turn into a tombstone, or a circle of parents arise, where `collapse`
  (`ontology_gc.py:207-210`) says that no type ends up parented to a tombstone: a type that
  was minted under a parent, and is committed once the pass has re-hung that one's children,
  keeps it; and a type folded into its grandchild leaves child and grandchild each under
  the other.
* Two merge passes at once (two kernels, or one by hand) may each fold what the other
  keeps: nothing locks a type, and `collapse` does not look whether it is folded already. The
  model has one pass.
* The Google client has no time-out of its own: one call that hangs takes the whole
  deadline, and no rung below it is tried (`llm.py:165`).
* A result larger than a pipe holds a child until somebody reads, which the parent
  does only once the child has ended: such work ends as timed out (`flushing`).
* The two reads of a cache's reload may be of different states of the store; while
  two requests overlap, the older may be set last (`overlap`).

## 13. Not modelled

Prompts, replies and their parsing; persona; the observability lens; vector search,
scores and ranking; dates in the deep reach; the layout of a listing and the
catalog of tools; each provider's wire and output caps; the sweeps' model calls
that run in no child; migrations as a process (they run under a lock before
anything else); logging; the connection pool; e-mail and embedding clients;
configuration, DTOs and protocol words, which enter as constants and as the grain of
the actions. `PROJECT.json` lists each of these components with its status.
