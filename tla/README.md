# Verification of ruleengine

TLA+ models, TLC runs and TLAPS proofs for the rule engine in this repository:
the service that keeps business rules in a database, runs them for match
requests on several nodes and stores what they yield.

`PROJECT.json` lists components, runs, mutants, the source lines behind every
definition, findings, hazards and theorems. This file says how they fit
together.

## 1. The system

| Part | Code | State it keeps | Operations |
|---|---|---|---|
| Match intake | `web/resource/MatchResourceImpl`, `RequestServiceActivator` | Redis list `matchRequestData`, the threads of `taskExecutor` | `match` (asynchronous), `evaluate` (synchronous) |
| Matching and dispatch | `MatchServiceImpl`, `LocalExecutionDispatcher`, `LocalRuleSetExecutor` | Redis lists `ruleSet`, `rules` | `match` in three forms, `execute` |
| Rule execution activators | `RuleExeServiceActivator` | in-memory channels `ruleSetOutputChannel`, `rulesOutputChannel` of each node | `ruleSetActivator`, `rulesActivator` |
| Batched persistence | `PersistenceServiceActivator`, `ResultServiceImpl`, `ResultDao` | `resultsList`, `adder`, `lock`, scheduler flags; tables `re_result`, `re_match_stage` | `persistOrderRules`, `persistRule`, `persistence`, `getResult`, `saveResult` |
| Result queries | `ResultServiceImpl`, `ResultDao` | none | `getAcceptanceResult`, `getScoreResult`, `getTextResult` |
| Rule and set catalogue | `RuleServiceImpl`, `RuleDao` | `re_rule`, `re_extractsql`, `re_ruleset` and their history tables | create, update, remove, read a version |
| BizTypes | `BizTypeServiceImpl`, `BizTypeDao` | `re_biztype` | create, update, remove, `assignRuleSet` |
| Caches | `@Cacheable` and `@CacheEvict` of the services, on in `ruleengine-core/conf` | `rules`, `ruleSets`, `bizTypes`, `datasources` | fill on read, evict on write |
| Execution engine | `executor/*` | the stage stack of `ThreadLocalExecutionTracer` | acceptance, score and text executors, `RuleCaller` |
| Reference data | `ReferenceDataServiceImpl` | `re_reference_data`, `re_reference_data_status`, tasks at the provider | request, poll, expire |
| Data extraction | `DataExtractorImpl`, `DbHelperImpl`, `PythonExecutorImpl` | none | read other databases, run a script |
| Datasources | `DatasourceManagerImpl`, `ConnectionHolderImpl` | connection pools | create, update, get connection |
| Synchronisation tool | `tools/sync` | two catalogues | compare, create, update, assign |
| User interface | `ruleengine-ui` pages, `rule-editor.js`, the widgets of Amaze UI | the rule in the edit dialog, steps and counters, dialogs and dimmer | list, create, edit, remove |
| Web, ROP, clients, mocks | the rest | none of their own | conversions and HTTP |

How they interact. A client's request goes to a Redis list; any node pops it,
matches it (bizType, rule set, data) and puts either the whole rule set (if its
rules run in order) or one message for each rule on another list; any node pops
that, runs the rule, or the rules one after the other, and hands the results to a channel in its own memory; a
poller converts them, saves their trace stages and collects rows, which a flush
writes. Clients read the rows of a rule set. The catalogue services change rules,
rule sets and bizTypes under all this, for several callers at a time. A rule
runs in an executor, which keeps a tracer per thread and may call other rules; the
data of a request may include reference data, which a provider takes its time to
prepare. The pages of the user interface call the same services.

What is hard, and the property that makes each part correct:

- *Persistence.* Workers and timers share a list, a counter and a lock that
  covers only some uses of them; flags are tested and set apart; a failing save
  unwinds past `unlock()`. It must write no result twice, exclude flushes from
  each other, notice the hit size, and empty its list in the end.
- *Pipeline.* Messages are popped before they are worked on; each step may throw
  or the node restart, also between two rules of an ordered set; listeners, pollers
  and calls of `evaluate` compete for threads. A rule must run
  at most once, a result must be in one place, requests must be finished, and a
  client must get the rules of a set in their order, each once, newest first.
- *Catalogue.* Transactions of several callers interleave; reads run without a
  transaction; versions are spread over four tables. No update may be lost, nothing
  but the design may be lost of the version an update replaces, and nothing of it may
  change later; sets must name rule versions that exist, assignments must fit.
- *Execution.* Rules call rules on one thread, fail in the middle, and threads
  come back from a pool with whatever the last execution left on them. The open
  stages must be the Java stack, and an answer must be complete and stay as it is.
- *Reference data.* A transaction holds a row lock, or only a gap that others
  hold too, reads an old snapshot, and may roll back after the provider was asked.
  One task at a time may be open, data must not be stored twice or answered
  expired, and every client must get them in the end.
- *Rule page.* Answers of requests and transitions of dialogs end in any
  order over one form, one list of steps and one dimmer. Counters and buttons must
  fit the steps, the form must show one rule, the page must not stay covered.
- *Caches* must not bring back what a write replaced. *The synchronisation* must be
  repeatable after it stopped anywhere.

`PROJECT.json` lists the hazards one by one, each at its line.

## 2. The modules

| Module | What it is |
|---|---|
| `ResultStore` | abstract: what the persistence of results promises |
| `ResultPersistence` | the threads, list, counter, lock and tables of the batched persistence; implements `ResultStore` |
| `MCResultPersistence` | its instances for TLC |
| `ResultPersistenceProofs` | its theorems |
| `ResultFlow` | abstract: what the engine promises of the results of a request |
| `MatchPipeline` | nodes, Redis lists, channels, threads and results, end to end, with the persistence as one step; implements `ResultFlow` |
| `MCMatchPipeline` | its instances |
| `MatchPipelineProofs` | its theorems |
| `VersionLog` | abstract: a log of versions; a new one archives the one before, and an archived one never changes |
| `RuleCatalog` | tables and concurrent transactions of rules, rule sets and bizTypes; its rule tables and its set tables each implement `VersionLog` |
| `MCRuleCatalog` | its instance |
| `RuleCatalogProofs`, `RuleVersionsProofs`, `VersionLogProofs` | its theorems: about concurrent updates, about references and assignments, and that it implements `VersionLog` |
| `RuleExecution` | executors, nested calls and the tracer, on the threads of a pool |
| `MCRuleExecution`, `RuleExecutionProofs` | its instance and its theorems |
| `ReferenceData` | the transactions of `getReferenceData`, its two tables and the provider |
| `MCReferenceData`, `ReferenceDataProofs` | its instance and its theorems |
| `Modal` | the dialogs of Amaze UI and their dimmer, as operators on the state of the widgets |
| `RuleEditor` | `rule-editor.js`, as operators on the state of the editor |
| `RuleConsole` | the rule page: the user's clicks, the answers of requests and the ends of transitions over the two |
| `MCRuleConsole`, `RuleConsoleProofs` | its instances and its theorems |

Operators whose comment begins with "A slip" are variants of the action after
them, with a mistake in them that could plausibly be made. No specification uses them;
each shows that a property notices the mistake.

### ResultPersistence

State: `buffer`, `adder`, `owner` and `holds` are the fields `resultsList`,
`adder` and `lock`; `inited` is the pair of flags; `pc` and `todo` say where
each thread is and what it still has to convert; `pojos` is the local copy in
`persistence()`; `rows` and `stages` are the tables. List, copy and tables are
bags of results.

Steps: `TakeMessage` and `CreateScheduler` are the test of the flag and what
follows it, two steps, because two workers may both find it unset. `AddResults` is
`getResult` with the `addAll` behind it, once for each match type, `CountEntity` the
`increment`, `CheckHit` the comparison. `Snapshot`, `ClearList`, `ResetAdder`
and `SaveResult` are `persistence()`. `lock()`, the size test and the copy make
one step: other threads can only add to the list between them. Only the process
decides when the tables are written, so a crash between `getResult` and `addAll`
has the effect of one right after. `GetResultFails` and `SaveResultFails` are the
exceptions: nothing catches a failing save, so the lock stays taken, and
`scheduleAtFixedRate` does not run that task again. `Crash` loses all but
the tables.

### MatchPipeline

The three Redis lists are sets (`requestQ`, `setQ`, `ruleQ`), since several nodes
pop them and no order of execution follows from the order in the list. `matching`
and `next` are a node's request and its loop that sends the rules; `running` and `place` the
ordered rule set it has popped and its loop that runs the rules; `setOut`/`ruleOut` are
the output channels; `listed` is `resultsList`, `rows` the table. `MatchedSet` is how the three forms of
`match` pick the rule set. `Flush` may drop any of the rows: why rows may be missing
is the matter of `ResultPersistence`. What a rule computes is left out; a result is a
request and a place in the rule set. A row has an `entity` besides, because the n entities of
an ordered message share its n results, and each of them becomes n rows.

An ordered rule set is popped whole (`TakeRuleSet`), its rules run one by one
(`ExecuteNextRule`), and the answer is handed on after the last (`HandOn`). `RuleSetFails`
and `Crash` may come between any two of these steps: then a first part of the rules has run, and
their results are gone. The rule of an unordered set is popped, run and handed on in one step
(`ExecuteRule`); `RuleFails`, where it may have run or not, stands for a restart in between too.
A rule or a set that cannot be made into JSON is caught and not sent (`RuleUnsent`,
`RuleSetUnsent`); any other exception ends the listener's loop, which is submitted to its
executor again (`StartLoop`, `StartListener`).

A node has two executors. `lane` is what the single thread of `singleTaskExecutor` is doing:
polling `ruleSetOutputChannel`, or the endless listener of list `ruleSet`.
`taskExecutor` has `CoreThreads` threads (20 in `ruleengine-core.properties`, line 41) and no
more, since its queue is unbounded. The two other listeners keep one each (`loops`),
the poller of `rulesOutputChannel` needs one when it fires (`Free`), and each call of
`evaluate` takes one that it never gives back, for the listener of its own list (`evals`).

`Answers` is the query for the results of a rule set. `Listings` are the lists
that `order by sortId, time desc` of `ResultDao` allows: bijections from places to
rows, with rows that tie in either order, because `time` has whole seconds. `Distinct`
is `distinctResults`, which drops a row right after one of the same rule; what it
keeps stays at its place here, so an answer is a function with gaps in its domain, of
which only the order counts. `AnswerInOrder` is about every such list and asks
that there is one.

`Flow` maps the pipeline to `ResultFlow`, which knows no nodes, lists or channels: a
request is new, accepted or refused (`Status`), a result has run (`executed`), is
converted (it has stages) or stored (it has a row). `ExecuteNextRule` and `ExecuteRule` each
run one result; those of an ordered set run in the order of the set, and are converted only
when all have run. A set that stops in the middle is one whose later results never
run. `ConvertRuleSetFails` converts some of the results of a set;
whatever moves or loses messages is a stutter.

### RuleCatalog

Tables are functions of the code; a removed row, renamed to `_removed_...`, is
only remembered in `ruleRemoved`, `setRemoved` and `bizRemoved` (a second remove of the same code
runs into the primary key). A rule row keeps its version, its bizType and its design, next to it the
extract SQLs with the version they were written for; a set row keeps its
bizType and which version of each rule it has. Not every rule has a design.

An update is a transaction of two steps, `Begin...` (all that it reads and
checks) and `Commit...` (all that it writes). This is what MySQL's default
isolation gives: the reads of a transaction see one snapshot, and `update ... where
code = and version =` takes the row's lock and sees the committed row. A step
`Rollback` ends a transaction at any time. Create and remove write nothing
that depends on more than the row they are about, so each is one step. A read by
`getRule(code, version)` runs in no transaction, so its two selects are
`BeginReadRule` and `EndReadRule`, with others between them.

`updateRule` archives not the row but what `getRule` made of it: that has turned
column `designValue` into an object and cleared it, and `updateRule` writes the other columns back
and not this one. So `Archived` is the row without its design. It is the `Kept` of
`VersionLog`: an update archives the version it replaces, and whatever
`getRule(code, version)` says of an archived version never changes. Of a rule set
everything is kept.

`Pinned`, `Fits` and `Body` are the loop of `createRuleSet` and `updateRuleSet`
over the rules asked for. `RuleVersion` and `SetVersion` are the versioned reads:
the row if it has the version, else the one row of the history that does;
two such rows make the select throw.

### RuleExecution

`status` is the thread-local `ExecutionStatus`, `frames` the executions on the Java
stack of each thread, `thrown` the exception on its way up, `traced` the list of
stages of each execution, `answers` what came back to the client. `Execute`,
`Evaluate` and `Call` begin a stage (`NewStage` is `beginStage`), `Trace` writes
into the current one, `Return`, `Catch` and `Escape` end it (`EndStage`). The
three executors are line by line the same here, and one stands for all. A result holds
the tracer's own list, not a copy, so `ListsFinal` is about a later execution
on the same thread as much as about the one that made it. A failure carries a
message or none; `RuleCallerImpl` passes it on by the message only, so one
without a message becomes a null result: `ErrorsReachTop` says so much and no
more. `execute` catches an `Error` too; it escapes from `evaluate`, which still
closes its stage.

### ReferenceData

One value of the conditions, asked for by several clients; values share nothing.
Every call is one transaction. `Begin` is the first plain select, which fixes the
snapshot; `LoadStatus` is `select ... for update` of the newest row, which reads what
is committed and waits for the row, or, with no row, locks the gap, together with
any others; `LoadData` reads the data in the snapshot; `Ask` asks the provider;
`InsertStatus`, `WaitForGap` and `Deadlock` are the insert, alone in the gap,
waiting, or chosen as the victim; `CheckRunning` and `Store` are the poll of the
task. `Fail` rolls back at any moment. That locks and snapshots behave so is how
InnoDB works at `REPEATABLE READ`, which nothing in the configuration changes.

`insertTime` has whole seconds. When a status row is inserted in the
second of another one, `order by insertTime desc limit 1` may return either,
and the invariants say nothing any more (`SameSecond`). The model reaches such states and has
both outcomes; `AnswersCurrent` and `ClientsServed` hold in them too.

### Modal, RuleEditor, RuleConsole

The script of a page runs one handler at a time, so `Modal` and `RuleEditor` are
operators, and each action of `RuleConsole` is one handler: a click, the answer
of a request (in any order), or the end of a transition.

`Modal` keeps for each dialog the options of its first `modal()` call, whether it is
active, visible or fading, and which handler waits for its transition; `used`
and `shown` are the dimmer's. A click on the dimmer would close all dialogs, but an
element with class `am-modal` covers the window and lies over it (z-index 1110, 1109 while it
fades, the dimmer 1100), so the dimmer itself is never clicked. The escape key goes to the
dialog with the focus, which need not be the one on top (`EscapeKey`).

`RuleEditor` keeps the box of steps, the rule in the form, the rules
whose parameters it shows, the steps with their indexes, and the script's global
counters. Of a step's buttons it says two things. `live` is whether those that `initSteps` looks
after (add condition, remove, move, comment) have their handlers: `clone()` copies none, so
the script puts them on again (`Swapped`, `InitSteps`). `conds` is whether the step has conditions
and whether their own remove buttons work. `initSteps` never binds these; only adding a
condition does (`ConditionAdded`), so they are dead in a loaded step and in the clone that a move
leaves (`Clone`), until a condition is added there.

An edit loads four things after each other: bizTypes, the editor's HTML, the
rule, the template of a step. `loads` says which one is awaited. A second edit can
be started meanwhile, because the list under a dialog is reached by the keyboard;
`crossed` remembers that two overlapped, and `OneRuleShown` is about the others. A rule
without a design makes the page's script throw after the form was filled: no rows and
no steps follow, and the dialog is left as it is (`RuleThrows`).
Loading static HTML is taken to succeed; the requests for bizTypes and
rules may fail. The editor's script runs twice, in the page and in the copy that
`templateBox` makes; the handlers that count are the same.

## 3. The runs

| Run | States | What it asks |
|---|---|---|
| `persistence_safety` | 759,000 | no result gets two rows (`AtMostOnce`); flushes exclude each other (`OneFlushAtATime`); a full batch is not overlooked (`HitFlushed`); rows in the list have a timer, and the lock comes back (`FlusherThere`); the whole implements `ResultStore` |
| `persistence_live` | 6,300 | what is in the list leaves it (`ListDrains`), while no save fails |
| `persistence_race` | violated | nothing is lost while nothing fails (`NothingLost`) |
| `pipeline_safety` | 414,000 | rules run at most once (`ExecutedOnce`), a result is in one place and somewhere (`OnePlace`), answers have each rule once and in order although ordered results have n rows (`AnswerInOrder`), the whole implements `ResultFlow` |
| `pipeline_live` | 106,000 | rows of two runs of one set, of different times, mix, and answers have each rule once, in order and newest (`AnswerInOrder`); unordered requests are converted in the end, as long as the calls of `evaluate` leave a thread (`UnorderedConverted`) |
| `pipeline_starved` | violated | ordered ones are (`OrderedConverted`) |
| `catalog_safety` | 460,000 | histories are complete (`ArchiveComplete`), SQLs go with their row (`SqlsFollow`), sets and assignments go on naming what they named (`RefsResolve`, `AssignedFits`), both kinds of tables implement `VersionLog`, that of rules with archived versions that have no design |
| `catalog_torn` | violated | a read gets one version (`ReadsOneVersion`) |
| `execution_safety` | 493,000 | stages follow the stack (`StageStack`), traces are in their own rule's stage (`TracesOwnRule`), answers are finished trees (`AnswerComplete`) that never change (`ListsFinal`), failures with a message reach the client (`ErrorsReachTop`) |
| `reference_safety` | 324,000 | one open task (`OneOpenTask`), data stored once (`DataOfTasks`), errors and repeated requests only by an old snapshot (`StaleOnly`), no expired or outdated answer (`AnswersCurrent`), everybody served (`ClientsServed`) |
| `console_safety` | 1,394,000 | counters (`StepsCounted`) and the buttons that `initSteps` binds (`StepsLive`), one rule in the editor (`OneRuleShown`), no stuck dimmer (`DimmerFreed`) or dialog (`OpenVisible`) |
| `console_remove` | violated | the confirm dialog removes the rule it names (`ConfirmsNamed`) |

The type invariant of each module is checked by its `_safety` run.
Deadlock is not checked: each system may come to rest when the clients stop, and
each bound ends in a state without steps.

### Bounds

- *Persistence.* Three workers, one of the ordered channel and two that share the
  other; three timers, so that two workers can both create one; three
  messages, one of them with two entities that carry the same results; hit size
  2, which one message reaches and two others reach together; one failure, one
  restart. Every pair of thread kinds that share state meets, and a third
  thread can come between any two steps of them. The live run has two workers and two timers.
- *Pipeline.* The safety run has two nodes and three requests: one of an unordered set of two
  acceptance rules, two of an ordered one with an acceptance and a score rule. Two failures
  and one restart come between any two steps, also between two rules. The clock
  stands still, so all rows of a rule tie: those of two requests and those of the
  entities of one message. There are three core threads, so the poller has one, and no calls
  of `evaluate`. Symmetry of the nodes is used. The live run has one node, where everything has to
  meet in one executor, and no failures: two requests of the unordered set, whose two rules are of one
  match type, so that rows of several rules from two runs meet in one answer, in either order, in one
  second and in two; a third request that is refused; four core threads
  and two calls of `evaluate`, which take all that the listeners leave.
- *Catalogue.* Two sessions, so every pair of transactions meets; one rule that moves
  between two bizTypes, one rule set that asks for the current version, for a
  version with a duplicate, and for no rule; six commits: a rule may be created and updated,
  a set created, updated and assigned, and something removed. One rule is enough
  because no property relates two rules: a set's rules are checked one by one.
  `catalog_torn` needs five commits at most.
- *Execution.* Two threads, two rules, two executions, one of three nested rules and one of
  a single rule: rules call themselves and each other, siblings follow each
  other, and a thread is used again after any ending. A list of stages
  belongs to one thread, so more threads add nothing that two do not show.
- *Reference data.* Two clients, which is enough for a gap that two hold and a deadlock. Time
  goes to 3 with an expiry of 1: data are stored, expire once and are stored again, so there is
  a snapshot with expired data while newer ones are there. `MaxTasks` is 10, more
  than can be asked for, so it never stops a run. One transaction fails. Runs
  with three clients, and with time to 4, were made once and hold as well; they take too long to keep.
- *Rule page.* Two rules of one or two steps, two edits at a time, one save and one
  added step on the way, five clicks: to open a rule, add a step or a condition, move a
  step and save, or to cross some of that with a second edit or a removal. A loaded step has
  conditions or none. Symmetry of rules and edits.

### Fairness

`ResultPersistence`: a thread that is inside its handler goes on, and a timer keeps
firing, as a `ScheduledExecutorService` does. A worker is fair over all its
steps, because it is one thread of control; so is `Persistence(t)`.
Nothing is assumed of the pollers (whether another message
arrives), of failures or of restarts. `lock()` is weakly fair only:
`ReentrantLock` is not fair to waiters, and the property does not need it,
since whichever thread gets the lock flushes the list.

`MatchPipeline`: the listeners loop and the pollers fire on their
schedule as far as there is a thread for them; a matching and a rule set go on. Nothing is assumed of
clients, calls of `evaluate`, failures or restarts. `StartListener` and `StartLoop` are fair because the
listeners are submitted to their executors when the application starts and whenever they have ended. Weak
fairness is enough: an executor's queue is first come, first served, so what waits in it gets
the next thread that stays free. With one thread the poller's step does not stay enabled once the listener
has it, which is the point of `pipeline_starved`; and `UnorderedConverted` promises nothing
once listeners and calls of `evaluate` may hold all core threads (`UsedUp`).

`ReferenceData`: clients go on polling, as the interface asks them to (null
means not yet), the provider finishes its tasks, and MySQL grants a row lock in turn, which
is strong fairness of `LoadStatus`: it is enabled and disabled again as others take
the lock. Nothing is assumed of failures, and time may stop.

`RuleCatalog` states no liveness: a transaction may always roll back, and no
caller has to come. Neither does `RuleExecution`, whose scripts may run for ever, nor
`RuleConsole`, whose user may leave.

## 4. What the violated runs show

1. `persistence_race`: rows that join `resultsList` between the copy
   and the `clear()` of `persistence()` are cleared without being saved.
2. `pipeline_starved`: list `ruleSet`'s listener never gives back the one thread
   of `singleTaskExecutor`; the poller that should persist ordered results waits behind it.
3. `catalog_torn`: `getRule(code, version)` may return the row of one version
   with the extract SQLs of the next.
4. `console_remove`: the confirm dialog of the rule page keeps the handler it
   was first given: remove one rule, cancel, remove another and confirm, and the
   first one is deleted. The pages of bizTypes and rule sets do the same.

The doc or comment that each contradicts is quoted in `PROJECT.json`.

The models contain more behaviour of this kind, for which no run is kept since the
properties above describe it already:

- After an exception of `saveResult` the lock stays with the thread it passed
  through, and a timer's task is not run again: rows that follow may stay in
  the list for good. `ListDrains` is therefore checked without failing saves.
- The entities of an ordered rule set share their result objects, and each result is
  converted, and its stages inserted, once for every rule of the set.
- Each call of `evaluate` costs the node a thread of `taskExecutor` for good. When the core
  threads are used up, nothing of an unordered set is converted any more, listeners that
  ended do not come back, and the next `evaluate` waits its second in vain and dereferences null.
  `UnorderedConverted` excepts this.
- An exception or a restart between two rules of an ordered set leaves a first part of them
  executed, and nobody gets their results (`ImplementsFlow` allows it).
- An update of a rule loses the design of the version it replaces: `getRule(code, version)`
  answers without one from then on, and the edit dialog cannot show it. `ImplementsRuleLog` says
  so through `Kept`.
- The remove buttons of a step's conditions are dead in loaded and in moved steps until a
  condition is added. `StepsLive` is about the buttons that `initSteps` binds.
- A failure without a message in a called rule reaches the rule that called it as a null result.
- `match` with four arguments checks the named set and then takes the rules
  from a bizType that was loaded without its rule set (`MatchedSet`).
- A code that is removed and created again numbers its versions from 1 over
  the old history, and a version with two rows cannot be read. The catalogue's
  properties speak of codes that were never removed for this reason.

## 5. What is proved

All theorems hold for every value of the constants that satisfies the named
assumptions (`PersistenceAssumption`, `PipelineAssumption`, `CatalogAssumption`,
`NoRowAssumption`, `ExecutionAssumption`, `ReferenceAssumption`, `EditorAssumption`,
`ConsoleAssumption`): any number of threads, nodes, requests, codes, sessions, rules,
clients, edits, failures and restarts.

**ResultPersistenceProofs.** `IInv` adds to the types: who is between `lock()` and
`unlock()` owns the lock, and an owned lock has a hold (`LockInv`); until
the list is cleared it still contains the whole copy, and with no thread inside
there is no copy (`CopyInv`). `OneFlushAtATime` alone is not inductive: a
failed save leaves an owner that is not inside, and without the owner nothing
keeps a second thread out. From `IInv`: `TypeCorrect`, `FlushesExclude`, and
`Refinement`, where a worker's addition is a submission, a save is `StoreSome`
and the clear, a failure or a restart is `Drop`: rows that joined after the copy
are dropped at the clear. `NoSecondRow` follows, because the store never has
more rows and waiting rows than submissions. `HitSizeMinded` has an invariant of its own,
`HitInv`: while nothing has failed and a list that is not empty has reached the hit size, some
thread is still to test `adder`, waits for the lock, or is about to clear the list.
`FlushersStay` is the safety half of `ListDrains`: while nothing fails, somebody can always
flush. It needs `FlushInv`: a worker adds rows only when its flag is set, a set flag has a
timer, and the lock is held exactly once and by the thread inside, so that one
`unlock()` frees it.

**MatchPipelineProofs.** `PInv` adds: a request is in one hand (`RequestInv`), ordered and unordered
sets never share a list or a channel (`KindInv`), how far a result is
determines where it can be, and where its set is running the rules before `place` have run
and the others have not (`Progress`), and while nothing failed it is somewhere
(`Kept`). `ExecutedOnce` needs that a message not yet sent has not been executed, which
is why `Progress` speaks of `Unsent`. From it: `PipelineTypeCorrect`,
`RulesRunOnce`, `ResultsInOnePlace`.

`AnswersInOrder` needs more of the rows and something about lists. The `sortId` of a row is
its rule's place in the set (`RowOfSet`), so in a sorted list the rows of a rule
are next to each other, and the first of them, the least place with that rule, is the
newest and the one that `distinctResults` keeps (`OneRuleOnePlace`,
`AnswerSorted`), whichever entity or request it is of. That a sorted list exists (`ListingExists`) holds for finite tables only,
so `RowsStayFinite` is proved of the steps first. The list is then built row by row: if some
finite set of rows had none, take a smallest one (`SmallestFinite`), remove a row that
nothing has to follow, and put it behind a list of the others (`LongerListing`). A smallest
counterexample is what induction comes down to without an operator parameter.

`PipelineFlows` is the refinement of `ResultFlow`, rule by rule: a running set has run exactly
the rules before `place` (`SetRuns`), a set in a channel all of them (`ChannelRan`). Beside `PInv`
it needs `FlowInv` (`FlowKept`): a refused request was one that cannot be matched, so nothing of it
runs later, and every row, in the table or in a node's list, has its stages saved.

**RuleCatalogProofs.** `CatalogInv` adds: what an update transaction has read is
older than the row or equal to it, SQLs included (`RuleUpdateOk`,
`SetUpdateOk`). `ArchiveComplete` alone is not inductive: without
it an update could commit a row it never read under the right version. From it:
`TypeCorrect`, `HistoriesComplete` (every commit appends exactly the row it replaces,
`NumberedNext`) and `SqlsWithRow`.

**RuleVersionsProofs.** `RuleStepIs` and `SetStepIs` say once what a step may do
to the tables of one code: leave them, make the first row, archive the row and make the next,
or remove it. It follows that the version and the bizType a versioned read answers, and the body
of a set, stay until the code is removed (`RuleVersionStays`, `SetVersionStays`). `RefsResolve` and `AssignedFits` are about tables only
and not inductive, because a session writes what it checked a step earlier; `BodiesOk`
and `AssignsOk` say the same of what sessions hold. With them: `ReferencesResolve`,
`AssignmentsFit`.

**VersionLogProofs.** Both refinements. A commit gives a log with one more version, the one
before in its archived form (`LastArchived`, `ArchivedText`) and the earlier ones as they
were (`OneMore`). For rule sets (`SetsAreLogged`) `CatalogInv` is
enough; a rule's answer is put together from two archives, and that no archived
extract SQL has the version that is about to be archived is a further invariant
(`SqlsArchived`, in `RulesAreLogged`).

**RuleExecutionProofs.** `ExecutionInv` has three parts: a list of stages is a tree
whose traces are of the stage's own rule (`ListOk`); a thread's stack and its
list fit, frame by frame, and a message is either still on its way or in the outcome of
every rule above (`ThreadOk`); no two executions share a list (`OwnLists`). The
properties alone are not inductive: `StageStack` needs that the stage above the
current one is the one of the frame below. The lemmas about `ListOk` and
`ThreadOk` are about values, so each action only says which list it
changes.

**ReferenceDataProofs.** `ReferenceInv` is types and, until `SameSecond`, `Sound`:
the two tables fit each other (`TableOk`); every call knows what its step implies
about them, for instance that while one is about to insert, all rows are done and its
snapshot is older than data that have not expired (`ClientOk`); calls about to
insert have different tasks; once there is a row, one call at a time holds it. From it:
`TypeCorrect`, `OneTask`, `DataFit`, `OnlyStale` and the action property
`CurrentAnswers`. `SameSecond` is stable (`SameSecondStays`), which is why
the exception does not spoil the induction.

**RuleConsoleProofs.** `ConsoleInv` adds to the types what joins the parts of a
dialog to each other and to the dimmer (`WidgetsOk`), steps to counters and to the buttons that `initSteps` binds
(`EditorOk`), and, as long as edits do not overlap, what the one edit has put into the
editor at its stage (`Apart`). From it: `TypeCorrect`, `CountersFollow`,
`ButtonsWork`, `OneRule`, `PageFreed`, `DialogsVisible`, for any number of rules,
edits, steps and clicks.

Only model-checked: liveness under fairness (`ListDrains`, `UnorderedConverted`, `ClientsServed`),
which is out of the prover's reach. Every invariant, action property and refinement that a
passing run checks is also a theorem. The properties of the violated runs are false, so
there is nothing to prove.

## 6. What is not modelled

- *What rules compute*: JEXL expressions, the expression builder, the plugins,
  the validators. Pure functions of strings and numbers; unit tests reach them.
- *Conversions* between models and columns in `RuleServiceImpl` and
  `ResultServiceImpl`, but for the design that archiving loses: no property here tells the
  outcome of the others apart. They are in the plan.
- *HTTP resources, ROP, clients, mocks*: no shared state.
- *What `evaluate` answers*: it sends its request through a Redis list of its own and runs the rules
  itself, when the listener of that list has handed the request back within a second. The thread of that
  listener is in `MatchPipeline`, the answer is not.
- *Loss inside Redis and MySQL*: lists and committed transactions are taken as
  durable, a pop gives a message to one node.
- *The caches*: `RuleCatalog` is the engine as the web application starts it; none of
  its profiles loads `ruleengine-cache.xml` together with the services. The configuration of
  `ruleengine-core` alone does.
- *The rest of the user interface*: the list of rules and its filter, the create
  and test dialogs, the match type, what the user types, and the pages of bizTypes,
  rule sets and results, which repeat the rule page's patterns.
- *Vendored scripts*: of Amaze UI (16,700 lines) only the dialog and the dimmer are
  used with state that the pages depend on, and these are modelled; its polyfill for
  old browsers and the translations of nice-validator are not. They make up
  most of the JavaScript in the repository, so the modelled share of
  JavaScript lines is small; the engine itself is Java, and its core packages
  are what the map mostly points to.

## 7. Plan

1. `Conversions`: `convertParams`, `convertSegments`, `getDatasourceCodes`, checked
   against a reference over bounded inputs.
2. `DatasSync`: the synchronisation tool over two catalogues, stopped
   anywhere and run again.
3. `CatalogCache`: the service caches over `VersionLog`, for the configuration that has
   them: fills that race with evictions, evictions before the commit, nested objects that
   another service's writes do not evict, shared objects that `execute` changes.
4. `ConnectionHolder`: pools and updates of datasources.

The order is by what a mistake would cost in the application as it is configured.
