# A TLA+ verification of the strategy runtime

The strategy runtime takes committed bars from a webhook, asks a Strategy Engine
what each enabled strategy wants, and brings the exchange, through a service called
ABI, to that state: at most one trade cycle per strategy instance, which is an entry
order, then a position with its protection. It runs on one process with several
threads, keeps one durable record per instance in a JSONL file, and must survive
crashes, timeouts and answers that never come without ever losing sight of an order.

Paths below are relative to `src/src/strategy_runtime/` unless they start with `src/`.

## Inventory

| Component | State | Operations | Interacts with |
|---|---|---|---|
| Runtime state (`runtime/state`) | per instance: current trade cycle, at most one recovery marker | next values of the aggregate | everything below |
| Bar processing (`runtime/orchestrator`, `runtime/entry_reconciliation*`, `runtime/position_management_*`, `runtime/open_position`, `runtime/entry_remainder_cancel`) | the bar's local copy of the state | look up the position, freeze a fill, decide, mark, send, save, journal | Engine, ABI, store, journal, under the instance's mutex |
| First fill (`runtime/abi_execution_event`, `runtime/first_fill`) | none of its own | freeze the executed entry | webhook threads, store |
| Resolver (`runtime/uncertain_exchange_state_resolver`) | worker state, thread | poll for markers; query, adopt, cancel or close again | ABI, store, journal |
| Operator routes (`runtime/enabled_control`, `operator_commands`, `strategy_delete`) | the deployment file | enable, disable, cancel orders, close, delete | ABI, store, catalog files |
| Keyed mutex (`runtime/coordination`) | a registry of lock objects, one per instance, made on first use | hold, with or without a timeout | all handlers |
| Durable store (`infrastructure/runtime_state`) | file, in-memory index, poison flag | get_or_create, get, save, replay; a codec with four schema versions | all handlers |
| ABI clients (`runtime/abi`, `infrastructure/abi`, `runtime/entry_reconciliation_bridge`) | none | one bounded HTTP attempt per call, strict decoding | ABI |
| Intake (`runtime/committed_bar_intake`) | bounded queue, worker state, thread | put, get, stop | webhook, committed-bar orchestrator |
| Lifespan (`bootstrap/application.py`) | which clients exist, which parts are started | build, roll back, start, stop, close the clients | both workers, HTTP clients |
| Fan-out and catalog (`utility/committed_bar`, `deployment_selection`, `deployment_catalog`) | the files of one directory | list, read, select, dispatch in id order | bar processing, editors |
| File writer and trash mover (`utility/deployment_catalog`) | temporary file, `.deleted/` | set `enabled`, move to the trash | operator routes, editors |
| Engine client and router (`runtime/routing`, `runtime/engine`, `infrastructure/strategy_engine`) | none | one question per bar, strict decoding, normalization of prices | Engine, bar processing |
| Journal (`utility/processing_journal`) | append-only file | one record per fact | all handlers |
| HTTP adapters, chart layers, trading-state listing, configuration | none | conversions and reads | |

What is hard here: four kinds of threads share an instance; a command to the exchange
and the save that records it cannot be atomic; an answer may be lost although the
command was executed, and a request may be executed after its sender gave up; fills
happen at any time; the process may die between any two steps; a physical write may
fail with an unknown outcome; people edit the deployment files without any lock while
the runtime reads and replaces them; bars are delivered again, or late; lines of older
releases are read by newer ones; and shutdown must end threads that wait for the
network.
`PROJECT.json` lists these hazards at the lines where they bite.

What makes the parts correct: nothing on the exchange is orphaned; a command is sent
only under a durable marker; a save never undoes what another thread recorded; the
journal says what happened, once; markers are resolved in the end; a save that
returned survives a restart; no answer is believed that does not prove what it says;
accepted bars are processed in order; one strategy's failure, or one file's, is not
another's; a command changes only what it says in a file; shutdown ends, and so does
every wait for a lock.

## Modules

| Module | Models | Used by |
|---|---|---|
| `RuntimeState` | the aggregate, its constructor's checks, the functions that build its next value, the entry and position decisions, the lifetime of an order | `StrategyInstance` |
| `StrategyInstance` | one instance: all threads, the exchange, crashes, failed writes | `MCStrategyInstance`, proofs |
| `TradeLedger` | abstract: one trade cycle at a time, let go only when nothing is left | refined by `StrategyInstance` |
| `AbiCalls` | the wire: every call, status, envelope and echoed identity, and what the caller makes of it | |
| `DurableStore` | the JSONL file, its replay and the poison flag; the codec is a parameter | `UpgradedStore` |
| `DurableMap` | abstract: a map that survives restarts | refined by `DurableStore` |
| `StateRecords` | the codec of that file and the lines of four releases | `UpgradedStore` |
| `UpgradedStore` | `DurableStore` with the codec of `StateRecords` | |
| `ExchangeProtection` | `StrategyInstance` with the stop and take levels the exchange holds | |
| `KeyedMutex` | the registry of locks | `BarFanOut` |
| `BarFanOut` | one bar over the catalog: scan, selection, dispatch, and everyone who competes for the locks | `MCBarFanOut` |
| `DeploymentFile` | set `enabled` and delete, system call by system call, against editors | `MCDeploymentFile` |
| `EngineCalls` | router and Engine client: question, decoding, decision | |
| `ServiceLifecycle` | build and rollback, intake queue, two worker threads, start and stop | |
| `MCStrategyInstance`, `MCDeploymentFile`, `MCBarFanOut` | TLC's symmetry sets; the streams of the strategies | runs |
| `StrategyInstanceProofs`, `TradeCycleProofs` | theorems about `StrategyInstance`, in two layers; the second module also about `TradeLedger` and `ExchangeProtection` | |
| `BarFanOutProofs` | theorems about `BarFanOut` and, with it, `KeyedMutex` | |
| `ServiceLifecycleProofs`, `EngineCallsProofs`, `AbiCallsProofs`, `DeploymentFileProofs` | theorems about the module they are named after | |
| `DurableStoreProofs` | theorems about `DurableStore`, its refinement of `DurableMap`, the codec of `StateRecords` and `UpgradedStore` | |

`ExchangeProtection` extends `StrategyInstance` and takes its steps from it: it adds
variables that observe the same actions. `BarFanOut` composes `KeyedMutex`' steps with
the bar's, `UpgradedStore` the store with its codec. The other modules
are separate views of the system whose interfaces are each other's assumptions:
`StrategyInstance` takes one atomic `store` from `DurableStore`, one `owner` from
`KeyedMutex`, four kinds of answer from `AbiCalls`, any answer or none from
`EngineCalls` and one atomic change of a file from `DeploymentFile`.

Operators whose comment starts with "Faulty variant" are not part of a model. Each
is a plausible bug of the definition that follows it; put in that definition's place it
makes TLC report the property listed with it under `mutants`.

### StrategyInstance

State: `store` is the instance's latest durable record, `owner` the holder of its
keyed mutex, `file` its deployment file, `abi` what ABI and the exchange hold per
trade cycle, `late` the CREATE requests nobody waits for any more, `journal` the
number of records per kind. `pc[t]`, `st[t]`, `then[t]` and `ctx[t]` are a thread's
position, its local `state` and what else it carries.

Each external call and each save is a step of its own, so a crash, a fill or another
request can fall between any two of them:

- the bar: `BarSelect` (catalog and selection, before the mutex), `BarBegin`,
  `BarFinds*` (open-position lookup), `BarManage`, `Remainder*`, `EngineOpenTrade`,
  `ProtectionApplied`, `EngineLiveEntry`, `Create*`, `Cancel*`, `EntryNotReady`;
- the first-fill webhook: `FillCallback`;
- the resolver: `ResolverBegin`, `ResolverFinds*`, `Neutralize*`;
- the operator routes: `OperatorEnables`, `OperatorBegin(command)` and the steps
  after it;
- shared by all: `Save`, `SaveFails`, `Release`, `Journal*`, `CallFails`, `Close*`;
- the world: `Fill`, `FillRest`, `EntryDies`, `PositionEnds`, `LateArrives`,
  `LateLost`, `Tick`, `StorePoisoned`, `Crash`.

Time is counted in bars. Prices, side and exit profile take part only in whole-value
equality, so an entry is its signal bar and one opaque protection. An answer of ABI is
"confirmed", "refused", "not ready" or "nothing usable"; `AbiCalls` shows why these are
the only cases. What is assumed of ABI: it answers "absent" only for a cycle without a
fill and executes no CREATE for that cycle afterwards; it reports a position or an
order only if there is one. A journal append that fails is only logged by the code;
this model lets every append succeed. An instance has one operator thread: two requests
exclude each other by the mutex, and the catalog check before it is repeated behind it
by every command that could be misled.

### AbiCalls

One call at a time, as the mutex guarantees. ABI may execute or refuse a pending
request at any moment, and may answer with its own envelope, which is truthful; a
gateway or a failing ABI may answer anything else, executed or not; or nothing comes.
The six `decode_*` operators are the codecs, the `*Answered` actions their callers.
Two things the code relies on stay assumptions: HTTP pairs an answer with its request,
and error envelopes, which carry no identity, are about the request they answer.

### DurableStore, StateRecords and UpgradedStore

The file is a sequence of lines, a line the texts written since the last newline. An
append may stop inside the record, between the bytes of one of its characters, or before
its newline (`Tears`), by a failing write or by the death of the process. `Replayed`
and `ReplaySucceeds` are `_replay`; `Readable` is `read_text`, which decodes the whole
file first. The store knows of its codec only what `CodecAssumption` says: what was
encoded decodes to itself, and every other object to an aggregate or to an error.

`StateRecords` is that codec. A JSON object is a function from its fields to their
values; the fields all releases share and no rule tells apart are one. `JsonObjects`
has every combination of present, absent, null and unknown fields over schema versions
1 to 5; `ReleaseLines` is the reference, what each release writes for each state it can
hold. `UpgradedStore` gives it to the store and lets the file begin with any of the
objects. TLC decodes each of them once (`Accepted`, `Readings`).

### ExchangeProtection

`apply_protection` is the one exchange command sent without a marker. `levels` is what
the exchange holds, `straying` the commands nobody waits for any more, `unanswered`
the cycles with a command left in doubt by a timeout, a crash or a failed save and none
confirmed since. What the state acknowledges is in force for every other cycle. For
those in `unanswered` the two may differ, and the code knows nothing of it: if Engine
goes back to the protection the state still holds, the decision is `no_op`. The next
protection that is confirmed ends the doubt, unless a stray command of the cycle may
still be executed after it.

### KeyedMutex and BarFanOut

`hold` is a look-up under the registry's guard and an acquisition; another thread may
come between them. `BarFanOut` lists the files (`BarStarts`), reads one per step in
name order while `Edits` changes any of them, drops duplicates and selects
(`BarSelects`), then asks for, enters and leaves each instance's lock in ascending
order. Operators' commands look in the catalog before they ask and give up in the end;
webhooks and the resolver ask for any key and wait. A file is a deployment, absent,
invalid, or "raising": it makes `load_snapshot` raise.

### DeploymentFile

Names refer to inodes and inodes have contents, so that a hard link, a rename over a
name and a write into a file differ as they do on disk. A content is a text: of the
document in it the model keeps the identity, `enabled` and an edition for the keys and
values that take no part in the identity, and of the text itself a layout, which is what
`json.loads` drops: indentation, line breaks, repeated keys, the notation of a number.
`Updated` is the round trip of `set_enabled`. It keeps the edition and renders the
document anew (`Rendered`, which is `_serialize` with `_detect_indent`): only a text
that `json.dumps` wrote comes back as it was. The comparison before the replacement is
of texts. `owed` is a history variable, the text an editor last saved under a name;
`NothingLost` says that it, or a rendering of it with another `enabled`, is still there
or in the trash. What an editor saves in the `window` between a command's last look and
its rename or unlink is not owed once the command has gone on. The mutex admits one command at a time; editors act between any two system calls, and the
process may die there. The temporary file's name is never used again, so a crash may
drop it from the model. Syncing a directory changes nothing a running system sees and
is left out.

### EngineCalls

`Route*` and `FindClosure` are a bar up to its question, `ResponseArrives` any HTTP
response, `EntryReconciled` and `PositionManaged` the decision. A price is a number and
one of two notations. A response with the exact success body is Engine's own answer to
the request: neither answer echoes an identity, so this is what the client has to
assume. The deployment's spec is not part of the model: the strategy's identity is a
digest of it, so it cannot change under an instance.

### ServiceLifecycle

One step per acquisition of a worker's lifecycle lock, per queue operation and per
step of the lifespan. The build makes the clients one after another and may raise at
each step; `RollBack` and `CloseNext` are what is undone then. `accepted` and
`processed` are history variables.

## Runs

| Run | Instance | Shows |
|---|---|---|
| `instance_ema` | 2 cycles, 2 protections, clock 2, ema_anchor; 1.1 million states | `StatesWellFormed`, `NoOrphan`, `MarkedBeforeSent`, `CycleMatchesExchange`, `JournalTruthful`, `FactsSurviveSaves`, refinement of `TradeLedger` |
| `instance_touch` | `ExchangeProtection`: 1 cycle, 2 protections, clock 3, lifetime 1, touch_trigger; 560 thousand states | `TypeOK`, `LifetimeHonoured`, `RemainderGone`, `InductiveInvariant`, `AcknowledgedInForce` |
| `instance_live` | 1 cycle, clock 3, lifetime 1, touch_trigger, with fairness; 47 thousand states | `MarkerResolved` |
| `store` | 2 keys, 2 cycles, 3 lines, all tears, every first line of the alphabet; 148 thousand states | `ServedIsDurable`, `UpgradeForgetsNothing`, `NothingInvented`, `OneTearIsHarmless`, refinement of `DurableMap` |
| `lifecycle` | 3 clients, 2 events, 2 instances, capacity 2, 3 accepted bars, with fairness; 21 thousand states | `AcceptedInOrder`, `ClientsOutliveThreads`, `ThreadsAlive`, `NothingLeftBehind`, `NoneCurrentAfterStop`, `ShutdownEnds`, `AcceptedIsProcessed` |
| `bar_fan_out` | 2 strategies, 2 streams, 2 files, 1 edit, 3 threads, 2 requests, with fairness; 440 thousand states | `EveryoneAttempted`, `OnlyDeployedProcessed`, `MutualExclusion`, `BarCompletes`, `OperatorAnswered` |
| `file_commands` | 2 names, 2 identities, 2 layouts, 1 trash name, 2 edits of either kind; 1.3 million states | `NothingLost`, `OnePlace`, `EditsBeforeCheckSurvive`, `DeletedKept` |
| `engine_calls` | 2 prices in 2 notations, 4 bars; 240 thousand states | `DecidedByEngine`, `AsksAboutTheTrade`, `NoNotationChurn` |
| `abi_calls` | 2 cycles, 2 values; 670 thousand states | `NothingForgotten`, `ConfirmedIsReal`, `ProtectionProved` |

`TypeOK` is part of a run where a theorem is about it; in the other modules it documents
the variables. Runs that show a disagreement between the code and what the repository says
of it:

| Run | Statement | What happens |
|---|---|---|
| `instance_disabled` | "a disabled strategy never keeps an order" | the bar selects the instance, the operator disables it, the bar gets the mutex and places an order |
| `instance_closed` | "its closure is journaled elsewhere" | the resolver drops a filled and ended cycle; nothing names it any more |
| `store_glued` | "A successful save is already physically durable" | a record appended behind a torn line is served but not in what a restart reads |

Other places, met while modelling, where the code does not do what a document of the
repository says. The models show the behaviour; no run is kept for it. Specs are under
`src/openspec/specs/`.

- `committed-bar-intake-queue/spec.md:111`, a duplicate bar "produces no second trade
  cycle": once the trade of the first delivery has ended and its cycle was let go,
  another delivery may create one (`adapters/http/app.py:133`).
- `processing-journal/spec.md:206`, "Every Open Trade transition is journaled after the
  durable save": the first-fill webhook saves the transition and journals nothing, and
  everyone later finds it frozen (`runtime/abi_execution_event/orchestrator.py:23`).
- `processing-journal/spec.md:33`, "one complete JSON object per line": after a write
  that stopped inside a line the next event is appended behind the fragment
  (`utility/processing_journal/jsonl_adapter.py:395`).
- `runtime-durable-state-store/spec.md:114`, "A syntactically truncated last line is
  discarded, not fatal": an append that stopped inside a character makes `read_text`
  raise (`infrastructure/runtime_state/jsonl_repository.py:162`); `OneTearIsHarmless`
  makes the exception explicit.
- `runtime-durable-state-store/spec.md:18`, "appends exactly one complete JSON line": a
  spec with U+2028 is one line to `json.dumps(ensure_ascii=False)` and two to
  `str.splitlines` (line 166 there).
- `strategy-enabled-control/spec.md:78`, "SHALL refuse the change ... when the original
  file's content changed between reading it and replacing it": an editor's save between
  the comparison and `os.replace` is overwritten (`enabled_writer.py:106`);
  `EditsBeforeCheckSurvive` says what is kept.
- `utility/deployment_catalog/enabled_writer.py:51`, "The new document equals the old one
  except for `enabled` (same keys, same order, same indentation ...)": `_detect_indent`
  strips spaces only, so a file indented by tabs comes back on one line; `json.dumps`
  lays arrays and objects written on one line out anew; `json.loads` keeps the last of
  two equal keys. `NothingLost` says what is kept.
- `strategy-delete/spec.md:7`, "SHALL NOT erase the file": an editor's save between the
  verification of the link and the unlink is removed (`trash_mover.py:86`).
- `runtime/strategy_delete/service.py:3`, "its file must say `enabled: false`": the check
  and the read are two scans, and the file may be enabled between them.
- `deployment-catalog/spec.md:34`, "One invalid candidate file MUST NOT prevent
  unrelated valid deployment files from appearing in the snapshot": bytes that are not
  UTF-8, or a lone surrogate in the spec, end the scan for every strategy
  (`filesystem_adapter.py:104`).

### Bounds

- Two trade cycles are enough for a Replace, for an event of a former cycle and for a
  late request of one cycle while another is current. Identities are not used again,
  as uuids are not, so behaviours end after two cycles; deadlock is still not reported
  because bars, crashes and ticks remain possible. `AbiCalls` has no such steps and its
  run allows the end (`CHECK_DEADLOCK FALSE`). `instance_touch` has one cycle: lifetime,
  remainder and protection are all about one trade, and two are in `instance_ema`.
- `MaxClock` 2 gives two committed bars, and a fill in the same bar as the signal or a
  later one; in touch_trigger with lifetime 1 an order expires on bar 2, so the clock
  goes to 3. Liveness, which costs most, is checked with one cycle: no step of the
  resolver looks at a former one.
- Symmetry over trade cycles is used in `instance_ema`; no definition tells the
  identities apart.
- In `store` nothing is appended behind an unfinished line (`MaxTexts` 1): after such an
  append the store does not do what is claimed, as `store_glued` shows (`MaxTexts` 2,
  five lines: a tear, the glued record and one more save after it). Three lines are a
  line found, one that supersedes it and one of the other instance, or a torn one. The
  line found is one key's, as no rule depends on the key; saves take each key to its
  initial state and to one with a marker, a frozen fill and a cancelled remainder.
- Capacity 2 and three accepted bars allow a full queue, an event in work and one more.
  Three of the seven clients allow a build that fails before, between and after them.
- Two files and one edit allow a duplicate identity, a deployment that moves to a name
  already read or still to be read, and one that is gone when its turn comes; two
  strategies of one stream allow a failure before a success, and the bars of the other
  stream are nobody's; two requests of other threads allow a busy lock and one that is
  overtaken.
- In `DeploymentFile` two edits are one between any two system calls and one more
  between two later ones; the number of inodes is the least that never runs out. One
  edition is enough: two layouts, one that a rendering keeps and one that it changes,
  already give texts that differ as documents, as texts only, or not at all. No
  definition tells names or identities apart, so both are symmetric. Two
  names allow two files of one identity, which no command may touch; one trash name
  makes a second delete meet the name of the first.
- Four bars in `EngineCalls` allow a fill, a bar from before it and two after it.

### Fairness

`StrategyInstance`: whoever holds the mutex goes on (weak fairness of `Progress`),
since every wait inside a handler is an HTTP call with a timeout or a local write. The
resolver polls for ever, so it gets the mutex again and again (strong fairness of
`ResolverBegin`: Python's lock is not first-come first-served, but the polls never
stop). That an attempt which could be answered again and again sometimes is (strong
fairness of `Answered`, `NeutralizeAbsent`, `CloseConfirmed("resolver")` and
`Save("resolver")`) says that ABI is not unreachable for ever and that the process does
not always die at the same point. Nothing is assumed of bars, fills, webhooks or
operators. `MarkerResolved` is conditional on the store not being poisoned from some
time on: a poisoned store serves nothing until the process is restarted, which is an
operator's decision.

`ServiceLifecycle`: each thread that can go on does. Nobody has to ask for a shutdown
or post a bar.

`BarFanOut`: the bar and every thread that holds a lock or can have one go on (weak
fairness); calls under a lock have timeouts. Other threads ask for locks a bounded
number of times, so the bar is overtaken finitely often and weak fairness is enough;
Python's lock promises no more order than that, and a bar that others overtake for ever
is beyond what the code excludes. Nothing is claimed of how soon webhooks and the
resolver are served.

## Proofs

TLC checks each safety property on a small instance; the theorems below state it for
every value of the constants. Each component has an inductive invariant (`Invariance`,
`CycleInvariance`, `FanOutInvariance`, ...), proved action by action, from which its
properties follow. The assumptions are those on the constants, named in the module
that declares them and evaluated by TLC on the runs: `None` and the like are none of the
values, modes are one of those the code has, bounds are naturals, for the store what
`CodecAssumption` asks of a codec, and for `UpgradedStore` that the store's codec is the
one of `StateRecords` (`RecordsStoreAssumption`) and that null and an absent field are
none of the values (`NullAssumption`).

| Module | Theorems |
|---|---|
| `StrategyInstanceProofs` | `TypeCorrect`, `WellFormedStates`, `OrphanFree`, `MarkersPrecedeCommands` |
| `TradeCycleProofs` | `StoreTellsTheTruth`, `NoRemainderRests`, `OrdersLiveTheirTime`, `JournalTellsTheTruth`, `SavesKeepFacts`, `LedgerImplemented`, `ProtectionInForce` |
| `BarFanOutProofs` | `ThreadsExclude`, `NobodySkipped`, `NobodyInvented` |
| `ServiceLifecycleProofs` | `BarsInOrder`, `ClosedAfterThreads`, `OnlyPoisonEndsAThread`, `EndsClean`, `StopIsAtomic` |
| `EngineCallsProofs` | `OnlyEngineDecides`, `ReceiptIsTheTrade`, `NotationIsNoNews` |
| `AbiCallsProofs` | `NothingIsForgotten`, `OnlyTheRealIsConfirmed`, `OnlyProvedProtection` |
| `DeploymentFileProofs` | `NothingIsLost`, `InOnePlace`, `EditsSurvive`, `TrashIsKept` |
| `DurableStoreProofs` | `StoreTypes`, `TornAppendIsHarmless`, `ServesWhatIsDurable`, `DurableMapImplemented`, `NothingIsInvented`, `UpgradesForgetNothing` |

### The strategy instance, first layer

`NoOrphan` is not inductive: that the store answers for everything exposed after a
save depends on what the saving thread holds in `st[t]`, which depends on what it read
and what it did since. `InductiveInvariant` adds:

- `MutexOK`: a thread inside a handler owns the mutex, hence there is at most one;
- for that thread (`ThreadOK`): at a point where it relies on its copy, the copy names
  the same cycle and the same markers as the store (`Agrees`); when it is about to save,
  the value is well formed and answers for everything exposed, so the save preserves
  `NoOrphan`;
- what each point presupposes (`PointOK`): e.g. at "create" there is no current cycle,
  the marker is set and its identity is still fresh, so that the one order that
  appears is the one the marker names;
- `ExchangeOK`: an order has its entry and a fill its bar, needed when the resolver
  adopts them.

Its parts take the variables as parameters, so that a step of one thread or of the
exchange is handled by a few lemmas (`OneThreadStep`, `SaveThenStep`, `GotoStep`,
`OutsideStep`) and each action by one lemma of its own; `StepInvariant` collects them.
`instance_touch` checks the invariant with TLC.

### The strategy instance, second layer

`CycleInv` says what a cycle's record is worth, on top of the first layer:

- `Matches`: what the store, and every handler's copy, hold of a cycle (its entry, its
  fill, a cancelled remainder) is so on the exchange. It stays so because the exchange
  only moves on (`Advances`): an order keeps its entry, a fill its bar, what is over
  stays over;
- `Unrecorded`: of a cycle the store still names, the journal has neither "closed" nor
  "ended", and no "opened" before it is frozen. With it each record is written once;
- `ThreadFacts`: a handler at work has exactly the stored state, not only the same
  identities. The one exception is a bar that goes on after its save failed: then the
  store is poisoned and nothing the bar does later is stored. What a thread is about to
  save keeps the facts of the stored record (`Keeps`);
- `PointFacts`: what a point presupposes besides, e.g. at "cancel" in touch_trigger the
  order's lifetime is over.

`LedgerImplemented` splits the steps in two: the store changes only by the save of the
thread that owns the mutex (`StoreWritten`), which is a step of the ledger
(`SaveIsALedgerStep`) because what it lets go of is not exposed; and all other steps
change only the exchange, where something new appears only under the identity the store
names (`WorldIsALedgerStep`).

### The protection in force

`LevelsAddOnly` shows that `ExchangeProtection` takes only steps of `StrategyInstance`,
so both layers hold of it. `AcknowledgedInForce` speaks of the stored state while no bar
is changing the protection; the save that ends such a change makes it true again only
because of what the saving thread holds. `LevelsInv` therefore says it of every aggregate
that is stored or may yet be (`InForce`):

- the current cycle, frozen or not, stands for the level the exchange has, so that a
  fill frozen later needs no new command;
- the order of a CREATE without an answer has the levels of its entry, so that the
  resolver may adopt it;
- between the command and its record (`Recording`) only the bar's own copy is right and
  the store is one protection behind, and nobody else can save;
- a stray command belongs to a cycle in `unanswered`, so it cannot change the levels of
  any other; a confirmed command takes its cycle out only when none of them is left.

How an aggregate follows another without a new protection is one relation (`Follows`),
how the exchange moves another (`LevelsMove`). Each action is shown to be of those
forms; `ProtectionApplied`, the one step that is not, has a lemma of its own
(`LevelsConfirmed`).

### The other components

- `BarFanOut`: a thread with a reference to a lock has its key's own lock object, no
  two keys share one, and a thread inside owns it; outcomes and queue together are the
  ascending sequence of the selected identities. The order of that sequence rests on
  the least element of a set of naturals, from the well-founded-induction library.
- `ServiceLifecycle`: where `main` stands determines what the workers and the clients
  can be, and a dead thread of a running resolver means a poisoned store, the one
  exception its `_run` does not catch; while the intake runs, what was processed, the event just taken and the queue
  make up what was accepted.
- `EngineCalls`: what a response that passes the codec says is what Engine calculated
  for this question, and the frozen trade is the exchange's.
- `AbiCalls`: what a truthful envelope can say about a pending, executed or refused
  request, call by call; the strict decoders admit nothing else.
- `DeploymentFile`: no two visible names share an inode, the temporary file has one of
  its own, and an inode has a name on both sides only while the running delete moves it
  (or a clean-up failed); unless an editor saved since the command's last look, its name
  still has what it read. That a new file finds an unused inode is a counting argument
  from `FileAssumption`. `NothingLost` needs a second invariant on top (`OwedInv`): the
  temporary file holds the change of the text the writer read, the file a delete has
  linked has no other visible name, and what is owed where the name is gone is in the
  trash under a completed delete, where no editor can reach it. A replacement then puts
  a version of what is owed in its place because rendering twice is rendering once
  (`UpdatedIsAVersion`).
- `DurableStore`: a line holds one text and, once ended, a whole record; while the
  store serves, replay succeeds and gives the index. `ReplayOfOneMore` says what one
  more line does to a replay. `ServesWhatIsDurable` and `DurableMapImplemented` assume
  `MaxTexts <= 1`, that nothing is appended behind an unfinished line: without it they
  are false, which `store_glued` shows. `TornAppendIsHarmless` needs no such condition.
- `StateRecords` and `UpgradedStore`: the codec is taken apart field by field, contexts
  before cycles before lines. `AcceptedIsReleased` says that a line that decodes is the
  line some release writes for a state it can hold, `ReleasedIsReadBack` that the line
  of a release decodes to its state; the first gives `NothingIsInvented` for any
  file the store can come to have. For `UpgradesForgetNothing` the store's invariant is
  not enough: that the store refuses to start only for a reason needs that behind the
  first line there are records and at the very end perhaps part of one (`UpgradeInv`),
  which again takes `MaxTexts <= 1`.

### Only model-checked

Liveness (`MarkerResolved`, `ShutdownEnds`, `AcceptedIsProcessed`, `BarCompletes`,
`OperatorAnswered`): fairness and ENABLED are beyond the prover. Every other property of
a passing run is stated by a theorem.

## Not modelled

The in-memory repository (tests only); chart layers and the trading-state listing, which
only read; configuration (the models' constants); of the HTTP adapters, everything but
the closed-bar webhook: each other route translates a request into one service call and
its result into a status and keeps no state. The grammar of decimal texts and the
identity's hash are opaque: a text is valid, and two specs have two identities.
The reasons for which a deployment file is invalid are one case, as are those for which
a response body is malformed. Journal records other than opened, closed and ended, and
the payload of all of them, are left out, as are the append to the journal's file and
its failure counter: the adapter swallows every failure, so no handler can depend on it. The
registry of locks grows by one object per identity and is never emptied; the models
have finitely many identities. What becomes of the order or the position of an instance
whose deployment was edited into another identity is promised nowhere and not stated.

## Plan

Done: `RuntimeState`, `StrategyInstance` with the ledger and its main theorem,
`ExchangeProtection`, `DurableStore` with its codec, `KeyedMutex`, `BarFanOut`,
`DeploymentFile`, `EngineCalls`, `ServiceLifecycle`, `AbiCalls`. What is left of the system to model is listed above.

Proved: every invariant, every action property and both refinements.

Next: what the assumptions of one view promise another is stated in prose (one atomic
`store` from `DurableStore`, four kinds of answer from `AbiCalls`); composing
`StrategyInstance` with either by a refinement would make it a theorem.
