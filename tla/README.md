# SafeWebCore verification

TLA+ models, TLC runs and TLAPS proofs for the two programs of this repository:

- **SafeWebCore**, a set of .NET libraries that add security headers to ASP.NET Core
  responses (`SafeWebCore`), score requests for region impersonation and
  unauthorized scanning (`SafeWebCore.FraudDetection`) and harden JWT bearer
  authentication (`SafeWebCore.JwtBearer`), under `src/src/`;
- the **BMad tooling** the project is developed with: Python programs that install
  and render skills, keep a ticket tree, a log and a roster, under `src/_bmad/`, and
  those of the skills themselves, under `src/.agents/skills/`. Agents and users run
  them on one working copy, several at a time, with no lock.

Contents: 1 inventory, 2 the modules and how they map to the code, 3 runs and
bounds, 4 proofs, 5 where code and documentation disagree, 6 what is not
modelled, 7 plan.

## 1 Inventory

### SafeWebCore.FraudDetection

| Component | State | Operations | Hard because |
|---|---|---|---|
| `PenTestSignalAnalyzer` | two `ConcurrentDictionary` fields of a singleton: request times per source, time of the last notification per source | `IsAuthorizedPenTestBypass`, `Evaluate`, `EvaluateAndNotify` | every request thread runs it on the same two dictionaries with no lock around peek/dequeue/count or around look-up/send/store; timestamps may come from the caller, hence in any order; sending may throw |
| `SuspicionScorer`, `TravelModeEvaluator`, `FraudVerdictMapping`, `RiskScore` | none | signals to score, score to verdict, action, risk level | bonuses that replace one another, a cap and a percentage discount, thresholds nobody orders |
| `GeoCulturalConsistencyDetector`, `WesternImpersonationDetector` | the analyzer they share with the container | `Analyze` | a sequence of external calls (store, options monitor, geo-IP, sender, sinks), each of which may throw |
| `FraudDetectionOptionsResolver`, tenant store | none of its own; reads the store, then `IOptionsMonitor` | `GetCurrent` | two reads at two moments of two sources that change independently |
| `FraudEventDispatcher`, `SafeWebCoreFraudMetrics` | counters | `Dispatch` | several counters and sinks in turn, some throwing, concurrent with other dispatches |
| `DispatchingPenTestAuthorizationNotificationSender` | none | `SendAuthorizationCheck` | consumers in turn, *not* isolated from one another |
| `GeoIpEnricher` | none | `Enrich` | the service may throw |
| `WebhookFraudEventSink` | none | posts in the background | lost on shutdown, unordered |

Correct means: a source that keeps scanning is reported, at most once a cooldown;
a burst is counted right; a report's score, verdict and action agree with one
another and with options that were in force; every report that is dispatched
reaches every sink whichever of them fail; the counters add up.

### SafeWebCore

| Component | State | Operations | Hard because |
|---|---|---|---|
| `NetSecureHeadersMiddleware`, `NonceService`, tag helpers | response headers, `HttpContext.Items`, an `OnStarting` callback, two counters | `InvokeAsync`, `AddSecurityHeaders`, `Process` | the pipeline may run the middleware again for one response (error and status-code pages), other components write the same headers before, behind and in callbacks, custom policies may throw half-way |
| `PathPolicyResolver` | a sorted list, built by the middleware and, once more, by the diagnostics service | `Build`, `Resolve` | unstable sort, spelling of prefixes, two copies that must agree |
| `NetSecureHeadersOptions` and extensions | options objects with collections | `PathPolicy`, `ApplyPreset`, `Clone`, rollout defaults, configuration callbacks | built from one another in an order the application chooses; collections could be shared |
| `NetSecureHeadersOptionsValidator` | none | `Validate` | decides which of these a host starts with |
| `NetSecureHeadersDiagnosticsService` | none | `BuildHeaders` | a second statement of the middleware's rules |
| `CspReportMiddleware`, `SecurityEventDispatcher`, `SafeWebCoreMetrics` | counters | report parsing, sinks, events | asynchronous sinks, fire-and-forget events with the request's cancellation token |
| builders, presets, registration, tag helpers | none or constants | | |

Correct means: each path has one policy, and the strictest configured for it
(the longest prefix); what a policy promises is what the browser receives, and
exactly that is previewed and counted; the scripts of a page are the scripts its
policy authorizes; names that are to be removed are not sent.

### SafeWebCore.JwtBearer

`JwtAuthorityValidationGuard` (a hosted service with a periodic task, stopped and
disposed by the host), `LoggingConfigurationManager` (a decorator with a rate
limit), `JwtBearerHardeningApplication` (rules applied once to options, in
order). Correct means: the host stops, a bad authority is reported as what it
is, a rule never loosens a setting. They are not modelled (section 6).

### BMad tooling

| Component | State | Operations | Hard because |
|---|---|---|---|
| `tickets.py` | a tree of folders: each epic's `tickets.toml`, epic files, leaf files, plans | `next`, `status`, `find`; `pull` and `mark`, which write one file | prerequisites of tickets and gates of epics refer to one another by ids, slugs, file names and tracker ids; several agents write, by truncating, while others read; a command may die half-way |
| `setup.py` on `_bmad` | `_bmad` with `config.toml`, `custom/`, scripts of modules, generations | questions, answers, `setup` | plans from what it reads, copies the whole folder, completes the copy and swaps it in by two renames, while users edit and renders publish inside it |
| `render_skill.py`, `config_utils.py` | generations of rendered skills | `render` | reads four layers of configuration, names the result after what it read, publishes by one rename |
| `setup.py`, `setup_check.py`: installed skills | the folders beside the hub, each with a `bmod.toml` | discovery, `status`, `next` | two programs that decide what is owed, SemVer with `next` prereleases, duplicate and missing records |
| `knowledge.py` | none | documents, topics, migrations of the installed modules | reads the same records by rules of its own |
| `roster.py`, `resolve_party.py`, `resolve_personas.py` | none | rosters, agents, parties | an index of words built person by person, by different rules in two programs |
| `brain.py` | the page it writes keeps what the user checks | catalogue, `show`, `random`, `html` and the page's own script | an overlay in any spelling, one technique with two boxes, a browser that restores boxes |
| `memlog.py` | one append-only log | `init`, `append`, `set` | one temporary file for all callers, killed anywhere; resumed by other hosts |
| `pick_methods.py` | none; its host keeps what was offered | menus, reshuffles, lookup | numbers continued over gaps, draws spread over categories |

Correct means: a tree that loads always has something to do, and no command makes it
unloadable or answers differently of what it wrote; nothing the user wrote is lost
by a setup, and a setup leaves nothing to do; programs that read the same files
agree; the words people use mean whom they should; a log is append-only and a
session resumed from it repeats nothing; what a page or a menu shows is what runs.

### Interactions

Detectors call resolver → analyzer (bypass) → enricher → analyzer (signals,
notification) → scorer → dispatcher, on the request's thread; everything shared
is in the analyzer and in the counters. The middleware resolves the path's
policy with the resolver, stores the nonce that the tag helpers read, and sends
its events through the security event dispatcher. Configuration happens before
all that, on one thread, and validation stands between the two.

The tools interact through files. `setup.py` places the scripts that the skills run,
and completes the configuration that `render_skill.py`, `roster.py`,
`setup_check.py` and the resolvers read; renders publish into the folder that setup
swaps. `setup_check.py` and `knowledge.py` read the `bmod.toml` files that `status`
and `setup` read. A brainstorming session is composed on `brain.py`'s page or drawn
in chat, and its host logs each technique with `memlog.py`.

## 2 Modules

| Module | Models | Uses |
|---|---|---|
| `PenTestSignals` | `PenTestSignalAnalyzer`: `EvaluateAndNotify` | |
| `NotificationLedger` | abstract promise: who is notified, per source | |
| `FraudScoring` | scorer, travel mode, verdict, action, risk (operators only) | |
| `FraudAnalysis` | `Analyze` of both detectors, resolver, tenant store, enricher, consumers, dispatcher, counters | extends `FraudScoring` |
| `HeaderPipeline` | one request through a pipeline around the headers middleware | |
| `PathPolicies` | configuration of options and path policies, validation at start, `PathPolicyResolver` | |
| `CspReports` | `CspReportMiddleware` and `SecurityEventDispatcher.EmitAsync` | |
| `TicketTree` | `tickets.py` | |
| `RenderPlan` | what one render decides (operators only) | |
| `BmadRuntime` | setup and render on one `_bmad` folder | extends `RenderPlan` |
| `KnowledgeDocs` | documents, topics and migrations of one record (operators only) | |
| `BmadInstall` | installed skills, `status`, `next`, `setup_check.py`, `knowledge.py` | extends `KnowledgeDocs` |
| `PartyRoster` | roster and both resolvers | |
| `TechniquePage` | `brain.py` and the page it writes | |
| `Memlog` | `memlog.py` | |
| `BrainSession` | a session composed on the one and logged with the other | extends `TechniquePage`, `Memlog` |
| `MethodPicks` | `pick_methods.py` and the menus served from it | |
| `Lists` | keeping the items at some places of a list (operators only) | extended by `PartyRoster`, `TechniquePage`, `MethodPicks` |
| `…Proofs` | theorems of the module it is named after; `SafeWebCoreProofs` those of `HeaderPipeline`, `PathPolicies` and `CspReports`, `BmadProofs` those of `BmadRuntime` and `BmadInstall`, `PartyRosterProofs` also `MethodPicks`'s | extends it |
| `ListProofs` | what `Kept`, `Max` and `Min` give of lists and their places | extended by `BrainSessionProofs`, `PartyRosterProofs` |
| `MC…` | instances for TLC | extends it |

**PenTestSignals.** One action per call on the clock, on a concurrent collection
or on the sender, because a thread can lose the processor between any two:
`ReadBurstClock`, `Enqueue`, `PeekExpired`/`PeekDone`, `Dequeue`, `Count`
(`IsBurstRateExceeded`), `ReadCooldownClock`, `LookUpAllows`/`LookUpSuppresses`
(`ShouldSendNotification`), `Send`/`SendThrows`, `ReadStoreClock`, `Store`
(`StoreNotificationTimestamp`). `windows` and `lastNotifications` are the two
dictionaries; an absent queue and an empty one are the same sequence. `contended`,
`pruneRace` and `sendRace` are history: they name the sources for which two
threads were in the respective window at once, so that properties can say what
holds *unless* that happens. `NotificationLedger` says the same from outside: a
request consults the ledger, is allowed or suppressed by it, its notification is
delivered or lost, and a delivered one is recorded. `LedgerSpec` is the
refinement; races are part of it, so it holds without exception.

**FraudScoring.** A country, zone, language or font enters as the class the
tables put it in (expected, travel, both, …), which is all the rules look at.
The weights are the source's.

**FraudAnalysis.** `detector` is chosen at the first resolution (`BuildDetector`)
and `settings` change under it (`Reload`, `StoreWrite`). A call goes through
`Begin`, `ReadStore`, `ReadMonitor`, `Bypass` or `Enrich`/`LookupThrows`,
`NoScanner` or `ScannerFound`, `Notify`/`ConsumerThrows`/`AllNotified`,
`MakeReport`, `Deliver`/`SinkThrows`, `Return`. Whether a scanner is found and
whether the cooldown lets a notification pass is a free choice here: it is
decided in `PenTestSignals`. Both detectors differ in the section they read and
in the toggle, `Section` and `SectionOn`.

**HeaderPipeline.** The middleware is `SkipHeaders`, `ApplyHeaders`, `ApplyThrows`,
`RunHook` and the tag helpers `Render`; the rest is what ASP.NET Core and the
other components do around it, modelled from how the code uses it: headers
written and callbacks registered before or after, an exception handler (which
clears the response) or a status-code page (which keeps it) that runs the
pipeline again with the same `Items`, an abort, and callbacks in reverse order of
registration at the start of the response. A nonce is the number of the pass
that generated it. Header values are records of who wrote them in which pass.

**PathPolicies.** One thread applies `SetGlobal`, `ApplyPreset`,
`ApplyEnvironmentRolloutDefaults`, and declares policies in the three ways the API
offers (`PathPolicy`, an `ApplyPreset` by hand, a fresh options object); `Start`
validates and either runs the host or refuses. Collections are entries of a heap
(`lists`), options hold the index: so sharing, had the code any, would show.
The specification is `ConfigSpec`. `Resolve` is evaluated for every order in `Builds` that the unstable sort may
leave. A text is a sequence of segments, `Covers` the segment semantics of
`StartsWithSegments`, `Folded` and `Length` what the code asks of strings; the
proofs use no more of them than `PathAssumption`.

**CspReports.** A request is rejected, refused by an exception, or goes through the
report sinks one by one (`SinkWrites`, `SinkThrows`), calls `EmitAsync` without
awaiting it (`Emit`) and is acknowledged and counted (`Acknowledge`). The
dispatcher's loop is a task of its own: on the request's thread (`inline`) until a
sink returns an incomplete task (`SinkPends`), from then on beside it
(`awaiting`, `resumed`). `Detached` is the point where the request gets its thread
back. The bodies are classes: what the parser refuses, what makes it throw, what
names no directive, what is good.

**TicketTree.** The disk is `breakdown`, `gate`, `container`, `leaf` and `plan`; the tree a
command builds from it (`Tickets`, `After`, `GatedBy`, `State`, `Loads`) is an
expression over it, as `load_tree` computes it anew each time. `Group` is `classify`,
`LongestRemainingChain` the chain of `status`, `RowRef` and `Find` the references rows
carry and their resolution. `NextAnswer` and `StatusAnswer` are what `next` and `status`
print of a tree, with the initiative's own `after` lines that no entry pins
(`UnpinnedAfter`). `MarkRead` and `PullRead` read and prepare the text,
`Open` truncates or creates the file (`Blank`) or is refused, `Write` fills it, `Crash`
leaves it. Whoever drives the builds closes epics (`SetContainer`, external).
`torn` is history: a command read the tree while a file lay empty, still open for writing or
left so by a writer that died.

**RenderPlan, BmadRuntime.** A tree is a record of what a setup or a render can tell of a
`_bmad` folder, so the copy (`Copy`), the staging (`Stage`), the two renames
(`MoveAway`, `MoveIn`, and `MoveBack` when the second fails) and the removal of the
backup (`DropBackup`) move whole trees. A render is `ReadInputs`, then `Publish`,
`WriteOutput` for one file at a time in a staging folder inside the tree (which a swap
carries away) and `Commit`, or `Verify` when the generation is there. Its inputs go
through the layers of `config_utils.py` (`Inputs`, `Layer`); `Key` is made of the values
its templates reached. The user edits in between, and `Crash` kills a setup anywhere. `raced` is history: the custom
files and answers that changed, or were away, while a setup already held older ones, and the
setups that planned on a tree replaced since; moving a tree back under a setup counts.
`torn` names the generations whose renders saw the tree replaced.

**KnowledgeDocs, BmadInstall.** A folder holds a file or what went wrong with it. Three
readings of the same folders stand side by side: `setup.py`'s (`Winners`, `Members`,
`Unmet`, `PendingQuestions`, `StatusCurrent`, `NextStep`), `setup_check.py`'s (`Owed`) and
`knowledge.py`'s (`KnownModules`, `KnownModule`, `Documents`, `Topics`). The user follows
`next` (`Follow`) or adds, removes, answers and sets up on his own, and sources
publish new versions (`Release`). npx is external: it copies what a source serves.

**PartyRoster.** `feed`, `central` and `queue` are what is still to be read, so that the
order people come in is the order of the steps (`ReadAgents`, `ApplyCentral`, `Load`,
`Register`); `Everyone` is the order the two programs take them in. `index` and `pool` are
the two programs' dictionaries, written with `Put`, `SetDefault` and `Without`; `called` is
history, the codes and names each has registered.

**TechniquePage.** `PageInit` merges the overlay and writes the page. What the code's loops
give is stated by places: `MergeExtra` says which row of the overlay each place of the merged list
has (`IsRetuned`, `NewIn`, `Newest`) and `HtmlDoc` at which place each row's card is (`HomePlace`),
which TLC compared with the loops on all small catalogues. The rest is the page's script: boxes, steppers, modes, goals, reload (which keeps boxes and loses counters,
as browsers do), and `Composed`, the prompts the copy button may make.

**Memlog.** A name and the file behind it are two things: `log` and `tmp` hold numbers of
files, `content` their texts, and a command that opened a file writes to it wherever
its name went meanwhile. `Opened`, `Write`, `Replace`, `Report` are the calls of
`write_atomic` and `ack`; a text written into a longer one leaves its tail (`torn`).

**BrainSession.** The host is no code: its steps (`Begin`, `NextCall`, `Resume`,
`StartOver`) are the calls the skill's instructions have it make, marked external.
`strayed` is history: a command that had died was repeated, or two hosts were at work.

**MethodPicks.** A menu is offered, reshuffled (`Reshuffle`, then `DrawOne` in the order
`Turns` gives), listed or chosen from; `Merged` is the merged catalog, again by places (`IsReplaced`,
`NewIn`, `Retuned`, `NumOf`), `Numbered` are the numbers shown, `Find` the lookup. The specification
is `PicksSpec`, as `BmadInstall`'s is `InstallSpec`.

## 3 Runs

Actors are interchangeable model values; `SYMMETRY` is used where no liveness is
checked.

| Run | Bounds | Shows |
|---|---|---|
| `pentest` | 3 requests, 2 sources, clock to 1, threshold 2, cooldown and window 1, callers' time stamps, sends that throw | `BurstCountExact`, `NotificationsSpaced`, `SuppressedOnlyAfterDelivery`, `EveryCallReturns`, `LedgerSpec` |
| `analysis` | 2 calls, 2 options objects, 2 consumers, 2 sinks, 2 changes of settings, masked, authorized and stale-secret clients | `CountersReconcile`, `OptionsWereInForce` |
| `pipeline` | 6 policies, all endpoint modes, 2 passes, 3 callbacks | `ScriptsAuthorized`, `RemovalHolds`, `PreviewIsSent` |
| `policies` | 2 policies, 8 spellings of 6 prefixes, 4 customizations, 2 presets, both environments | `LongestPrefixWins`, `PoliciesIndependent` |
| `reports` | 2 requests, 2 report sinks, 3 event sinks, disconnects at any point | `TelemetryNeverHolds`, `EventsReachEverySink` |
| `tickets` | 2 epics, 2 ids, 2 leaf names, 2 agents, 3 commands; six families of trees | `SomethingToDo`, `RowRefFinds`, `ChainIsLongest`, `OnlyTheMarkedChange`, `OnlyTornReadsBreak`, `PullKeepsAnswer` |
| `runtime` | 2 setups, 2 renders, 2 modules, 2 custom files, 3 setups, renders, edits and crashes together; four starting trees | `GenerationsWhole`, `NamesTellApart`, `SwapKeeps`, `SetupConverges` |
| `install` | 5 folders, 2 records of one code, a record that asks for a later version of itself, 2 changes of the user's own, several catalogues | `CurrentMeansNothingOwed`, `KnowledgeAgrees`, `KnowledgeListedOnce`, `SetupPaysDebts`, `FollowingNextEnds` |
| `party` | 2 rosters, all combinations of installed skills, central agents (two whose codes differ in case only) and personas | `WordsSummon`, `AgentsKeepTheirNames`, `RoomIsInstalled`, `SameRoom` |
| `session` | 3 catalogues, 2 hosts, 2 techniques, a log of 3 lines, 1 death | `TotalIsHonest`, `OverlayWins`, `UnreadableNeedsBoth`, `ResumeContinues`, `LogGrows` |
| `elicit` | 6 catalogues of 4 methods and up to 4 of the user's, menus of 3 | `RunsWhatWasChosen`, `ReshuffleSpreads` |
| `stray_pull` | one backlog | section 5 |

Why the bounds are enough. A race of the analyzer needs two threads in a window
and a third to observe the damage, so three requests; the clock needs a value
inside and one outside the window, and a caller's time stamp lies ahead of both, so that it
prunes for those behind it and is itself met by earlier ones. A sink or a consumer that throws needs one
before and one behind it. A resolution goes wrong with a change between its two
reads, and the exception in `OptionsWereInForce` needs a second change. A second
pass of the pipeline shows all that a repetition can do to state of the first;
three callbacks are one before the middleware's, its own and one after. Two
requests suffice for the endpoint, where they meet in the counters only. Two
policies suffice for a property of pairs of policies; the eight spellings contain
nested prefixes, equal lengths, two cases, a missing slash and blanks.

A ticket's answer depends on its own files, its prerequisites and its epic's gate, so
two epics of two entries contain every way two tickets can depend on each other,
in and across epics; a race needs a command that holds a file open and one that
reads. A setup can be overtaken between any two of its steps by an edit, a render or
another setup: three of them are one overtaken and two to overtake it. An installation
needs a hub, a module of two skills, a rival record before and behind the module's
own in the order of names. The third claim of an alias, which comes after the index
lost it, needs three people. A log is lost by two commands and one death; three
lines are a technique logged, repeated and one more. A draw over two categories, one of
which runs out, is what `MenuSize` of three gives.

For every safety property that is proved the theorem removes the bound altogether.
`SYMMETRY` is used where actors are interchangeable and no liveness is checked.

Deadlock is checked in the five runs of the library, which end in explicit stuttering
(`AllReturned`, `AllEnded`, `Finished`) only where every call has returned. The runs of
the tools switch it off: a command that has ended and a bound that is used up are
legitimate ends, and nothing in them waits for anything. What could stop for ever is
stated as a property instead (`SomethingToDo`, `FollowingNextEnds`).

**Fairness.** Three runs assume some.

- `pentest`: weak fairness of each started request's own steps: a thread that is running
  and not waiting goes on. The analyzer waits for nothing. A request that has not begun
  need never begin, and the clock need not advance. Since one request's loop may be
  prolonged by another's enqueue, `EveryCallReturns` needs that `Dequeue` makes progress or
  the head is gone.
- `reports`: weak fairness of a request that has handed its report to all sinks, and
  of the dispatcher's loop while it is on a thread, which includes that the
  synchronous part of a sink's `WriteAsync` returns. Of the tasks the sinks return
  nothing is assumed: `TelemetryNeverHolds` is about sinks that never complete
  them. `EventsReachEverySink` has the assumption that they do as its premise.
- `install`: weak fairness of `Follow`, that is of a user who keeps running the command
  `next` prints, which is what the command is for. `FollowingNextEnds` asks whether that
  user is ever done; it promises nothing to one who does not follow.

What the properties say, in the code's terms, is in the comment before each.

## 4 Proofs

All theorems are for every value of the constants: any number of requests,
sources, calls, sinks, consumers, tenants, policies, passes, callbacks, people, any
options, any ticket tree, any words, any number of agents, hosts, setups, renders and installed
folders. They assume only the named assumptions of each module, which TLC evaluates on
every instance:

- types of the constants: `ConstantsAssumption`, `AnalysisAssumption`, `CountsAssumption`,
  `TreesAreTyped`, `MarksAreStatuses`, `StartsAreTrees`, `InstallAssumption` (what a parser
  lets through, on the folders the behaviour starts from and on what sources serve),
  `WorldsAreTyped` (rosters, tables and groups are of codes, names and skills), and
  `WordsAssumption`: the lower case of a word in lower case is the word;
- of the catalogues: `CatalogsAreTyped`, `DigitsAreNumbers`, `MenuSizeNat`, `CategoriesAssumption`
  (the page has each of its categories in one place), `MainModeIsOne`, and `CatalogsAssumption`: no
  two techniques brain.py is *shipped* with have one name in any case, which is so of all 108 rows
  of `brain-methods.csv`; of the overlay nothing is assumed;
- values that stand for "none" are none of the others: `NothingIsNone`, `NothingIsNoFile`,
  `NoFileIsNone`, `PagesAssumption`; ids, names, items and references of several kinds are
  told apart: `IdsAreNotNames` (an id is digits and dots, a file name is not),
  `KindsOfItems`, `KindsOfReferences`; a leaf's name is a possible plan name,
  `NamesArePlanNames`;
- finitely many requests, calls, callers, epics, ids and plan names (`CountsAssumption`,
  `CallsAssumption`, `CallersFinite`, `FoldersAreFinite`, `NamesArePlanNames`) where
  something is counted, and a greatest number of techniques of a session (`MaxTechsNat`);
- `PipelineAssumption`: no policy is report-only without a CSP, which `ResolvedIsSound` shows
  of every host that starts; `PathAssumption`: ignoring case keeps the length of a text and a
  path starts with at most one folded text of each length.

Two theorems of `TicketTree` have a premise besides, `PrerequisitesNamed`: what the entries
wait for can be written back. It is what `stray_pull` (section 5) violates, where the
properties are indeed false; it concerns `breakdown`, which no command writes, so it is a
premise on the tree a behaviour starts from.

| Theorem | Property | By |
|---|---|---|
| `TypeCorrect`, `AnalysisTypeCorrect`, `PipelineTypeCorrect`, `ConfigurationTypeCorrect`, `ReportsTypeCorrect`, `TreesStayTyped`, `TreesAndPlansAreTyped`, `InstallTypeCorrect`, `PartyTypeCorrect` | `TypeOK` of each module (`ConfigTypeOK` of `PathPolicies`, `ReportTypeOK` of `CspReports`) | |
| `PruningIsSafe` | `PrunesOnlyExpired` | `PruneInv` |
| `BurstCountsTheWindow` | `BurstCountExact` | `KeepInv`, which rests on `PrunesOnlyExpired`; `BurstInv` |
| `CooldownHolds`, `SuppressionIsJustified`, `CooldownMovesForward` | `NotificationsSpaced`, `SuppressedOnlyAfterDelivery`, `CooldownNeverRewound` | `SendInv` |
| `AnalyzerImplementsLedger` | `LedgerSpec` | `SendInv`, step by step |
| `ScoreBounded`, `TravellersAtMostMonitored`, `EvidenceNeverHelps` | the scoring properties, for all options | arithmetic |
| `NoSinkIsMuted`, `ActionsCoverFindings`, `SentIsBacked` | `SinksIsolated`, `ActionCoversFindings`, `SentMeansAllConsumers` | `AnalysisInv` |
| `ResolvedOptionsWereInForce` | `OptionsWereInForce` | `ResolutionFollowed` |
| `CountersAddUp` | `CountersReconcile` of `FraudAnalysis` | `CountsInv`; cardinalities |
| `ScriptsAreAuthorized`, `RemovalIsEffective`, `PreviewIsAccurate`, `TelemetryIsHonest` | `ScriptsAuthorized`, `RemovalHolds`, `PreviewIsSent`, `TelemetryNeverOverstates` | `NonceInv`, `RemovalInv`, `PreviewInv`, `TelemetryInv` |
| `LongestWins`, `ResolutionIsUnique`, `OnlySoundOptionsServe`, `PoliciesAreIndependent` | the four properties of `policies` | `ConfigInv` |
| `AnswersTellTheTruth`, `CountersAreExact` | `AnswersAreTrue`, `CountersReconcile` of `CspReports` | `ReportInv`; cardinalities |
| `NextNeverRunsDry` | `SomethingToDo` | no induction: holds of every tree (`NextOffers`) |
| `RowsLeadBack` | `RowRefFinds` | no induction beyond types |
| `ChainsAreLongest` | `ChainIsLongest` | types; induction over what is ahead (`ChainsSolve`, `NoneIsLonger`) |
| `CommandsKnowTheirFiles`, `OnlyTheMarkedTicketChanges` | `TreeInv`, `OnlyTheMarkedChange` | `TreeInv` |
| `CommandsKnowTheTree`, `OnlyTornReadsBreakTrees`, `PullsKeepAnswers` | `CommandsInv`, `OnlyTornReadsBreak`, `PullKeepsAnswer` | `CommandsInv`, with the premise `PrerequisitesNamed` |
| `GenerationsAreWhole`, `NamesTellTextsApart` | `GenerationsWhole`, `NamesTellApart` | `WritesAreThere`; `NameDecidesText` |
| `SwapInvariant`, `SwapsKeepEverything`, `SetupsConverge` | `SwapInv`, `SwapKeeps`, `SetupConverges` | `FoldersOfSetups`, `SwapInv` |
| `ReadersAgree`, `CurrentIsCurrent`, `PagesListedOnce`, `SetupPaysWhatIsOwed` | `KnowledgeAgrees`, `CurrentMeansNothingOwed`, `KnowledgeListedOnce`, `SetupPaysDebts` | types; facts of every typed installation |
| `RoomsAreInstalled` | `RoomIsInstalled` | `RoomInv` |
| `AgentsKeepNames` | `AgentsKeepTheirNames` | `History`: `Progress`, `IndexMeans`, `Told`, `AgentsNamed` |
| `FullCodesSummon` | `WordsSummon` | `Summons`: `Owners`, `OwnedWords`, `FullCodes` |
| `RoomsAgree` | `SameRoom` | `History`, `Covered`; a least difference (`SameHistory`) |
| `LogUnreadableNeedsBoth`, `LogOnlyGrows` | `UnreadableNeedsBoth`, `LogGrows` | `Inv` of `BrainSessionProofs`: `TypeInv`, `Unkilled`, `Alone` |
| `ResumedSessionContinues` | `ResumeContinues` | `Inv`, `Hosts`, `Orderly` |
| `PageTotalIsHonest`, `OverlayRetunes` | `TotalIsHonest`, `OverlayWins` | `PageIs`: `CatalogIs`, `Counted`; cardinalities |
| `ChosenRuns`, `ReshufflesSpread` | `RunsWhatWasChosen`, `ReshuffleSpreads` | `RanIs`; `DrawIs` |

Some of these properties no run checks any more: where a theorem settles one for all
values, the small instance adds nothing, and the runs are spent on what is not proved.

Why the properties are not inductive as they stand, and what is added:

- `PrunesOnlyExpired`: another thread may dequeue the head between a request's
  peek and its dequeue. `PruneRaceMarked`: two requests there at once have been
  marked, so in an unmarked source nobody else can.
- `NotificationsSpaced`: says nothing of a request between look-up and store.
  `SendAllowed`: without a race the entry that allowed it is still the entry;
  `EntryLatest`: that entry is the latest recorded time; `ClockOrder`: a request
  stores no time before the one it decided by. `EntryBacked`: an entry belongs to
  a recorded request, which is what a suppression points at. `SendRaceMarked` and
  `ResultsInOrder` tie the local results to where the request is.
- `BurstCountExact`: speaks of a request that has counted. Its first part holds of overlapping
  requests and of timestamps in any order. `KeepInv`: each time stamp in the queue is that of a
  request of its own, and a request that is missing has left the window of one that entered
  (`QueueKeeps`), for what a request discards has left its own window (`PrunesOnlyExpired`); those
  nobody's window has passed thus have a place each. The second part needs `BurstInv`, for a source whose
  requests have not overlapped: one request is inside (`OneInside`), its own time stamp is
  the last of the queue (`OwnStampLast`), and the queue holds the stamps of distinct
  requests that entered, each of which is either there or out of the window of one that is
  (`QueueTraced`). What is counted is then a set in bijection with the queue.
- `OptionsWereInForce`: `ResolutionFollowed` says during the two reads that the pair the next
  read can return was in force, as long as only one of the sources has changed.
- `CountersReconcile` of `FraudAnalysis`: says nothing while a call runs. `CountsInv` has the
  exact value of each counter in the middle of a dispatch.
- `SinksIsolated`, `SentMeansAllConsumers`: speak of returned calls only.
  `SinksInTurn` and `EmailedAfterAll` carry the progress of the two loops,
  `OptionsResolved` and `ReportMade` what a call has by when.
- `ScriptsAuthorized`: the nonce of an abandoned pass stays in `Items`. `NonceInv`:
  between passes an uncleared response holds nothing of the library, and then
  the headers carry the nonce in `Items`, which is all that is rendered.
- `RemovalHolds`: `RemovalInv` fixes where the middleware's callback stands in the
  order, and that from when it has run only earlier callbacks add names.
- `PreviewIsSent` and `TelemetryNeverOverstates`: the same for headers and events of
  the running pass; a custom policy that throws leaves headers without an event,
  so the response it left must be cleared.
- `ResolutionUnique` needs `Valid` (no two policies with the same prefix up to case
  and slash), which is lost as soon as the options can change: `ConfigInv` says
  they are valid while the host runs. `PoliciesIndependent` needs `NothingShared`:
  no two options objects hold the same collection. That a longest match exists
  (`LeastExists`) is the well-foundedness of the naturals.
- `AnswersAreTrue` needs `Progress`: how far through the sinks a request is, and that
  it has no answer before its end. `CountersReconcile` of `CspReports` is then
  proved with the library's facts on finite sets: an acknowledgement adds one
  element to the acknowledged requests, a failed sink one pair to the failures,
  and that pair is new because results are only appended.

- `SomethingToDo` is a fact about every tree. Were nothing offered, each unfinished ticket
  would have an unfinished prerequisite or gate (`BlockedWaits`), and each open epic an
  unfinished member or gate (`OpenEpicWaits`); the unfinished would be a set every member
  of which has a successor in it, which is exactly what `Cyclic` finds and `load_tree`
  refuses. That the check counts gates with prerequisites is what makes it true.
- `ChainIsLongest`: where the cycle check finds none, of any remaining tickets one has none of
  the others ahead (`AheadIsGrounded`). That is all an induction needs: the recursion of
  `status` has a solution (`RecursionSolved`, by uniting partial ones, which agree), what it
  gives for a ticket is a chain to it (`ChainsAreChains`), and no chain to it is longer
  (`NoneIsLonger`). A first with nothing remaining ahead is offered, or waits for what
  nobody counts among the remaining (`FirstCanMove`).
- `OnlyTheMarkedChange`: a command relies at its write on what it read before. `TreeInv` says
  what of it no other command can take away without a lock: a tree that was loaded
  has each id on one leaf file (`LeavesOnce`); a pull overwrites only what pulls have put
  there, under a name no plan goes by (`PullSlot`); the text of a mark joins its ticket and
  no other (`MarkJoins`); and whoever else holds the plan file writes the same ticket's
  plan, which exclusive creation is needed for (`PlanSlot`).
- `OnlyTornReadsBreak`, `PullKeepsAnswer`: `CommandsInv` adds what the files say: what a pull
  writes, and what another pull put in its place, is what the entries say, and nothing refers
  to it by its name (`PullFaithful`); a mark's plan is the only one of its ticket as long as
  no command has read past a file that lay empty (`MarkOwns`).
- `GenerationsWhole`: a render that is writing finds its staging folder as it left it
  (`WritesAreThere`). `NamesTellApart`: the text is a function of the name (`NameDecidesText`).
- `SwapKeeps`, `SetupConverges`: `OneFullTree`, of the tree in place and those moved away at
  most one holds anything not overtaken; `CopiesAreCurrent`, a copy has all of it;
  `PlansAreCurrent` and `PlansAreComplete`, a planned user file has every answer there was and
  every answer that is asked; `NoneStillOpen`, so nothing is left to do after it is staged.
- The properties of `install` are facts about every typed installation, however it came about:
  each code has one winning record (`OneWinnerPerCode`), both programs collect what a skill
  requires from the same records, and each page is recorded once.
- `RoomIsInstalled` speaks of a room that is complete. `RoomInv`: each code is one member's, and
  from when the agents are read the room holds the installed members and no absent one.
- `AgentsKeepTheirNames` speaks of the forge when it is done. `Progress`: what is registered and
  what is queued are the list that was loaded; `Told`: the i-th registration is of the i-th
  person of that list, a persona of whom its word meant then; `IndexMeans`: a word leads to a
  registered code whose word it is. So whoever has an agent's name has it by its code, its alias
  or an earlier agent's name (`AgentsNamed`).
- `WordsSummon`: an alias has an owner exactly when one person in the pool has it (`Owners`), and
  a word leads to one whose code or name it is, or who owns it as an alias (`OwnedWords`).
- `SameRoom` compares two programs that run in any order. Were their registrations different,
  take the first that differs (`SameHistory`): it is of the same person, whose code is a word
  of both of the codes it got (`Told`), which are thus one, and so are the names. The pools are
  what was registered last of each code (`Pooled`); and that a word seats nobody in one of the
  programs needs that all words of a person are in its index, but for a shared alias (`Covered`).
- `UnreadableNeedsBoth`, `LogGrows`: `TypeInv` says which files exist and that a command
  knows the one it opened; `Unkilled`, that while nobody died an empty file with a name
  is about to be written; `Alone`, that while no two commands overlapped the only one
  running owns the temporary file and holds a text that extends the log it read. A
  session touches the log only by `LogStep`, so the three steps `OpenStep`, `WriteStep`,
  `ReplaceStep` and the beginnings and ends of commands are all there is to prove.
- `ResumeContinues` compares a resumed record with the host's own batch, which says nothing
  of the steps between. `Hosts`: nothing is logged while a host composes. `Orderly`: while
  no host strayed and no commands overlapped, at most one host is at work, and the log, with
  the text on its way to it, is a prefix of that host's batch as long as its count says.
- `TotalIsHonest` compares the total shown since the last click with prompts not yet made. `Counted`:
  the page shows the sum of what it holds, and asks for no more random techniques than its pool
  has (`Clamped`), after every click and every reload (`UpdatedCounts`). The names of a prompt are
  then all different (`PromptCounts`): of the boxes, only the first of each name counts; the pool has
  home cards of other names; and home cards of one name are one card, because the merge keeps the
  names of the shipped rows apart (`MergedApart`) and every row has one place on the page (`HomePlaces`).
- `OverlayWins` is a fact of the merged catalogue (`CatalogIs`): its last row of a name is there
  (`OverlayIsThere`), and nothing else of that name.
- `RunsWhatWasChosen`: what ran is what the lookup found for something shown (`RanIs`). The merge keeps
  the names apart and numbers only what has none, above all numbers there are, so that each shown
  name or number is one row's (`RowsAre`, `FindIs`).
- `ReshuffleSpreads` does not say where in a round the draw is. `DrawIs`: the categories are at one
  of two levels, those whose turn is to come in round r have given r - 1 and the others r, except
  that one without methods may have given less (`Level`); a round that ends moves the level up
  (`NextRound`).

What proving changed in the models. The merges, the page and the draws were folds and filters of
the community modules, which take an operator as a parameter: the library's facts about those cannot
be instantiated. They are now functions on the places of a list, like the selections of `PartyRoster`
(`Kept`); nothing about what they return changed. Six steps of a proof failed for a reason, which TLC then
showed on an instance: `OnlyTornReadsBreak` also needs that nobody reads a file left empty by a
command that died, not only one that is open (`torn`, `Hollow`); a setup that puts a tree back
overtakes one that has planned on what lay there meanwhile (`MoveBack`); `Status` must not
join a plan and a leaf in either order; `status` passes over a record that asks for a
later version of its own folder while `setup_check.py` tells its members (`OwnDemands`,
section 5); a code loses its word to one that differs in case only (`WordsSummon`); and an
alias that only one program strips seats somebody in one of them (`AliasOfOne`). A word that
the index does not have seats nobody, even where it is a code (`Seated`).

Only model-checked, and why. `EveryCallReturns`, `TelemetryNeverHolds`,
`EventsReachEverySink` and `FollowingNextEnds` are liveness under fairness, out of the
prover's reach. Every safety and action property that a passing run checks is a theorem.

## 5 Where code and documentation disagree

A run that TLC refutes, quoted in `PROJECT.json`:

- `stray_pull`: an entry may wait for a leaf file that has no id. `pull` writes that file's
  key, `epic-a/y`, into the new file's `after` (`tickets.py` lines 552 and 855); no later
  command resolves it, so all refuse the tree until somebody edits the file.

Read off the models' behaviours, without a run of their own. In the library:

- The notification cooldown is no minimum interval: two detections at once both notify
  (`PenTestSignalAnalyzer.cs` line 206; `PenTestDetectionOptions.cs` line 97 says
  "Minimum interval between notifications for the same source key.").
- An authorized bypass returns a report no sink receives
  (`GeoCulturalConsistencyDetector.cs` line 121; `IFraudEventSink.cs` line 11).
- A tenant's override cannot switch the detector class, which the first resolution has
  fixed (`FraudDetectionServiceCollectionExtensions.cs` line 190;
  `IFraudDetectionConfigurationStore.cs` line 11).
- A status-code page that re-executes the pipeline sends two policies with two nonces
  (`NetSecureHeadersMiddleware.cs` line 188; its line 13 says "per-request").
- An invalid report whose JSON root is an array or a scalar is answered with 500, not
  with 400 (`CspReportMiddleware.cs` line 121; `docs/advanced-configuration.md` line 306).

In the tools:

- `setup.py` writes the user's answers as it planned them before it copied the folder (line
  1784), over what another setup answered in between;
  `.agents/skills/bmad/references/setup.md` line 42 says "It never changes a value already in
  any config file". Killed between its two renames (lines 1753 and 1755) it leaves the
  folder in the backup only, and the next setup starts from an empty one.
- A record may list its own folder under `required_skills` with a later version than it has.
  `status` skips what a folder asks of itself (`setup.py` line 588) and calls the installation
  current; `setup_check.py` skips only what a skill asks of *itself* (line 60), and tells each
  other member of the module that the record's skill is outdated. Hence `OwnDemands` in
  `CurrentMeansNothingOwed`.
- Two codes that differ in case only, `pm` and then `PM`: `resolve_party.py` line 159 lets the
  second take the entry of the first in its index, so that the word `pm` summons the other
  one, though its line 160 says "the full code still works"; hence the last exception in
  `WordsSummon`.
- The two programs strip a code differently. `bmad-cis-agent-storyteller` is `storyteller` to party
  mode, which splits at `-agent-` (`resolve_party.py` line 125), and `cis-agent-storyteller` to the
  forge (`resolve_personas.py` line 189), so that a group's member `storyteller` is in the room of
  one only, though `resolve_personas.py` line 25 says "so both skills see the same room"; hence
  `AliasOfOne` in `SameRoom`.
- A row of a ticket with an id whose epic is not listed in the initiative's breakdown carries, on
  the initiative, its file name (`row_ref`, line 593), or nothing when it has no file, and a
  namesake in another epic makes it ambiguous, though `tickets.py` lines 49-50 promise a reference
  that `find` resolves; hence the premise of `RowRefFinds`.
- An extra method with a number of its own takes the number of a shipped one in
  `pick_methods.py`'s lookup, though line 29 says extras "get the next free nums"; hence
  the premise of `RunsWhatWasChosen`.
- A record that names `help/help.md` in `knowledge` passes setup and is reported by
  `knowledge.py` (line 295) as naming it twice; hence the exception in `KnowledgeListedOnce`.
- `memlog.py` line 27 says there is "No lifecycle status", and the brainstorming skill sets
  one in its frontmatter. Its temporary file makes each command atomic against
  crashes (lines 35-36), not against a second command: `LogGrows` and
  `UnreadableNeedsBoth` state what is left.

Also observed: in the race that `PrunesOnlyExpired` excludes, a
live timestamp is lost and a window with the threshold number of requests
raises no burst signal, which
`SafeWebCore.FraudDetection/Options/PenTestDetectionOptions.cs` line 68 promises. A
path policy clones the global options when it is declared, so what is set
globally afterwards does not reach it
(`SafeWebCore/Options/NetSecureHeadersOptionsExtensions.cs` line 20 says unspecified
values inherit). The remarks of `ApplyPreset`
(`SafeWebCore/Options/NetSecureHeadersOptions.cs` lines 177-178) say collections
are assigned by reference, and the code copies them, which `PoliciesIndependent`
relies on. `ApplyPreset` after path policies were declared drops them.
`ApplyEnvironmentRolloutDefaults` makes a development host report-only before the
application's callback may switch the CSP off, a combination validation
refuses, so that such a host starts in production only. A prefix with a
trailing slash matches only paths that have the empty segment too. The
middleware sees endpoint metadata only behind `UseRouting`, which one example of
`docs/advanced-configuration.md` has the other way round.

## 6 What is not modelled

- Text: CSP syntax, header formatting, regular expressions, e-mail bodies, log
  lines. Builders and presets are string building without state.
- Trigger lists of reports (append-only copies of the signals), the legacy flags
  of `FraudReport` (they repeat the verdict).
- Of `NetSecureHeadersOptionsValidator`, the checks of URLs, NEL values and
  report-to groups. The model validates what the middleware relies on:
  duplicates, blank prefixes, report-only without CSP, headers that would
  overwrite one of the library's.
- Headers a proxy or the web server adds after the pipeline, Kestrel's own `Server` among them,
  which comes after `OnStarting`. What other components write or add back in `HeaderPipeline`
  are the host names (`HostNames`): another middleware that writes a header the library
  owns, too, is not modelled.
- The preview leaves out custom policies, as the code does; `PreviewIsSent` is
  about policies without.
- The Roslyn analyzers and the testing package: one compilation or one response
  at a time, no state.
- `SafeWebCore.JwtBearer`: the guard, the logging manager and the hardening rules assign
  settings of a library and wait for its metadata requests; what they promise is
  decided by how that library treats a token, a refresh interval or a setting.
- Of the tools: `lint_spine.py`, `git_evidence.py`, `recon_kit.py`, `word_metrics.py` and
  `list_customizable_skills.py`, one pass of regular expressions over texts or over git's
  output each; `resolve_config.py`, `resolve_customization.py` and `read_toml.py`, which
  print one value of a merge that is modelled; the copies of the scripts under
  `.agents/skills/`, byte for byte those under `_bmad/`.
- In `TicketTree`: texts, sizes and review fields of entries, initiatives other than the
  one a command runs in, and tracker ids: no leaf or epic file has one, so the form of a
  reference that is tried last in `_resolve` (`tickets.py` line 448) and in `resolve_ticket`
  (line 799) is never found.
- In `BmadRuntime`: symbolic links, templates in questions, the classic installer's files. The
  copy of the folder, what is placed in it and the removal of the backup are one step each,
  where `setup.py` (lines 1753 to 1790) goes file by file; so a setup that dies half-way leaves its
  staging folder as a whole, which nothing reads, and an edit falls before or after the
  copy, not into it. Of the configuration's layers there are the team's, and the user's custom one.
- In `BmadInstall`: what npx does beyond copying a folder. `SetupOwed` has one flag, `shared`, for
  everything outside the modules that `setup.py` (lines 1249 to 1258) finds missing or stale: the
  shared scripts, the team's configuration, the custom and output folders and the gitignore
  file, all of which the next setup writes. `knowledge.py` is given one root (line 120: of several,
  the first wins a folder's name), and the configuration `setup_check.py` reads parses (line 95).
- In `PartyRoster`: the resolver of customizations answers (`Customs`). When it fails, both
  programs read the skill's own `customize.toml` alone (`resolve_party.py` line 112,
  `resolve_personas.py` line 162). A central configuration that is missing is an empty one.
- In `Memlog`: a command killed in its write has written all or nothing (`Write`). The file is the
  temporary one, which nothing reads; a part of a text gets to the log only by another
  command's rename, that is with an overlap and a death, which the properties leave out.
- In `BrainSession`: `ResumeContinues` is about a host that dies and one that resumes from the
  log. A host that repeats a command whose answer it did not see logs the technique
  twice, for `append` is not idempotent (`memlog.py` line 169); `strayed` leaves it out.
- Of the hazards `PROJECT.json` lists, three have no property: the token guard disposed without
  being stopped (the library's timing decides it), the setup killed between its two
  renames, and the user's answers written as planned. In the last two the code does lose what
  it holds (section 5), so that there is nothing to state.
- Memory: entries of the two dictionaries are never removed; the model does not
  bound them and no promise of the code does.

## 7 Plan

1. The remaining texts of tickets: sizes and review fields, and the tracker's mirror.
2. `JwtGuard`, with a metadata request that may or may not observe its token.
