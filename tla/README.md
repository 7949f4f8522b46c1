# A TLA+ development of Ledger Daemon

Ledger Daemon compares a merchant's orders, gateway captures and bank credits, gives each order
a verdict, and lets a policy gate decide whether the customer may be chased. What it cannot
prove goes to a person. The program is Python over SQLite; the source is
`src/ledger_daemon/*.py`, and every file name below is one of its files.

This directory holds the modules that model the program's control, the TLC configurations that
check them on small instances, and theorems that TLAPS proves for every value of the constants.

1. [The system](#1-the-system): its parts, their state and what is hard
2. [The modules](#2-the-modules): how states and actions correspond to code
3. [The runs](#3-the-runs): what each checks, with which bounds
4. [Fairness and liveness](#4-fairness-and-liveness)
5. [The proofs](#5-the-proofs)
6. [What the code does otherwise than it says](#6-what-the-code-does-otherwise-than-it-says)
7. [What is not modelled](#7-what-is-not-modelled)
8. [The plan](#8-the-plan)

## 1. The system

| Part | State | Operations | Used by |
| --- | --- | --- | --- |
| Case store, `cases.py` | tables `cases` and `case_events` of one SQLite file | `open_case`, `transition`, `advance`, `path_to`, `events`, `AuthenticatedCaseEvents.verify`, `open_exception_cases` | workbench, MCP server, judge, rule compiler |
| Drift authority, `authority.py` | an `AuthorityController` in memory (rung, two counters, anchor, history) and the audit table | `apply`, `audit_authority` | reconciliation states the rung in every match |
| Policy gate, `policy.py` | none | `evaluate`: R0..R7, the risk gate, default deny | MCP server, demo, judge, workbench |
| Executor, `executor.py` | table `audit`, draft files, an adapter | `execute`, `audit_write`, `attempts` | MCP server, demo, judge |
| Tool server, `mcp_server.py` | the loaded batch, the proposals, both databases | `reconcile`, `propose_recovery`, `approve`, `cases`, `case_transition` | an MCP client |
| Workbench, `ui.py` | two dicts shared by request threads, both databases | `GET /app`, `POST /resolve`, sign-off | a browser |
| Learned rules, `rules.py`, `replay.py` | analysts and used capabilities, rule versions, replay corpora, typed evidence, all in SQLite | `bootstrap`, `issue`, `verify`; `compile_resolution`, `add`, `record_replay`, `approve`, `activate`, `validate_activation` | `rule_demo.py`, the workbench's `resolve_case` |
| Reconciliation, `recon.py` | the settlements joined, the credits they consumed, the assignment, the verdicts | `reconcile`: three exact passes, the scored pass, `_resolve`; abstention | every command |
| Scoring, `fs.py`, `similarity.py`, `conformal.py`, `risk_control.py` | calibration tables | likelihood scores, thresholds on rupee risk | reconciliation |
| Drift monitor, `drift.py` | the rows of a calibration batch | `observations` of a batch, `observe`: five signals, each graded against its thresholds | authority |
| Proof bundle, `certificates.py`, `identities.py`, `verifier.py`, `proof_tree.py` | a file per certificate and a manifest; the proofs of the finance identities | issue, write, load, verify | demo, workbench, `verify-proof` |
| Ingest, `ingest.py`, `source_contracts.py`, `quarantine.py`, `parsers.py` | four batch files, a manifest of them, a receipt, the quarantine journal | paged fetch, coverage of the refunds, mapping, validation, journal; import of a statement | the CLI |
| Sign-off and panels, `signoff.py`, `panels.py` | none that outlives a call | summaries of proofs, cases, authority and risk; blockers and caveats | workbench |
| Readers, judge, data generator | none that outlives a call | text, evaluation, test data | the CLI |

How they interact. A reconciliation gives verdicts; `policy.evaluate` reads a verdict, the drift
authority in force, counts from the audit table and a proposal's confidence; the executor
performs what was allowed and records it. Orders the gate holds become cases. Cases are moved by
browser tabs (through the workbench's threads) and by MCP clients (another process) over one
SQLite file; a resolved case may be compiled into a rule, on the evidence of a verified history.
Servers and the demo command share `ledger.sqlite3` and the directory of the batch. A batch
comes from the generator, or from `ingest`, which fetches it from a provider. Runs write the
bundle of certificates; the workbench reads them, file by file, verifies some, and tells the
controller whether to sign.

What is hard about it, by part, and what would make it correct:

- *Case store.* Callers act on rows they read earlier. No update is lost, history is
  append-only, the table is a projection of the log, terminal states are final, a one-click
  route never records an escalation nobody decided.
- *Case evidence.* The reader uses two SELECTs outside a transaction. A torn snapshot must never
  verify.
- *Authority.* Any mixture of windows. Rungs follow the run of severe windows, authority goes
  only by a pattern and comes back only by a refit.
- *Gate.* Nine rules in an order. An ALLOW is earned by all of them at once, and nothing that
  happens under pressure turns a refusal into an ALLOW.
- *Executor and its callers.* The action is outside the database, its row inside; callers race,
  die and repeat; the evidence changes between proposal and approval. Rows stand for actions,
  one caller is first, policy is not bypassed.
- *Workbench.* Two databases and two dicts, four steps apart, several threads, kills. No order
  is released on an answer that would not survive the server.
- *Rules.* Every human step is verified on one connection and committed on another, with clocks
  and other callers in between. Capabilities are used once, while they are valid, and for a step
  that happened; a rule is active only after replay and approval; a bootstrap is done once.
- *Proof bundle and sign-off.* Files are replaced one at a time while servers read them, and any
  process may die half-way, with its cases half opened. A bundle is issued as a whole or not;
  nothing is signed over a proof that is missing or does not verify; money held is named.
- *Ingest.* Pages are read by offset from collections that grow, and cut at a limit; several
  files, a journal and a manifest are written one by one. A refund is never lost while its
  payment is kept; a row is in a file or in the journal; a run that died leaves nothing that
  another takes for its own.
- *Drift monitor.* Integer statistics with ties, compared at thresholds. A feed that did not
  change keeps its authority, one that has nothing in common with the calibration batch loses
  it.
- *Reconciliation.* Several passes over one list of credits, and a global optimum found
  component by component. A credit proves one order, or the orders of one payout; ties and
  oversized components abstain; an order is called unpaid only if nothing can have paid it.
- *Certificates.* Matcher, issuer and verifier read one batch in three ways. What the matcher
  decides, the verifier should accept.

`PROJECT.json` lists every hazard at its line with the properties that guard it.

## 2. The modules

| Module | Models | Extends |
| --- | --- | --- |
| `CaseStore` | the case graph, the two tables, `open_case` and `advance` as transactions | |
| `CaseHistory` | abstract: one linear, append-only history per case | |
| `Cases` | analysts with rows they once read, and the pipeline, on the store | `CaseStore`, instance of `CaseHistory` |
| `CaseSnapshots` | `events` and `AuthenticatedCaseEvents.verify`, SELECT by SELECT, against writers | `CaseStore` |
| `Workbench` | `ui.py`'s server: tabs, threads, dicts, two databases, MCP, kills | `CaseStore` |
| `AuthorityLadder` | `AuthorityController.apply` and its audit row | |
| `DriftMonitor` | `drift.py`: observations, five signals and their grades, as operators | |
| `DriftLadder` | the ladder fed with the monitor's reports of live batches | `AuthorityLadder`, `DriftMonitor` |
| `Policy` | `policy.evaluate` as operators | |
| `PolicyGate` | the gate's inputs moving under one order | `Policy` |
| `Recovery` | `Executor.execute`, the MCP service, the demo command | `Policy` |
| `ReplayGate` | `replay_rule` as operators | |
| `RuleHistory` | abstract: the statuses of a rule, a capability spent for each human step | |
| `RuleLifecycle` | the registry, capabilities, `resolve_case` under one, and the rule store | `ReplayGate`, instance of `RuleHistory` |
| `Matching` | `reconcile`: the passes, the assignment and the verdicts of one batch | |
| `Certificates` | what a certificate of each verdict binds, and what the verifier recomputes | `Matching` |
| `Identities` | the accounting identities: their issuer, and the verifier of their proofs | `Positions` |
| `Positions` | parts of a sequence by their positions: list comprehensions with a condition | |
| `SourceContracts` | `validate_rows` and the quarantine journal, as operators | `Positions` |
| `Ingest` | `ingest` and `import` over one directory, a provider that grows, kills | `SourceContracts` |
| `BundleRegister` | abstract: a bundle is issued as a whole, and may be torn later | |
| `ProofBundle` | the bundle on disk: its writer, file by file, and what verifies | |
| `Signoff` | `decide_signoff` and the summaries it reads, as operators | |
| `BatchClose` | runs, servers, `verify-proof`, cases and the sign-off around one bundle | `ProofBundle`, instance of `Signoff` and of `BundleRegister` |
| `CasesProofs` | theorems about `CaseStore`, `Cases`, `CaseSnapshots`, `Workbench` | those, `TLAPS` |
| `AuthorityProofs` | theorems about `AuthorityLadder`, `DriftLadder` and `PolicyGate` | those, `TLAPS` |
| `RecoveryProofs`, `RuleLifecycleProofs`, `BatchCloseProofs`, `IngestProofs` | theorems about the module of that name | that module, `TLAPS` |
| `MatchingProofs` | theorems about `Matching`, `Certificates` and `Identities` | those, `TLAPS` |
| `CollectionTheorems` | lemmas about sums over sets, sequences and positions, which the proofs share | `Positions`, `TLAPS` |
| `MC*` | instances for TLC | |

**Cases.** `cases[c]` and `events[c]` are the rows of the two tables; a case id is the pair
(subject, reason), since the code hashes that pair. `open_case` and `advance` run in `BEGIN
IMMEDIATE` transactions, so each is one step; `transition` is `advance` along a path of one hop.
`AdvanceOutcome` gives the code's answers in the code's order: unknown case, version conflict,
empty path, illegal hop. `Routes` is the search of `path_to`, which does not pass through
ESCALATED. In `Cases`, `held[a][c]` is the row analyst `a` read last and is the only thing a
move may present. A refused call leaves the held row as it was.

**CaseSnapshots.** The reader's steps are the SELECTs: `ReadLog`, `ReadRow`, later `VerifyLog`,
`VerifyRow`; writers move the case between any two.

**Workbench.** `request[t]` is the program counter of the thread that serves tab `t`: posted,
walked (case advanced, one transaction), saved (answer in the audit table, another), published
(answer in the dict), then the case in the dict and the reply; a conflict reads the row again
and caches it. An `IllegalTransition` is not caught by the handler: the thread ends and the tab
gets no reply (`Dies`). `Restart` loads both dicts from the databases. Database transactions and
dict assignments are atomic; nothing else is. `HandlerStep(t)` is whatever the thread of `t`
does next, the step that is fair.

**AuthorityLadder.** One action per branch of `apply`. `Severity` is a constant, so a window is
any window of that severity, and it may be applied again. The calibration the caller runs with
is an input of each step. `audit` holds event ids with the fields the code hashes.

**DriftMonitor and DriftLadder.** A batch is its orders, captures, bank rows and verdicts;
`Observations` reduces it to one row per order on the probabilistic path. Medians, shares,
percentiles and total variation are the code's floor divisions on integers, and a signal's grade is
the first threshold it passes. `Ranked` picks from a list by counting what is below, where the code
sorts it; the run `AuthorityLadder` evaluates that the two agree (`RanksAreSorted`). `Observe`
refuses a window that is too small (NO_DATA) and takes the worst grade. `DriftLadder` makes the
severity of each window what the monitor says of its batch; its properties speak of the batches.

**Policy and PolicyGate.** A situation has the fields the rules read. Amounts are paise;
`ChaseAmount` keeps the code's falsy zero, `ExpectedValue` its floor division. The import-time
assertions on the disposition table hold by the form of `Disposition`. In `PolicyGate` one
order's inputs move: the next run under another authority, the bank feed, attempts, contacts, a
less confident proposal. `authority` is what the run was given (`ReconConfig.authority`),
`situation.authority` what its evidence says: the matcher writes it into fuzzy evidence only
(`UnderAuthority`), in three places.

**Recovery.** A caller is a tool server or the demo. Its action is gated, performed, recorded in
three steps; a kill falls between any two. `Perform` is the adapter's call or the draft's file,
`AdapterFails` an exception from it before or after the link exists. The server as shipped is
wired to the mock adapter; the live adapter, which can time out, has the same interface and is
what the failing step stands for. `audit_write` relies on the primary key: `Insert`. The MCP
server reads a batch once (`Evident`), gates with the rows it counts, and drops the batch when
another directory is reconciled; it reconciles without an authority, so R0 does not fire there.
The attempt number has its default, 1, at every call, so order and action name the row. `calls`
and `fresh` are history variables.

**ReplayGate and RuleLifecycle.** A call is at a step (`call[p]`): *verified* after the check
that `resolve_case`, the corpus import, `approve` and `activate` make on a connection of their
own, then its transaction, which checks and spends the capability again; *compiled* between
`compile_resolution` and the insert of `add`; *replayed* between the verification of a receipt
and the transaction of `record_replay`; *activated* between the commit of `activate` and the
read of the history its receipt covers. A process may be killed at each (`Fails`). A capability
is its fields; its signature is taken to be sound and its secret to stay in the database, so
`Valid` asks the registry in force. Issuing writes nothing and is part of `Present`. The
bootstrap is two steps, as `executescript` commits the transaction opened before it; the insert
is the one step the primary key decides. A rule's id covers the content of its case, which is
closed when it is compiled, so rule and case are one value; a case is moved, closed without a
capability, or resolved under one, with or without something to learn. `rules[r]` is the rows of
one rule, their versions their positions; the replay report and its receipt are the corpora they
cover.

**Matching.** One step per settlement joined, per component assigned and per order resolved, in
the code's order; the batch does not change. Orders, captures and bank rows are named by their
index, so "the first" and "the last" of the code's dicts are `Min` and `Max`. `hits[sid]` is
`settlement_hit`, with credit 0 for a settlement that no pass joined; `Consumed` is the set
`consumed`. A credit's narration is the settlement it names, if any, whether it is marked as a
settlement's (which keeps it out of pass 4), and the orders it may name (`named`, for the
verifier). Disputes are their amounts. Names and dates reach the matcher as the weight of a pair, an
input; P(match) grows with the weight, so the conformal threshold and the cost floor are weights
too (`MatchPoints`, `floor`). Fee and tax of a row are one amount. Days are on the calendar's
count, and `DayDelta` is what `_day_delta` makes of them: 366 days to a year (`YearEnd`) and 28
to every February (`LeapDay`). `Component` is given by its
definition, the orders in every closed set, and not by the code's union-find;
`ComponentAssignment` is the set of results the enumeration may return, for which optimum is
taken first matters only where orders are tied. `Resolve` is `_resolve`, branch by branch.

**Certificates.** `Claimed`, `TermSum`: the rows a certificate binds and the sum of its signed
terms. `AmountsAgree`, `RuleFits` and `EvidenceFits` are the verifier's checks in its order, on
every verdict of `Matching`; days are the calendar's, as the verifier uses `date`. Hashes,
identities and field types are taken as intact, since what is issued is verified at once.

**Identities.** A claim is a call of the issuer: the rows of the sources, the subject, and the
rows the caller picked, of the kinds that the parameters have (`IsClaim`). `Terms`, a sequence
with the terms of each event in turn (`OfCaptures` to `OfTax`), and `Holds` are
`verify_settlement_identity` and `verify_invoice_identity`; `ExpectedTerms` and
`IdentityVerifies` are `verify_identity_certificate`, which picks the rows again, among those the
certificate binds, by filters of its own. `Scenario` is the matrix the generator issues proofs of.

**SourceContracts and Ingest.** A row is its identifier and the set of its flaws: which check
fails on it. `CONTRACT` and `MAPPER_CHECKS` are the checks in the order of the code, since the
first to fail names the error. `FetchPage` takes the page at an offset of what the provider
holds at that moment; `Arrives` puts a new item in front, so rows shift into the next page.
`Cover` is `ensure_refund_coverage`. Mapper and `write_batch` each open a quarantine store of
their own on one journal (`OpenStore`, `SecondStore`); a store is the set of ids it has seen. A
file is opened empty and then filled (`WriteFile`, `FillFile`); manifest and receipt are
renames. A kill leaves a prefix of the lines, the last of them perhaps torn
(`KilledJournalling`), or a prefix of the rows (`KilledFilling`). Each item of disk carries the
run that wrote it (`by`), which is not in the files.

**ProofBundle, Signoff and BatchClose.** A certificate is its order, its batch and the settings
it was decided under. The writer unlinks what the previous manifest names and this bundle has
not, replaces each file, and the manifest last. `Verifies` is the verifier as far as bundles
matter: the root of the batch, and the settings, which must be known and be the certificate's.
Every run that writes a bundle takes the full configuration, so settings are in effect a
calibration. In `BatchClose` a run generates the sources, writes the bundle and goes on to serve
it, with the settings it ran under (`ServeOwn`); `ui --dir` serves what it finds and has no
calibration to expect (`ServeDir`). A server opens the cases of its exceptions, one commit each,
then lists the directory and reads file by file; `Decision` is the sign-off its page shows then.
`verify-proof` reads the certificate, the sources and the manifest in three steps; it expects the
settings of its options (`given`), else the manifest's, else none. One option alone counts as
none where there is no manifest, and is completed by it where there is. `Unbound` are the orders
of a batch with finance events whose certificate binds no event. A server over a directory looks
for the bundle in `proofs` beside the sources; a run writes its own under `<out>/proofs` and its
sources under `<out>/data/batch`, so it takes an operator to put both in one directory (`generate
--out R` and `demo --out R` with one seed): the arrangement in which several runs and a server
meet, and the one in which a server meets the bundle of another run.

**Fault variants.** Definitions marked *Fault variant* change one definition the way a plausible
bug would. `PROJECT.json` pairs each checked property with one that it must catch; nothing else
uses them.

## 3. The runs

All passing runs explore their whole state space.

| Run | Instance and bounds | Why they are enough |
| --- | --- | --- |
| `Cases` | one case, two certificates, two analysts, versions up to 8 | operations touch one case; two callers make every race of version checks; 8 has room for the longest route (5 hops), an escalation and a second request for evidence |
| `CaseSnapshots` | one case, one analyst, one reader, versions up to 6 | readers do not write; the case can be resolved or escalated between any two of the reads |
| `AuthorityLadder` | five live batches against one of ten scored orders (a row is a tenth), two calibrations, streams of 7 windows | the batches are graded NO_DATA, HEALTHY, WARNING and, in two ways, SEVERE; 3 severe halt, 2 healthy recover, 2 more start a second descent; every order of them |
| `AuthorityRestored` | the same, 5 windows | a counterexample of 4 windows |
| `Workbench` | one held order, two tabs, one MCP analyst, MCP moves up to version 3, kills at any step | two requests make every interleaving of the dict and the table; MCP may escalate, resolve or write off in between |
| `PolicyGate` | every kind of evidence, amounts at both sides of each limit, three action types (one unknown), confidence 84 and 85, counts to 4 | each comparison is taken at its boundary; 4 is past both caps |
| `Recovery` | one order, two symmetric servers, the demo, batches that say unpaid, partly paid or paid, `MaxCalls` 1 | three callers for one key; `MaxCalls` stops a caller from starting, so all three may be under way at once. Symmetry is sound: only invariants are checked |
| `RuleLifecycle` | two rules, two symmetric processes, two operators who allow different things, eleven capabilities (two or three for each step of the first rule, by two analysts, one for a version it never has; two for the other rule), case versions to 2, a clock of 0 to 2, corpora that are clean or trade one case against another | a race needs two callers; a capability may expire while a call is anywhere; the second rule shows that one rule's capabilities do not serve another. Symmetry is sound: there is no liveness |
| `Matching` | 10,944 batches in four families: three orders and up to five credits with weights on both sides of the margin and the thresholds; two settlements, or one, and an order beside them, with up to two credits that name a settlement, carry its UTR, or only its amount, over a new year; one order with every pair of gateway rows, tax evidence, disputes, a duplicate UTR, and a failed row settled beside a captured one; one order, or two of one settlement, captured around a 29 February and paid out on each of the days around it. Margin 5, limit 6 edges. Beside them 11,610 claims of an identity: picks of up to two payments, refunds and adjustments, repeated or another's, and a subject that balances or is a paisa off; and the generator's twelve scenarios | each family varies what its passes read; every pass, verdict, branch of `Resolve` and kind of disagreement occurs. Three orders make chains of components; six edges are at the limit and eight past it, beside a component that is solved |
| `Ingest` | two runs of either command; pages of two rows, a limit of three; two payments captured and one not, refunds in part, pending, and one without an order; three items that arrive at any moment; every class of malformed row; a statement with a duplicate | a page boundary falls inside every feed, and an arrival shifts it; the limit cuts one feed; the second run meets whatever the first left when it was killed |
| `BatchClose` | two batches, the first under two settings; an order that the second batch lacks, an order held for another reason in each; a sample of two certificates; finance events in the first batch, which one of its orders binds; `verify-proof` with and without its options | a bundle is replaced by one of other settings, of fewer orders and of more; the sample covers a whole bundle and not a bundle and a leftover; an order gets two cases; there is a manifest or none, with options or none |
| `RecoveryTwice` | one order, one server, no failures, `MaxCalls` 2 | a second approval is all that is needed |

What they show:

- `Cases`: the table projects the log (`ProjectionMatchesHistory`); a case moves only from the
  row its mover holds (`NoLostUpdate`); routes never escalate (`NoSilentEscalation`); and the
  store implements the abstract linear, append-only history (`ImplementsHistory`, the refinement
  of `CaseHistory`).
- `CaseSnapshots`: a torn snapshot has a row newer than its log, never older
  (`SnapshotTornOneWay`); what `verify` accepts is the state of the store as it returns
  (`VerifiedIsCurrent`), which is what the rule compiler relies on.
- `AuthorityLadder`: two severe windows with no health in between degrade, three halt, whatever
  else is mixed in (`LadderFollowsSevereRun`); one bad window revokes nothing
  (`RevokedOnlyByPattern`); the anchor moves only on earned health (`RefitIsEarned`); of the
  batches themselves, a stream that has the rows of the calibration batch in proportion keeps
  its authority, although scores tie at their maximum (`HonestStreamKeepsAuthority`), and one
  that shares no size of order with it is halted by the third window, whatever comes in between
  that is too small to score (`ForeignStreamIsHalted`).
- `Workbench`: an order leaves NEEDS YOU only on a recorded answer to a resolved case
  (`ReleasedOnlyIfRecorded`); of several requests one moved the case, and all hold its final row
  (`OneWinner`); and an answer on record takes force, if not by the handler that wrote it then
  at the next start (`RecordedAnswerTakesForce`).
- `PolicyGate`: an ALLOW satisfies every rule at once (`AllowIsEarned`; its cost bound is stated
  without the code's division: an allowed amount times three exceeds five times the cost);
  pressure only removes actions (`PressureNeverAllows`); a revoked run holds every fuzzy verdict
  (`RevocationHoldsFuzzy`).
- `Recovery`: rows stand for actions of their amount (`RowHasAction`), one caller is told it was
  first (`OneCallerIsFirst`), nothing is performed that the evidence its caller held does not
  earn (`NothingBypassesPolicy`), through batches that change, kills and a demo that removes the
  database.
- `RuleLifecycle`: the capabilities used are exactly the steps in the tables, one for one
  (`SpentMatchesSteps`), each spent while valid (`SpentWhileValid`); an active rule was learned
  from a human's resolution and left no replayed case worse (`ActiveRuleHarmedNoCase`, which
  reads the outcomes one by one where the gate adds them up); activation receipts stay valid
  (`ReceiptsStayValid`); the store implements `RuleHistory` (`ImplementsRuleHistory`).

- `Matching`: a credit that pass 4 assigned proves no other order, neither there nor as a payout
  (`FuzzyCreditProvesOnce`); the components' optima are an optimum of the batch
  (`AssignmentIsOptimal`), and an order is tied exactly if two near-optimal assignments of the
  whole batch disagree about it (`TiesAreExact`); unpaid is proven, or all candidates went to
  others (`UnpaidIsProven`); the verifier refuses the certificates of nine kinds of verdicts,
  listed in section 6, and no others (`VerifierAgrees`). The verifier of identities accepts a
  claim exactly if the issuer finds that it holds, but for a tax that the issuer takes on its
  caller's word (`IdentityAgrees`).
- `Ingest`: what a file of captures says of an order is never more than what was paid less what
  was refunded, however pages shifted (`NoRefundIsLost`); every row that was read is in a file,
  skipped for its state, or a line of the journal, and no line is there twice, though two stores
  write it (`NothingVanishes`); files, manifest and receipt are written in an order that lets
  none describe what is not there (`DiskOrder`); every run ends (`EveryRunEnds`).
- `BatchClose`: the writer implements `BundleRegister` (`ImplementsRegister`): whatever died
  before, a bundle is issued only when all of it is there. `verify-proof` accepts certificates of
  the bundle issued last and no other, and of the settings its caller named, if he named them;
  where no bundle was issued he must (`ValidMeansIssued`). A page is not signed unless every
  order of its batch has a certificate and the server knows the settings, and those verified are
  of that batch and of these settings (`SignedOnlyWhenProved`). Money held in cases that nobody
  closed is a caveat, although servers died half-way through opening them (`HeldMoneyIsNamed`).
  `TypeOK` here includes that a subject and a reason have one case.

Deadlock is checked in every run except those of the ladder, whose feed ends with `MaxWindows`,
of the rules, where every capability may have expired when the clock stops, of `Matching`, which
ends when every order has its verdict, and of `Ingest`, which ends when the runs are used up and
nothing more arrives.

## 4. Fairness and liveness

Two specifications state fairness, weak in both; the others are `Init /\ [][Next]_vars`.

- `Workbench`: `WF_vars(HandlerStep(t))` for each tab. A request has a thread of its own,
  scheduled by the operating system; it waits only for the lock of a database, which
  transactions that end hold. Nothing is asked of people, of MCP clients or of kills.
  `RecordedAnswerTakesForce` follows; that every request is answered does not, since the handler
  ends without a reply where it does not catch `IllegalTransition`.
- `Ingest`: `WF_vars(RunStep)`. The process is scheduled, and a request to the provider ends, by
  the time-out of 30 seconds at the latest, in a page or in `FetchFails`. Nothing is asked of
  arrivals. `EveryRunEnds` follows from the limit and from short pages: a collection that grew
  for ever under a fetch without a limit would never end it.

## 5. The proofs

Every safety property of a passing run is a theorem; what is only model-checked is named at the end
of this section. Eight modules hold the proofs; each theorem is of a specification as it stands,
with the constants left open.

| Module | Theorems | Inductive invariants |
| --- | --- | --- |
| `CasesProofs` | of `Cases`: `StoreIsSound`, `HistoryIsAppendOnly`, `NoUpdateIsLost`, `RouteDoesNotEscalate`, `StoreImplementsHistory` | `IInv`: types, projection, held rows are prefixes; under it `StoreInv` of `CaseStore`, which every module over the store shares |
| | of `CaseSnapshots`: `SnapshotsAreSound`, `VerifyIsLinearizable` | `ReaderInv`: projection, and what each reader step knows (`LogRead`, `RowRead`, `RelogRead`, `VerifiedWhole`) |
| | of `Workbench`: `ReleasesAreRecorded`, `OneRequestWins` | `WorkbenchInv`: projection, `SeenResolvedStands`, `AnswersOnRecord`, `OneWinner` |
| `AuthorityProofs` | of `AuthorityLadder`: `LadderIsSound`, `RevocationIsAPattern`, `RecalibrationIsEarned` | `IInv`: types, counters, rungs |
| | of `DriftLadder`: `HonestyIsSafe`, `ForeignHalts` | `IInv`, and `RevokedAfterTwo`: authority is away only after two severe windows |
| | of `PolicyGate`: `GateIsEarned`, `PressureOnlyRemoves`, `RevocationReachesFuzzy`, `DriftSparesExactProofs` | types; for revocation `AuthorityIsStated` too: fuzzy evidence states the run's authority |
| `RecoveryProofs` | `AuditIsHonest`, `PolicyIsNotBypassed`, `OneCallerIsTold` | `RecoveryInv`: types, `Backed`, `CallsEarned`, `PendingEarned` |
| `RuleLifecycleProofs` | `StoreImplementsHistory`, `ReceiptsAreForEver`, `SpendingIsCurrent`, `NothingSpentInVain`, `ActiveRulesHarmNone` | `RuleInv`: types, `CallsKnow`, `ReceiptsStayValid`; on top of it `Accounts`, and `Grounds` |
| `MatchingProofs` | of `Matching`: `FuzzyCreditIsProvenOnce`, `ComponentsAreOptimal`, `TiesAreFound`, `UnpaidIsAlwaysProven` | `IInv`: `Staged`, `Assigned`, `VerdictsBacked`; `SolveInv`: `Solved` and `UnpaidSound` too |
| | of `Certificates`: `VerdictsVerify` | `AgreeInv`: `SolveInv`, `HitsFit`, and that a verdict is what `Resolve` gives, still |
| | of `Identities`: `IdentitiesAgree` | the answer is the verifier's; the rest is about one claim |
| `BatchCloseProofs` | `BundlesAreIssuedWhole`, `OnlyIssuedIsValid`, `CloseIsTyped`, `SignsOverProofsOnly`, `HeldMoneyIsACaveat` | `BundleInv`: `FilesAreIssued`, `WriterInv`; `CloseInv`: the tables of cases and `ServerInv` (`OpeningInv`, `PageInv`) |
| `IngestProofs` | `DiskIsOrdered`, `NothingIsLost`, `IngestIsTyped`, `RefundsAreKept` | `WellPlaced`; on top of it `DiskInv`, and `JournalInv`; on both `BooksInv` |
| `CollectionTheorems` | lemmas only | |

They hold for any number of cases, analysts, orders, tabs, windows, servers, capabilities,
batches, claims and runs, and for any amounts and weights, without the bounds (the bounds are
constants, and appear as guards only), from the assumptions the modules name, which TLC
evaluates in the runs:

- `CaseConstants`, `WorkbenchConstants`: reasons are those of the code, the daemon is no
  analyst, the person at the page is one, and what the page lets her answer are notes.
- `LadderConstants`, `PolicyGateConstants`, `RecoveryConstants`, `RuleConstants`: the shapes of
  the inputs, and that placeholders ("no operator", "no row") are not values.
- `MonitorConstants`, `WatchConstants`: a window is a positive number of rows, an amount has up
  to a thousand digits (where `drift.py` has no bound), the calibration batch has a window's rows,
  batches are batches, and a window's severity is what the monitor says of it.
- `MatchingConstants`: the margin and the limit are naturals, and batches are batches: an order
  and a bank row are of a positive amount, a refund is negative and no other row is, and no row
  is of nought. The calendar has one new year and one leap day, which are at least 60 days apart
  or, the other way, 306. `validate_row` refuses the rest (`source_contracts.py:197-224`);
  `load_batch` itself does not look, so the theorems are about files that `ingest`, `import` or
  the generator wrote.
- `IdentityConstants`: a claim is a call that the types of the issuer's parameters admit, of
  rows the sources have.
- `BundleConstants`, `CloseConstants`: every batch says what is held in it, in whole amounts, and
  which of its orders bind no finance event; "no settings" are not settings.
- `IngestConstants`: feeds and statements are sequences; page sizes and the limit are positive.
- `ProviderConstants`, for `RefundsAreKept` alone: an id of the provider names one payment and no
  refund; a refund that names an order names its payment's; an amount that the contract lets
  through is an integer, and positive in a refund. The code takes these from the provider's
  interface and checks the amounts only. A refund may exceed its payment.

The arguments:

- *Cases.* `NoLostUpdate` needs that a version identifies a row. A held row with the current
  version is a prefix as long as the log, so its state is the last event's, which the projection
  makes the row's: `SnapshotsArePrefixes` is what makes the invariant inductive. Prefixes
  survive because the log only grows. A move of several hops appends the states of a route, and
  none of `Routes` passes through ESCALATED (`RouteDoesNotEscalate`). The refinement maps a case
  to its events: to open appends the first, to advance appends the route (`NewEvents`), and every
  other step stutters.
- *Snapshots.* If the log read first equals the log read again, histories being append-only,
  nothing was written in between; if the row read last equals the row of the snapshot, nothing
  was written after. The row's version counts the events, which ties the two tables.
- *Workbench.* Of what tabs, threads and the dict hold of a case, all may be stale but one thing:
  what was seen RESOLVED is RESOLVED, as no edge leaves it. An answer is put in force only by a
  handler that saved it, or by a restart that reads it from the table, and it is saved only after
  the handler's walk or its read saw the case resolved. A request that is past its walk holds the
  final row, and a second one finds no edge left to move the case along.
- *Ladder.* Each decision adds the last position to one of two sets of positions, or empties
  one; their sizes are the counters. Rungs follow from the counter.
- *Drift.* Two windows that hold every row as often, in proportion, have the same percentiles,
  medians, shares and means, whatever their sizes: each is a count or a quotient of counts
  (`Alike`; `MediansAlike`, `TailAlike`, `SharesAlike`, `MeansAlike`). So every signal but the tail
  has moved by nought, the tail is at most a tenth, and the window is healthy (`AlikeIsHealthy`). A
  severe window is therefore one that differs, and authority is away only where two are on record,
  for the run of severe windows is a part of them (`RevokedAfterTwo`). Histograms that share no
  bucket are at a distance of all of both, less what the divisions lose: under a thousand buckets
  at most a tenth of it, which leaves the signal severe (`ForeignIsApart`, `ForeignIsSevere`).
- *Gate.* `AllowMeans` unfolds `Evaluate` once; each theorem reads what it needs from it.
  `UnderAuthorityChangesOnly` says that another authority changes the authority stated and
  nothing else, which is why one action settles both drift properties.
- *Recovery.* `RowHasAction` needs `Backed`: a call that was performed is in `calls` before its
  row is written. `NothingBypassesPolicy` needs the same of calls not performed yet
  (`CallsEarned`) and of the demo's queue (`PendingEarned`). That one caller is told follows from
  the row: only who inserts it is told, and only the demo removes it, with the database, after
  which the telling starts again.
- *Rules.* A receipt needs what its call saw: `CallsKnow` says that a call has seen the registry
  in force and, once it activated a rule, finds its row. Both last because steps only add rows
  and the registry is inserted once (`Kept`). The refinement maps the rows to their statuses; an
  appended row is an appended status (`AppendsBecomes`), and a human step here is one there
  (`HumanStepMaps`). `Accounts` is the bijection between capabilities used and steps recorded,
  kept because each transaction spends one capability and records one step, in a version that no
  capability spent before was for. `Grounds` follows a row of a rule back to the resolution it
  was compiled from and to the replay that its gate passed; the gate adds up gains and refuses
  losses, and a sum of naturals that is nought has no positive term (`SumIsNought`).
- *Matching.* What is assigned comes from a matching of one component. Components are closed, so
  an order assigned later shares no candidate with one assigned before (`ComponentIsOutside`),
  and no credit is given twice (`Assigned`). The pool holds no consumed credit, and the
  settlements do not change after the pool is taken (`Staged`). Each verdict of a paid order is
  backed by one or the other (`VerdictsBacked`), which `Resolve` gives branch by branch
  (`ResolveIsBacked`). Of sets of orders that share no candidate, the matchings are the pairs of
  matchings of either, and the weights add up; so the union of two optima is an optimum, and a
  matching within the margin of the optimum is within it on either part. By these the components
  solved so far are solved as one batch (`Solved`).
- *Identities.* The issuer's terms are a sequence, the verifier's a set: they agree exactly if
  the sequence has no repetition and, as a term tells its kind and its row
  (`SettlementTermsTell`, `InvoiceTermsTell`), the picked rows are those that the verifier's
  filters leave of the bound ones. That is what FOREIGN_SOURCE asks of the picked rows
  (`SettlementAgrees`, `InvoiceAgrees`). The sums of the scenarios follow from `TotalJoined`:
  the terms of two lists add up.
- *Certificates.* What `Resolve` reads does not change once verdicts are given (`ResolveKept`),
  so a verdict is what it gives still, and the verifier may be asked later. A settlement joined
  keeps what its pass asked of it (`HitsFit`): the sum, and the shared UTR, the days or the name.
  Then branch by branch (`ResolveAgrees`): of a settled order the certificate binds the one
  settlement unless it is one of `RefundElsewhere` (`GroupIsClaimed`), so the sums are those that
  were joined. The two counts of days differ over a new year, by one more, and over a leap day,
  by one less (`LagsCompare`), and nowhere else, as the two are weeks apart; so the two programs
  agree on lateness but there, and where a failed row is the later one (`LatenessAgrees`). Of the
  orders of pass 4, a matched one is paid by an amount of the gate, so what is withheld is a tax
  (`AmountsOfTheGate`); one unpaid was never offered a credit, or lost it, and never scored too
  low (`UnpaidSound`, which is why the invariant holds `SolveInv`).
- *Bundle.* A file holds a certificate that some run issues for its order (`FilesAreIssued`); a
  writer has its own certificates in the files it is past, and removes none of its own
  (`WriterInv`). So when the manifest is replaced the files are
  the bundle, which is the step of `BundleRegister`. `verify-proof` reads the manifest last and
  compares; what it says is of the bundle the manifest names at that step.
- *Sign-off.* Cases are opened by one server at a time, a commit each: those before its place are
  there (`OpeningInv`), whichever server died, and a subject has one case for a reason. A page
  knows the files it has read (`PageInv`); all in the sample must verify, which none does unless
  the server knows the settings, and a batch with orders has one in the sample
  (`LeastIsSampled`). The money held is a sum over the held orders, of which the open cases in
  sight are a part (`SumGrows`).
- *Ingest.* Until a run replaces the manifest, all of it is older than the run, and what the run
  has opened is newer (`DiskInv`). While lines may be written the quarantine store knows all of
  them, so none is written twice; a row that was read is in one place from when its feed is
  mapped (`JournalInv`). What the store appends of a list of ids is stated by positions: nothing
  twice, nothing lost, nothing that was there.
- *Refunds.* A run maps nothing before the refunds it read cover what the payments say was
  returned, and opens the file of captures after it mapped every refund (`BooksInv`). A file that
  is whole was then filled with rows of these payments and these refunds, each once. The sum over
  an order splits into one part for each payment, its row and the rows of its refunds, which is at
  most what was paid less what was returned (`BooksHold`, by `SumOfParts`); rows outside the parts
  are refunds, and take away.

There is no induction rule to cite: those of the library take an operator as a parameter. Where
a proof needs induction over a finite set, an interval or a sequence, it takes a least
counterexample by size or by index (`SmallestSet`, `LeastNatural`) and removes one element. So
`CollectionTheorems` derives the sums over sets from the definition of `MapThenSumSet` (that the
function it chooses exists, `SumExists`; that any order of summation agrees, `SumIntSteps`), and
what `Nth` and `Pick` return (`NthExists`, `PickedRows`). For this `Identities` states the terms
of a list by their positions.

Three theorems are of statements that no run checks, since another property there says more:
`HistoryIsAppendOnly` (the refinement of `CaseHistory`), `DriftSparesExactProofs`, and
`IngestIsTyped`.

Only model-checked: liveness, `RecordedAnswerTakesForce` and `EveryRunEnds`, which need fairness
and `ENABLED`; and that `Ranked` is what sorting gives (`RanksAreSorted`), for the sort of the
library is recursive.

`Routes` is a set of walks of bounded length, not a recursive search, so that the modules over
the case store can be reasoned about.

## 6. What the code does otherwise than it says

Each of these is a run that TLC finds violated, and a row of `findings` that quotes the text.

| Run | Said | Done |
| --- | --- | --- |
| `AuthorityRestored` | healthy windows alone cannot restore revoked authority | one healthy window resets the severe count; the next severe window puts DEGRADED on WARNING, which authorises |
| `RecoveryTwice` | the database rejects duplicate actions | the adapter is called first; the database refuses the row |

More, seen while modelling and not given a run.

*Matching, approvals, workbench, rules.* Two settlements may be proven by one credit, and with
them orders that share no payout, although `METHODS.md:53-54` says that "two orders can never
claim the same bank credit": pass 2 takes for s1 a credit that names s2 and has the amount of
both, and pass 3, which does not look at what is consumed, takes it again for s2. An order is
settled in full when its settlement is joined, whatever was captured of it: its amount is never
compared with its captures, neither by the matcher nor by the verifier. An order with a refund
row and nothing captured does not enter pass 4, and is declared unpaid with "no gateway capture,
no bank credit matches" (`recon.py:522`) while a credit of its amount is in the statement. In
the workbench the table and the dict may be written in different orders, and an answer given
before is not appended, so a restart may load another answer than the one in force, although
`ui.py:182` says "last write wins". A drift window replayed is a second audit row when the first
moved the ladder, although `authority.py:221-223` says that it "cannot inflate the record": the
row's id covers the states around the window besides the window. `rule_demo.py:87-88` says that
"another human approved and activated" the rule; nothing in `rules.py` asks for another, one
analyst may hold every action. The healthy windows that earn a refit need not be consecutive, as
`authority.py:47` has it: a warning window between them keeps the count. The demo command
removes `ledger.sqlite3`, and with it the rows of running servers, while `SECURITY.md:58` calls
the log append-only. `approve` asks the gate again, on the evidence now loaded, but performs the
amount stored in the proposal (`mcp_server.py:115`), so that after a reload an order of which a
part is due is charged in full, while `mcp_server.py:109` says "re-gate at execution time:
approval does not bypass policy" and `models.py:113` that `delta_due_paise` is "what may
actually be chased". A case that is RESOLVED already has the empty route, so its version does
not move and a second screen passes the version check and puts its answer over the first;
`ui.py:20-21` says a screen left open "loses with a 409 instead of overwriting their answer".

*Bundle and sign-off.* `proof_bundle_hash` is the hash of the first certificate alone, although
`signoff.py:25-27` says that it binds the certificates. With more than `UI_VERIFY_SAMPLE`
certificates those outside the sample are signed unverified, while the page says "every proof
verified". `ui --dir` reads neither the manifest nor a calibration, and the verifier refuses
where none is expected (IDENTITY_EXPECTATION_MISSING, `verifier.py:629`): every certificate it
samples is rejected, and the page of a directory with certificates can never be signed.
`verify-proof` needs both options where there is no manifest, for the same reason; and where the
batch has finance events it calls a genuine certificate INVALID that binds none of them, for it
then rebuilds the root of the batch without the events (`cli.py:727`). Certificates that a run
wrote before it died and that no manifest names are never removed: they block the sign-off
(PROOF_REJECTED) for good. An order's case is hidden behind one opened later for another reason,
for the screen keeps one case per subject: so `HeldMoneyIsNamed` excepts it, although
`cases.py:483` promises "One case per subject". `setdefault` puts AMBIGUOUS_MATCH before
POLICY_ESCALATION, while `_REASON_PRECEDENCE` puts it after. The workbench passes neither
quarantined nor unverified orders to `open_exception_cases`; the judge passes the identifiers of
duplicate bank rows as quarantined orders, copies `proof-manifest.json` only if there is none
(`judge.py:707`), and its `every_row_bucketed` holds by how its buckets are made.

*Ingest.* A torn line of the journal stops every later run, after it has fetched everything. A
kill while `gateway_captures.csv` is filled leaves payments without their refunds, and
`load_batch` reads the file as it is: `NoRefundIsLost` is stated of files that were completed.
Manifest and receipt of an earlier run stay beside newer files, and `ui --dir` shows the
provenance of the receipt. One payment with a malformed amount refuses the whole batch.
`linked_captures` counts a capture as often as it is listed, and `import` prints the rows
parsed, not those accepted. The narration written for a settlement ("RAZORPAYSETTLEMENT id")
never matches the pattern that reads it back, which wants a hyphen.

*Identities.* The verifier looks at the rows the certificate binds and at no others: an identity
that leaves out a refund and an adjustment of the settlement that cancel each other is valid to
the issuer and to the verifier. A tax is a number and a reference that the issuer takes from its
caller; the verifier wants the ledger entry.

The verifier refuses the matcher's own verdict of these kinds (`Certificates`, where each is an
operator):

| Kind | The matcher | The verifier |
| --- | --- | --- |
| `RefundElsewhere` | settles an order by its first capture, and cites all its captures and refunds | wants one settlement, with every cited row in it, and something received |
| `OverNewYear` | counts 366 days to a year, so one day is two | counts calendar days: settled clean |
| `OverLeapDay` | counts 28 days to every February, so over a 29th two days are one and four are three, and the day before is the same | counts calendar days: settled late, or out of the window of the match by amount and date |
| `FailedLater` | counts the lag from the last captured row of the order | counts it from the last row of the order it was shown, failed ones of the settlement included |
| `RepaidOddly` | accepts a repayment of any amount of the gate, and cites whole settlements | wants the invoice's amount, and the order's rows only |
| `UnpaidDespiteRow` | is exhausted though the order has a refund, or its credit was consumed by a settlement, or is marked as a settlement's | any gateway row, or any credit that names the order, contradicts absence |
| `RejectedByEvidence` | considers the amounts that tax evidence leaves | knows the statutory rates only |
| `SeveralDisputes` | cites every open dispute | wants exactly one |
| `DisputeTooLarge` | takes a dispute over any positive amount | wants one that is not above the invoice |

## 7. What is not modelled

- Text, hashes and layout: a hash is the value it covers (taken to be injective), a narration or
  a note is a model value, a page is the set of its buttons.
- Time: seven-day contact windows are counts; the expiry of capabilities is a clock that ticks.
- The typed evidence registry: it is in place and supports what a resolution suggests. An
  analyst is never revoked, for no code does it.
- Floating point: likelihoods, similarity and conformal scores. The gate sees only whether a
  score was calibrated and authorised, the matcher a weight.
- The ablation switches of `ReconConfig` (`greedy`, `simple_scores`, ...): the full system is
  modelled. A batch that spans more than one new year or more than one leap day. Typed settlement
  and refund events in a certificate, whose source hashes it may bind too.
- SQLite itself: a transaction is atomic and durable, a SELECT sees one committed state.
- The removal of the database by the demo takes the case tables with it; `Recovery` models the
  audit table only, and `Cases` no removal.
- `load_resolutions` orders answers by a timestamp of one second; `Workbench` takes the order of
  the inserts, which is what a restart reads as long as two answers are not given in one second.
- More than one attempt number: no caller passes another.
- `fit_rupee_risk` (`risk_control.py`), which nothing but its tests calls. The decoding of
  finance events and the text of a statement (`parse_statement`): `Ingest` takes the rows either
  returns. Two processes that ingest into one directory at a time.
- The verifier's checks of hashes, versions and field types: what is issued is taken to arrive
  intact, and `BatchClose` has the case of a certificate of another batch or bundle.
- `judge.py`, `evaluate.py`, `robustness.py`, `ablation.py`, `crosscheck.py`, `faults.py`
  (harness and metrics), `datagen.py` beyond the finance scenarios (test data), the rendering of
  `ui.py`, `panels.py` and `landing.py`, the readers and model adapters (text in, spans out; a
  proposal reaches the gate as a confidence, which `PolicyGate` varies).

## 8. The plan

Done: all modules above, their runs, and the proofs of section 5. What is worth adding, in this
order:

1. Two servers on one case store and one bundle: `BatchClose` has one server at a time.
2. `decode_finance_events` and the events a certificate binds, in `SourceContracts` and
   `Certificates`.
3. The judge's pass over batches with injected faults, as a composition of the modules above.

To run: `tlc -config X.cfg MCY` for the pairs in `PROJECT.json`, `tlapm YProofs.tla` for the
proofs.
