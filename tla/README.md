# A verification project for jiraleaks

jiraleaks scans Jira issues for leaked secrets: it pages through the result of
a JQL query, scans the fields, comments and attachments of every issue,
reconciles what it found with a database of earlier findings, writes reports,
metrics and alerts, and moves the baseline of the next incremental scan.  This
directory holds TLA+ modules of the parts whose correctness depends on order,
concurrency and failure, TLC configurations that check them on small
instances, and proofs that TLAPS checks for every value of the constants.

Paths without a directory are below `src/src/`.

## 1. The system

| Component | State it keeps | Operations | What makes it correct |
| --- | --- | --- | --- |
| Fetcher (`fetcher.rs`) | offset of the page, place in it, issues sent | search a page, send its issues, stop at `max_issues` or on a cancelled token | every selected issue is sent once and in order |
| Consumer (`pipeline.rs`, first half of `run`) | receive loop, `JoinSet`, counters, `scanned_issue_keys` | receive, wait for room, spawn, collect, drain, status | nothing counted twice or lost; the status tells the truth |
| Jira client (`jira/client.rs`) | a semaphore | acquire, send, pause, retry, return | permits bound the requests and none is lost |
| Comment paging (`jira/client.rs`, `process_issue`) | offset, pages read | read a page, stop at the total, an empty page or the cap | a completed thread was read whole |
| Attachments (`attachments.rs`) | how many were read, budget of bytes | skip, download up to a limit, fail | the caps hold whatever Jira declares |
| Text extraction (`extract.rs`) | none | walk the fields, classify a path, truncate | every string of an issue is scanned, at its own path |
| Rules (`rules.rs`, `detectors/`) | the rules in the order of a hash map; a cursor per rule and text | load, find, skip, filter | no match is missed, whatever touches, overlaps or is empty |
| Verdict (`candidate.rs`, `entropy.rs`, `validators.rs`, `allowlist.rs`) | none | filter, suppress, grade | a hit is suppressed by any predicate of a record in scope, and graded by its context and its entropy |
| Credential pairs (`credpair.rs`) | two cursors, a budget of pairs | userinfo, window, JSON fields | the pairs of a full comparison, none twice |
| Redaction (`redact.rs`) | none | mask a snippet | no snippet of a rule shows a value that a rule found in the segment |
| Deduplication (`dedup.rs`, `finding.rs`) | findings by merge key | insert and merge | one finding per secret with all its locations |
| Findings store (`store.rs`) | the tables `findings` and `scans` | `reconcile`, `record_scan` | history is kept, only what is gone is closed |
| Incremental scan (`checkpoint.rs`) | the checkpoint file | plan the window, narrow the query, write the baseline | no update falls out of every later window |
| Run emission (`pipeline.rs`, second half of `run`, `main.rs`, `error.rs`) | the stage of the run, a remembered store error | reports, metrics, alerts, checkpoint, audit row, exit code | exit code 0 means everyone was served |
| Report writers (`report/`) | the documents written so far | select formats, confine a path, write | every document shows the same findings and claims no success the run had not |
| Alerts (`alert/`) | the threads at work | load a file, filter, post | a message lists what the reports show |
| Configuration (`config.rs`, `main.rs`) | the settings of a run | parse, validate | what cannot be used is refused before the scan |
| Metrics, logging, sanitizing, deployment | files | write | layout |

How they interact: the fetcher is a task that sends issues through a bounded
channel (2 x `concurrency`) to the consumer, which spawns one task per issue, at
most 2 x `concurrency` at a time.  Fetcher and issue tasks share the Jira client
and its `concurrency` permits.  A `CancellationToken`, cancelled by a signal, is
looked at by the fetcher and the consumer.  When the tasks are drained, the
consumer alone goes through the stages of emission, which share the database
with other runs of the scanner and the checkpoint file with the next run.

What is hard to test: the interleavings of fetcher, consumer, issue tasks and a
signal; requests that fail and pause while they hold a permit; issues that are
edited and commented on while they are read; two scanners on one database whose
transactions read stale rows; a run that is killed, or fails, between any two of
its stages; a checkpoint that is half written; rules and tasks that come in any
order; matches, pairs and snippets that overlap.  `PROJECT.json` lists these as
`hazards`, each at its line, with the properties that would notice.

## 2. The modules

    ScanPipeline       implements  ScanContract       one run up to its status
    IssueReading                                      requests, comments, attachments
    ScannedText
      TextExtraction, Allowlist, Redaction            fields to texts, suppression, masking
      CandidateVerdict                                the filters and the grade of a hit
      CredentialPairs                                 one call of the pair detector
      Detection        uses all of these              texts to deduplicated findings
    FindingsStore      implements  FindingLedger      the rows of `findings`
    IncrementalScan                                   the baseline over many runs
    Reports, Alerts    operators                      documents and messages
    Configuration      uses both                      what a run is asked for
      RunEmission                                     the stages over many runs

Each `...Proofs` module extends the module it proves about; each `MC...` module
gives TLC its constants and symmetry.  Operators marked `Mutant:` are plausible
bugs of the definition that follows them; nothing uses them except the mutation
runs of `PROJECT.json`.

**ScanPipeline.**  One action per stretch of code between two await points, of
the fetcher task (`FetchTop`, `SearchOk`, `SearchFail`, `NextItem`, `Send`,
`EndPage`), of the consumer (`Receive`, `CheckCancel`, `MakeRoom`, `Spawn`,
`Drain`, `LeaveDrain`, `JoinFetcher`, `Tally`), of the issue tasks
(`FinishTask`), and of the signal handler (`Cancel`).  `chan` is the channel,
`hand` the local `issue` of the receive loop, `task` the `JoinSet`.  Issues are
their positions in the search result, which is the same on every page.
`ScanContract` is what a scan promises with no task or page in sight: one verdict
per issue, Success only when all were scanned.

**IssueReading.**  The life of a request in `JiraClient::send` (`Ask`, `Grant`,
`Answer`, `Retry`, `WakeUp`, and the permit's return), shared by issue tasks and
`Others`, who stand for the fetcher and for more issue tasks.  A task pages
through the comments the payload lacks (`AskPage`, `ReadPage`, `CapComments`,
`FailComments`) and then through its attachments.  Comments are positions in the
thread; the numbers of bytes, pages and comments are small.

**Detection.**  `process_issue` from the payload to the findings, and the
deduplication after the tasks were collected.  A text is a sequence of *cells*, of
which nothing is known but their lower case and their character class, and a
regular expression is a sequence of alternatives: a word, the captured part of it,
and a word that must follow.  `ScanText` is one turn of the loop of
`RulesEngine::scan` (`SkipEmpty`, `TakeMatch`, `NextRule`), with the cursor that
`&text[cursor..]` stands for and the backtracking budget of the expression;
`JudgeHit` is one turn of the loop over the hits: the allowlist, the second half of
the judge and the masked snippet.  `HitsJudged` calls `CredentialPairs`, whose
steps (`LinkStep`, `Slide`, `PairUp`, `FieldStep`, ...) are steps of the scan, and
`TakePair` turns its results into findings.  `Collect` takes an issue in any order,
as the `JoinSet` does, `Insert` is `Deduplicator::insert`, and `Rescan` begins
again with another order of the rules, since `RulesEngine::new` takes them out of a
hash map.  Nothing is shared between the tasks of a scan but read-only data, so an
issue is processed in one go.  `before` is a history variable: the findings of the
issue when its segment was opened, behind which `OfRules` are those that the rules,
and not the pair detector, gave for the segment.  What is not about order stays a parameter: the
entropy of a value, the validators, the expressions of the builtin corpus, and what
the patterns of `credpair.rs` and the JSON parser find in a text.

**FindingsStore.**  `world` is what is leaked where; people edit it at any time.
A scanner starts, reads issues one by one, and calls `reconcile` (`Begin`, `Read`,
`Commit` or `Abandon`).  `Commit` is the whole rest of the transaction: closing,
one upsert per location, and the findings it returns.  `Serializable` chooses the
database: with SQLite (TRUE) a transaction that read before another committed
cannot commit; with PostgreSQL's READ COMMITTED (FALSE) it can.  `FindingLedger`
is the abstract table, in which a scan is one atomic observation.

**IncrementalScan.**  Jira updates issues and moves them in and out of the scope
of queries.  A run reads the checkpoint, trusts it or not, opens a window
(`WindowStart`), visits the issues the window selects, stamps `finishedAt`, and
writes the file in two steps because `fs::write` truncates first.

**Reports, Alerts, Configuration.**  No variables: the formats a list selects and
their order, where documents may go, what the document of each format claims of the
run and shows of each finding; the alerts files that can be used and the messages a
channel may post; the record of settings with its defaults, what `validate`
refuses, and what a run with a configuration asks for.

**RunEmission.**  A run goes through `scan`, `open` (the store), `reconcile`,
`report`, `metrics`, `alerts`, `deliver`, `checkpoint`, `record`, `exit`; every
stage can fail as the code lets it, and a run can be killed anywhere.  An issue is
read whole, or without a part that could not be fetched, or its task fails (`ReadIssue`); the scan ends with the search, or at
`max_issues`, or past a part of the result that a short page left out, or by a signal
(`EndScan`).  What the code goes on without and counts no error for is kept in two
history variables: `gaps`, of the run, and `missed`, the issues the baseline moved
over all the same.  `WriteReport`
writes one document (`written`), `Deliver` ends one delivery thread (`posting`) with
its message posted (`alerted`) or not.  What a document says is `Document` of
`Reports`, what a message lists is `Messages` of `Alerts`, and what refuses a
configuration is `Parsed` and `Valid` of `Configuration`.

## 3. The runs

| Run | Instance | What it shows |
| --- | --- | --- |
| `scan` | 5 issues, pages of 3, concurrency 1, `max_issues` 4, a signal, fair | order, bounds, counters, coverage; after a signal nothing new is taken in; the contract of a scan; every undisturbed scan ends |
| `scan_hang` (violation) | 4 issues in one page, a signal, fair | a signal at the wrong moment makes the run wait for ever |
| `scan_shortpage` (violation) | Jira serves 1 of the 2 issues asked for | issues are skipped and the run is Success |
| `issue_reading` | one task, two other clients, 2 permits, 3 attempts, pages of 2, threads up to 4, fair | permits kept and returned, threads read whole, attachments in their budget, the issue read to its end |
| `detection` | 2 issues, 2 scans, any order of tasks and rules, six allowlists, floors low and medium, caps 3 and 20, fair | no match missed, pairs exact, values of rules masked in the snippets of rules, hits suppressed and graded as the readings named in section 5 ask, the same findings in every scan, nothing lost in merging, every scan ends |
| `detection_ids` (violation) | the same, without an allowlist and with one floor and cap | the DefectDojo id of a finding changes between scans of one state |
| `store_race` | 2 scanners, 2 issues, PostgreSQL, clock to 7 | history, closing stamps and scope survive stale snapshots |
| `store_single` | 1 scanner, 2 issues with 2 fields, clock to 7 | "new" means never stored, only what is gone is closed, closings are announced once, the table is a ledger |
| `store_halfread` (violation) | a read that misses a part of an issue | findings still there are closed |
| `incremental_window` | 2 issues, 2 queries, overlap 2, Jira's clock 1 behind | no update falls out of the window; a narrowed scan is as good as a full one |
| `incremental_long` (violation) | a scan longer than the overlap | an update falls out of every window |
| `emission` | 2 issues, 10 configurations, any number of runs | exit codes tell the truth; the baseline stays behind the reports, and no document claims success after a failure or a signal, but for what a successful run went on without; alerts link to reports |

**Bounds.**  `ScanPipeline`: two pages, the second short and cut in its middle by
the limit, with a channel of two and a `JoinSet` of two, make every queue full and
every loop turn more than once; the proofs lift the bounds.  `IssueReading`: three
clients on two permits make one wait, three attempts reach the last retry, a thread
of up to four comments with one in the payload gives two full pages or several short
ones, and `MaxPages = 3` is reached by pages of one comment; three attachments listed
with a cap of two and a budget of 3 bytes under bodies of 1 and 3 reach each cap.
`Detection`: the texts of `MCDetection` are chosen so that matches touch, overlap,
hold a placeholder, are empty, lie at both ends of a text and exhaust a budget;
usernames and passwords stand at, inside and beyond the window; the budgets of the
pair detector and both truncations cut a text; a user's rule replaces a builtin one
and another, disabled, takes one away.  `MaxScans = 2` compares two scans: the
property relates any two, and each starts from the same state.  A cap of 3 cuts an
issue in its rules or in its pairs.  `MaxClock` (`FindingsStore`) bounds the starts
and reconciles: at 7 three whole scans fit, enough for found, closed and reopened.
`MaxClock` and `MaxScan` (`IncrementalScan`) bound time and the length of a scan; at
5 a second run works on the baseline of the first and a third on that of the second.
`MaxThread` bounds the comments people add.  `RunEmission` needs no bound on its
runs: with two issues they reach 2,528,066 states, up to symmetry.  Its ten
configurations are a store with and without a baseline; all consumers, once with both
and once with neither; a dry run; a limit of one issue; pages longer than Jira serves; an alerts file that is
refused after the reports; and two that are refused at once.  Any issue of any scan may be read in
part.  One finding fits a Slack or a Teams message, so a message must choose.
`CHECK_DEADLOCK FALSE` is in every cfg because a run that has ended, a clock at its
bound, or the last scan has no step left.

**Symmetry** is used only with invariants and action properties (never with
liveness), over scanners, issues and queries, which no definition names; the
refinement `KeepsLedger` is a safety property.

**Fairness.**  `ScanPipeline!FairSpec` assumes that the tokio runtime polls what
can go on, that a search returns (its attempts and the request timeout are
bounded) and that an issue task ends; it assumes no signal.  `IssueReading!FairSpec`
assumes the same of grants, attempts, pauses and tasks; nobody is bound to comment
or to send another request.  The tokio semaphore serves its waiters in order, which
the model has as `queue`: with an unfair one the task could starve (the mutant
`AskAtFront`).  A pause is as long as `Retry-After` says; that it ends is an
assumption.  `Detection!FairSpec` assumes only that a program that was started goes
on: it is sequential code, and `EveryScanEnds` speaks of its loops.  Nobody is bound
to scan again.

## 4. What is proved

TLAPS proves the following for every value of the constants that satisfies the
named assumptions of the module.

| Theorem | Property | Extra assumption |
| --- | --- | --- |
| `ScanPipelineProofs!TypeCorrect`, `DeliveryOrder` | `TypeOK`, `DeliveredInOrder` | - |
| `ScanPipelineProofs!CountersCorrect`, `BoundedWork`, `CancellationHolds` | `CountersAgree`, `Backpressure`, `CancelStopsIntake` | - |
| `ScanPipelineProofs!PipelineKeepsContract`, `ProgressIsTrue` | `KeepsContract` (refinement), `ReportedCoverage` | `FullPages`: Jira serves the page size asked for |
| `IssueReadingProofs!TypeCorrect`, `RequestsWithinPermits` | `TypeOK`, `PermitsKept` | - |
| `IssueReadingProofs!ThreadsReadWhole`, `AttachmentsWithinBudget` | `ThreadReadWhole`, `BudgetKept` | - |
| `DetectionProofs!TypeCorrect`, `NoMatchMissed` | `TypeOK`, `NothingMissed` | - |
| `CredentialPairsProofs!WindowIsExact`, `DetectionProofs!PairsExactInScan` | `PairsExact`, of one call and in the scan | - |
| `RedactionProofs!RedactionIsComplete` | lemma about the masking of any values in any snippet | - |
| `DetectionProofs!VerdictsExact`, `SnippetsHideRuleValues` | `VerdictsHonoured`, `RuleValuesMasked` | - |
| `DetectionProofs!DedupKeepsAll`, `ScansAgree` | `MergeKeepsAll`, `SameFindingsEveryScan` | - |
| `FindingsStoreProofs!TypeCorrect`, `StampedWhenClosed`, `HistoryNeverLost`, `ScopeRespected` | `TypeOK`, `ClosedIffStamped`, `HistoryKept`, `OutOfScopeUntouched` | - |
| `FindingsStoreProofs!ClosedWhenGone` | `ClosedOnlyWhenAbsent` | no read fails |
| `FindingsStoreProofs!NewMeansNew` | `NewMeansNoRowBefore` | one scanner at a time |
| `FindingsStoreProofs!AnnouncedOnce`, `StoreKeepsLedger` | `ClosingAnnouncedOnce`, `KeepsLedger` (refinement) | `Serializable` |
| `IncrementalScanProofs!TypeCorrect` | `TypeOK` | - |
| `IncrementalScanProofs!NoUpdateForgotten`, `NarrowedIsEnough` | `WindowCovers`, `NarrowedAsGoodAsFull` | `WideEnough` |
| `RunEmissionProofs!FormatsAgree`, `OnlyTrueClaims`, `SarifRulesCover` | lemmas about every format, for any findings | - |
| `RunEmissionProofs!TypeCorrect` | `TypeOK` | - |
| `RunEmissionProofs!BaselineBehindReports`, `SuccessIsComplete` | `SkippedWasReported`, `NoFalseAllClear`: true but for the issues in `missed` and `gaps` | - |
| `RunEmissionProofs!BaselineBehindReportsWithoutGaps`, `SuccessIsCompleteWithoutGaps` | the same without exception | `[](gaps = {})`: every part can be fetched, no search is cut by `max_issues` or short pages |
| `RunEmissionProofs!SuccessIsTrue`, `StoreFailureIsContained`, `AuditedIsServed` | `ZeroMeansServed`, `StoreCostsHistoryOnly`, `AuditedMeansServed` | - |
| `RunEmissionProofs!ClosingsAreShown`, `AlertsLinkToReports` | `ClosingsShown`, `AlertsFollowReports` | - |

The arguments:

* `ScanPipeline`.  `DeliveredInOrder` is inductive only with the places of the
  fetcher and the consumer (`OrderInv`).  `LedgerInv` adds that the task states,
  `scanned` and the counters tell one story and that the queues keep their bounds.
  `ContractInv` adds that with full pages the offsets add up (`ExactFetch`) and that
  whatever was sent is in the channel, the hand or the tasks, and the loops are left
  only when they have nothing to do (`NothingLost`): so a status computed after the
  drain speaks of every selected issue.  `ProgressInv` adds that the total is
  announced before the first issue of a page is sent, so the count never passes it.
* `IssueReading`.  `ReadingInv` has one part per group of variables.  `ClientInv`:
  a pausing request counts as a holder and has an attempt left, and the queue holds
  the waiters once each.  `CommentInv`: during the paging, exactly the comments
  between the payload's offset and the next offset were read, and none of them lies
  beyond the thread.  `AttachmentInv`: a download is under way only below the cap.
* `CredentialPairs`.  `PairsInv` says what the two cursors know (`Cursors`): what the
  first left behind is left of every later window, what the second has not reached is
  right of the present one, and between them lies the window.  It rests on captures
  being listed from left to right, which is what a scan of a text gives.
* `Detection`.  `ScanInv` carries `PairsInv` through the scan, in which every step is
  a step of the pair detector or leaves it alone (`PairCalls`).  `TakenInv` splits
  `NothingMissed`: the text behind the cursor is covered by what was taken
  (`Covered`), the taken matches lie apart (`Apart`) and behind the cursor
  (`TakenBehind`), and the hits are those that pass (`HitsExact`).  A match is the
  leftmost from the cursor on, so whatever begins before it begins behind the cursor.
  `VerdictInv` keeps, while the hits of a segment are judged, a bijection between the
  findings made so far (`OfRules`) and the hits due so far, each finding with the
  confidence its hit earned; at the end of a segment it is `VerdictsHonoured`.
  `RuleValuesMasked` adds the masking of `Redaction` to it.  `ListsInv` says that what
  was merged holds the places of what was collected, by `WithLocationsAdds`.
* `ScansAgree`.  A scan has a choice of rule at every step, and of issue, and must
  not let either show.  The scan of one rule and the pair detector have one way to go
  from every state, so they have one end: an end is *led to* if it is in every set
  that holds the beginning and is closed under the steps (`Leads`), and with one step
  from each state there is at most one (`OneEnd`), which no induction is needed for.
  So matches and pairs are functions of the text (`MatchesOf`, `PairsOf`).
  `ProgressInv` and `SearchInv` tie the cursors to them, `GivenInv` the findings of
  an issue to `IssueGives`, and `GatheredInv` those of a scan to `IssuesGive`, whose
  definition no order enters.
* `Redaction`.  The masking is a recursive function over the places of a text.
  `ReadsAs` says that what stands between two markers of its result stands in the text
  too, at a place where the value does not; as a marker is in no value, none can stand
  across one, and masking further values brings none back.  That it holds from every
  place is an induction over a set (`UpToBound`): the places where it fails would have
  a least one, counted from the end.
* `FindingsStore`.  `StoreInv` joins the types and `ClosedIffStamped` with three
  facts: a time was taken before it is written (`TimeTaken`), a scanner found and
  read only in issues it scanned (`ScopeInv`), and a fresh snapshot shows the table
  as it is (`FreshInv`), on which `AnnouncedOnce` and `StoreKeepsLedger` rest.
  `NewMeansNew` rests on `PastInv`: every row was first seen before the start of a
  scan that is under way.  `ClosedWhenGone` rests on `AllRead`: what a scan saw is
  what was there.
* `IncrementalScan`.  `IInv` relates the file, the run under way and the unread
  issues: a narrowed run uses the window of the file (`PlanInv`), what a run passed
  and is unread was updated since its start (`PassedInv`), and its end is at most
  `MaxScan` later (`TimeInv`).  `WideEnough` is
  `MaxScan + JiraLag <= Overlap`, no `max_issues`, and no part of an issue that
  fails to be fetched; without the first, TLC finds `incremental_long`.
* `RunEmission`.  `SettledInv` follows the running scan through the stages: what its
  query left out was settled before, changed since, or is in `missed`; what it
  attempted without an error was read or is in `gaps`; what of its plan a successful
  scan did not attempt is in `gaps`; and past the reports everything read is settled.
  That every format shows every leak is `FormatsAgree`.  In behaviours in which `gaps`
  stays empty `missed` does, too, and both claims hold without exception: those are the
  two theorems `...WithoutGaps`.  `EmissionInv` says what is made at each stage
  (`ServedInv`: past the stage of a product, it was made exactly if it is due), where
  the store's error comes from (`StoreInv`), that deliveries are asked for
  (`DeliveryInv`), and with it the three properties of the exit codes (`CodeInv`).
  `ShownInv` does the same for what readers see: past the reports all documents are
  written (`WrittenInv`), the closings owed are those reconcile returned until the
  reports show them (`OwedInv`), and messages list what was found or closed
  (`AlertedInv`).

Assumed by every theorem: the `ASSUME`s of the module, which say that the bounds
are natural numbers, that page size, concurrency and attempts are positive
(`Config::validate`, `max(1)`), that sets of clients, issues and scanners are
finite, that rules, texts and captures are sequences, that captures are listed
from left to right, that the part a rule captures lies in the word it matches, and
that a field path is a sequence and `Unset` is no text.  TLC evaluates them in every
run.

Only model-checked: liveness (`Terminates`, `TerminatesUndisturbed`, `IssueIsRead`,
`EveryScanEnds`), which TLAPS cannot prove.  Every safety property of a passing run
is stated by a theorem of the table.  Only proved: two scanners over SQLite, which no
run has; all the theorems of `FindingsStoreProofs` but `NewMeansNew` cover them.

## 5. What the checks found

* `pipeline.rs:200`: a signal between `recv` and `is_cancelled`, while the fetcher
  waits on a full channel, makes `run` wait for ever (`scan_hang`).
* `fetcher.rs:121`: the offset advances by `page_size`, not by what arrived; a Jira
  that caps the page makes the scan skip issues and still be Success
  (`scan_shortpage`).
* `pipeline.rs:167`: an issue counts as scanned when its task is spawned, so what
  could not be read of it is closed (`store_halfread`).
* `checkpoint.rs:65`: the window starts five minutes before the *end* of the
  previous scan; a longer scan misses updates (`incremental_long`).
* `report/defectdojo.rs:88`: the id of a DefectDojo finding is that of its first
  location, and the first location is that of the task collected first, so two scans
  of one state may give one secret two ids (`detection_ids`).

Seen while modelling, without a run of its own:

* An alerts file is loaded in `send_alerts`, after the reports and the metrics:
  README.md:507 and `alert/mod.rs:206` say before the scan.  Such a run has reports
  and exit code 1, and neither checkpoint nor audit row (the model has it:
  `AlertsFail`).
* Slack and Teams list the first findings of the scan that pass the threshold;
  README.md:504 says the 10 of highest confidence.  `Messages` allows any choice.
* `allowlist.rs:1` speaks of every candidate finding; credential pairs are reported
  without asking the allowlist (`pipeline.rs:604`, `TakePair`).
* A secret in two fields of one issue is upserted twice by one scan: `times_seen`
  counts fields, and the report counts the row once more for each (`store.rs:391`).
* The row of a finding's second issue is stored with the URL of the first
  (`store.rs:265`).  The findings that alerts and `findings_total` count include the
  closed ones.  An empty `email` passes the validation of basic authentication.
* A run that is cut at `max_issues` (`fetcher.rs:110-120`), that steps past a part of
  the result behind a short page (`fetcher.rs:121`), or that cannot fetch the comment
  pages or attachments of an issue (`pipeline.rs:476-480`) counts no error and is
  Success.  Its reports claim so, against README.md:454 ("a run that did not complete
  says so"), and with `--incremental` it moves the baseline over "issues it never
  reached", against README.md:176-178 and `checkpoint.rs:318-320`.  `RunEmission` has
  these runs; `NoFalseAllClear` and `SkippedWasReported` name the issues they go on
  without (`gaps`, `missed`) as their exception.
* The snippet of a rule's finding is masked for the values of the rules only
  (`pipeline.rs:569`, `rules.rs:159`).  README.md:436-439 and 573-576, `pipeline.rs:566`
  and `redact.rs:125` speak of every neighbouring finding of the segment, but the
  password of a credential pair next to it stays readable.  The snippet of a pair prints
  its username as it is (`pipeline.rs:626`), even when a rule found the username or it
  equals the password.  `RuleValuesMasked` says what the code keeps.
* README.md:315 calls the predicates of an allowlist record OR-ed; the example at
  README.md:325-326 and `allowlist.rs:12-13` reads `rule_id` with `project_key` as a rule
  "only in one project".  The code suppresses the rule in every project and every rule
  in the project (`allowlist.rs:155-209`); `VerdictsHonoured` and one of the six
  allowlists of `detection` follow it.
* The context of a hit is taken around the whole match (`rules.rs:341`; the test at
  `rules.rs:539` asks for it), where `rules.rs:112` and `candidate.rs:166` document the
  span as that of the captured value: words farther from the value than the radius count
  when the match reaches towards them.  `VerdictsHonoured` follows the code.
* The cap of 20 attachments counts successes, not requests (README.md:387); memory is
  bounded by the tasks, not by the permits (`attachments.rs:116`); a `Retry-After` of
  any length is slept through with the permit held; closings of a run that fails
  later are never reported; instants are compared as text whose fraction varies in
  length.

## 6. What is abstracted, and what is not modelled

* The result of a query does not change during a run, and `startAt` does not
  overflow.  `tx.send` cannot fail in `run`, because the receiver lives until the
  fetcher was awaited; that branch is left out.
* In the store, a leak is a secret in a field of an issue; severity, snippet, URL and
  live validation are data.  The triage statuses of the table have no writer in the
  code.  Row locks of PostgreSQL, and deadlocks between them, are not modelled.
* Queries are names; what narrowing does to the text of a JQL is not modelled.
  `JiraLag` stands for any way in which Jira's clock is behind the scanner's,
  its profile's time zone included.
* A dry run settles what it read although it writes no report: `docs/hld.md:188`
  documents that it still writes to the store and moves the baseline.
* In `IssueReading` threads only grow, the content of a page is that of the moment
  its body is read, and both `comments_mode` and attachment scanning are on.
* In `Detection` a cell is a character as well as a byte, so the adjustments to
  character boundaries do nothing; a regular expression is a choice of words; a digest
  is the value it is of, and equal digests are equal values; a marker is one cell that
  occurs in no value; the reason of a rejection, which is only logged, is left out.
* Not modelled: `sanitize.rs`, which works character by character and has no state;
  the layout, escaping and repeated columns of reports and metrics; the expressions
  of the builtin corpus and the arithmetic of the validators and of the entropy; the
  shell completions; log output and the progress line; the files for deployment.
  They hold no state and take no part in the order of events.  That the cron job
  forbids concurrent runs is `OneScanner` of `FindingsStore`.

## 7. The plan

Done: a run up to its status, the reading of an issue, the detection from a payload
to deduplicated findings, the store, the baseline and the emission with what it
writes, each with its proofs.  Left, in this order:

1. A run of its own for the cap of attachments: the requests of an issue whose
   attachments fail are bounded by nothing but the list.
2. Composition of `ScanPipeline` with the permits of `IssueReading`, to bound the
   memory of a run by tasks and by permits together.
3. Comments deleted between two pages, and search results that move: both need a
   model of Jira, and a promise of the repository to hold them against.
