----------------------------- MODULE RunEmission -----------------------------
(***************************************************************************)
(* What becomes of a scan's findings (src/src/pipeline.rs after the fetch, *)
(* with the report, metrics, alert, checkpoint and store stages it calls): *)
(* a sequence of runs on one state directory and one database.  Each run   *)
(* reads issues, reconciles with the store, and then serves its consumers  *)
(* one after the other; each stage fails in its own way, and the process   *)
(* may die between any two.  What a run that ended early leaves behind is  *)
(* what the next one starts from.                                          *)
(***************************************************************************)
EXTENDS Configuration

CONSTANTS Issues,      \* issue keys
          Leak,        \* function: an issue -> the rule, severity and confidence
                       \* of the secret it may contain
          Configs,     \* the configurations runs are started with
          ServerLimit  \* most issues Jira returns for one search request

ASSUME EmissionAssumption ==
    /\ Configs # {} /\ Configs \subseteq Config
    /\ ServerLimit \in Nat
    /\ Unset \notin AlertsFile

Stage == {"idle", "scan", "open", "reconcile", "report", "metrics", "alerts",
          "deliver", "checkpoint", "record", "exit"}

\* What a run leaves behind for somebody to find.
Product == {"history", "report", "metrics", "alerts", "baseline", "audit"}

\* The documented exit codes, and 255 for a run that was killed or still runs.
Codes == 0..5 \cup {255}

VARIABLES
    leaky,       \* Jira: the issues that contain a secret now
    open,        \* database: the issues with a row that is not closed
    baseline,    \* state directory: there is a trusted checkpoint
    behind,      \* issues inside the window of the checkpoint: what the next
                 \* narrowed query selects
    fresh,       \* issues updated since the run started: what the window of its
                 \* checkpoint will select (IncrementalScan has the instants)
    stage,       \* where the run stands
    config,      \* its configuration
    plan,        \* the issues its query selects
    scanned,     \* scanned_issue_keys: the issues it has attempted
    unseen,      \* issues whose present content it has not read
    found,       \* the issues in which it found a secret
    gaps,        \* history: the issues of the plan it goes on without, in part or
                 \* in whole, and counts no error for
    partial,     \* an issue failed, or the run was cancelled
    opened,      \* the store was opened
    storeError,  \* a failure of the store is remembered
    closed,      \* the findings reconcile returned as closed
    written,     \* the formats of which the run has written a document
    posting,     \* channels whose thread is at work
    alerted,     \* issues listed in the messages the run has delivered
    made,        \* the products the run has left so far
    code,        \* exit code of the last run
    reported,    \* history: issues whose present content a run has read and shown
                 \* in every document it was asked for, if --dry-run did not ask
                 \* for none
    missed,      \* history: issues the baseline moved over although the run that
                 \* moved it had gone on without them
    owed         \* history: rows the run has closed and a document does not show

scanVars == <<plan, scanned, fresh, unseen, found, gaps>>
storeVars == <<open, opened, storeError, closed>>
outputVars == <<written, posting, alerted>>
vars == <<leaky, open, baseline, behind, stage, config, plan, scanned, fresh,
          unseen, found, gaps, partial, opened, storeError, closed, written, posting,
          alerted, made, code, reported, missed, owed>>

Init ==
    /\ leaky \in SUBSET Issues
    /\ open = {} /\ baseline = FALSE /\ behind = Issues
    /\ stage = "idle"
    /\ config \in Configs
    /\ plan = {} /\ scanned = {} /\ fresh = {} /\ unseen = Issues /\ found = {}
    /\ gaps = {}
    /\ partial = FALSE
    /\ opened = FALSE /\ storeError = FALSE /\ closed = {}
    /\ written = {} /\ posting = {} /\ alerted = {}
    /\ made = {} /\ code = 255
    /\ reported = {} /\ missed = {} /\ owed = {}

\* An issue changes: a secret appears in it, or disappears.
Update(i) ==
    /\ leaky' = IF i \in leaky THEN leaky \ {i} ELSE leaky \cup {i}
    /\ behind' = behind \cup {i}
    /\ fresh' = IF stage = "idle" THEN fresh ELSE fresh \cup {i}
    /\ unseen' = unseen \cup {i}
    /\ reported' = reported \ {i} /\ missed' = missed \ {i}
    /\ UNCHANGED <<storeVars, outputVars, baseline, stage, config, plan, scanned,
                   found, gaps, partial, made, code, owed>>

-----------------------------------------------------------------------------
(* The scan.                                                               *)

\* A configuration that cannot be used is refused before anything is done.
Refuse(c) ==
    /\ stage = "idle"
    /\ ~(Parsed(c) /\ Valid(c))
    /\ config' = c
    /\ made' = {} /\ owed' = {} /\ code' = 1
    /\ UNCHANGED <<leaky, behind, storeVars, outputVars, scanVars, baseline, stage,
                   partial, reported, missed>>

\* With --incremental and a trusted checkpoint only what changed is read.
Start(c) ==
    /\ stage = "idle"
    /\ Parsed(c) /\ Valid(c)
    /\ stage' = "scan"
    /\ config' = c
    /\ plan' = IF c.incremental /\ baseline THEN behind ELSE Issues
    /\ partial' = FALSE
    /\ opened' = FALSE /\ storeError' = FALSE /\ closed' = {}
    /\ made' = {} /\ owed' = {} /\ code' = 255
    /\ UNCHANGED <<leaky, open, baseline, behind, scanned, fresh, unseen, found,
                   gaps, outputVars, reported, missed>>

\* The search delivers no more than max_issues; 0 is no limit.
LimitReached == config.maxIssues > 0 /\ Cardinality(scanned) >= config.maxIssues

\* The offset steps by page_size, past what a shorter page of the server has left
\* out (ScanPipeline has the offsets).
ShortPages == config.size["pageSize"] > ServerLimit

\* An issue is processed whole, or without the comment pages or attachments that
\* could not be fetched ("gapped"), which is logged and counted nowhere; or its
\* task fails, which alone makes the scan partial.  What lay in a missing part is
\* not found.
ReadIssue(i, how) ==
    /\ stage = "scan"
    /\ i \in plan \ scanned
    /\ ~LimitReached
    /\ scanned' = scanned \cup {i}
    /\ unseen' = IF how = "whole" THEN unseen \ {i} ELSE unseen
    /\ gaps' = IF how = "gapped" THEN gaps \cup {i} ELSE gaps
    /\ \E hits \in SUBSET ({i} \cap leaky) :
           /\ how = "whole" => hits = {i} \cap leaky
           /\ how = "failed" => hits = {}
           /\ found' = found \cup hits
    /\ partial' = (partial \/ how = "failed")
    /\ UNCHANGED <<leaky, behind, storeVars, outputVars, baseline, stage, config,
                   plan, fresh, made, code, reported, missed, owed>>

\* A signal, before the status of the run is decided: issues may stay unread.
Cancel ==
    /\ stage \in {"scan", "open", "reconcile"}
    /\ partial' = TRUE
    /\ UNCHANGED <<leaky, behind, storeVars, outputVars, baseline, stage, config,
                   scanVars, made, code, reported, missed, owed>>

-----------------------------------------------------------------------------
(* The stages.                                                             *)

\* Mutant: the scan is recorded before its reports are written.
NextStageAuditFirst(s) ==
    CASE s = "reconcile" -> "record"
      [] s = "record" -> "report"
      [] s = "report" -> "metrics"
      [] s = "metrics" -> "alerts"
      [] s \in {"alerts", "deliver"} -> "checkpoint"
      [] s = "checkpoint" -> "exit"
\* Mutant: the baseline moves before the reports are written.
NextStageBaselineFirst(s) ==
    CASE s = "reconcile" -> "checkpoint"
      [] s = "checkpoint" -> "report"
      [] s = "report" -> "metrics"
      [] s = "metrics" -> "alerts"
      [] s \in {"alerts", "deliver"} -> "record"
      [] s = "record" -> "exit"
\* Mutant: people are alerted first, for they are in a hurry.
NextStageAlertsFirst(s) ==
    CASE s = "reconcile" -> "alerts"
      [] s \in {"alerts", "deliver"} -> "report"
      [] s = "report" -> "metrics"
      [] s = "metrics" -> "checkpoint"
      [] s = "checkpoint" -> "record"
      [] s = "record" -> "exit"
\* Mutant: without an alerts file the rest of the emission is skipped, too.
NextStageShort(s) ==
    CASE s = "reconcile" -> "report"
      [] s = "report" -> "metrics"
      [] s = "metrics" -> IF UsesAlerts(config) THEN "alerts" ELSE "exit"
      [] s \in {"alerts", "deliver"} -> "checkpoint"
      [] s = "checkpoint" -> "record"
      [] s = "record" -> "exit"
\* The order in which a run serves its consumers.
NextStage(s) ==
    CASE s = "reconcile" -> "report"
      [] s = "report" -> "metrics"
      [] s = "metrics" -> "alerts"
      [] s \in {"alerts", "deliver"} -> "checkpoint"
      [] s = "checkpoint" -> "record"
      [] s = "record" -> "exit"

\* A stage that is done goes on with its product, or without one.
Pass(product, made_it) ==
    /\ made' = IF made_it THEN made \cup {product} ELSE made
    /\ stage' = NextStage(stage)
    /\ UNCHANGED <<code, scanVars>>

\* The run ends, by the error of a stage (`?`) or at its end, and what it held
\* in memory goes with it.
End(c) ==
    /\ stage' = "idle"
    /\ code' = c
    /\ plan' = {} /\ scanned' = {} /\ fresh' = {} /\ unseen' = Issues
    /\ found' = {} /\ gaps' = {}
    /\ written' = {} /\ posting' = {} /\ alerted' = {}
    /\ UNCHANGED made

\* The scan is over: the search is exhausted, or cut at max_issues, or has stepped
\* past a part of its result, or the run was cancelled.  Only the last makes it
\* partial.
EndScan ==
    /\ stage = "scan"
    /\ scanned = plan \/ LimitReached \/ ShortPages \/ partial
    /\ stage' = IF UsesStore(config) THEN "open" ELSE NextStage("reconcile")
    /\ gaps' = IF partial THEN gaps ELSE gaps \cup (plan \ scanned)
    /\ UNCHANGED <<leaky, behind, baseline, config, plan, scanned, fresh, unseen, found,
                   outputVars, partial, storeVars, made, code, reported, missed, owed>>

\* The rules do not load, a search fails, or the fetch task panics: the run ends, and what
\* was found in the pages before is dropped.
FetchFails(c) ==
    /\ stage = "scan"
    /\ End(c)
    /\ UNCHANGED <<leaky, behind, baseline, config, partial, storeVars,
                   reported, missed, owed>>

\* A store that cannot be opened is remembered, and the run goes on without it.
OpenStore(ok) ==
    /\ stage = "open"
    /\ stage' = IF ok THEN "reconcile" ELSE NextStage("reconcile")
    /\ opened' = ok /\ storeError' = ~ok
    /\ UNCHANGED <<leaky, behind, baseline, config, scanVars, outputVars, partial,
                   open, closed, made, code, reported, missed, owed>>

\* Rows of issues that were attempted and in which nothing was found.
Gone == (open \cap scanned) \ found

\* The transaction commits, or rolls back, or commits and the answer is lost.
Reconcile(committed, ok) ==
    /\ stage = "reconcile"
    /\ ok => committed
    /\ open' = IF committed THEN (open \ scanned) \cup found ELSE open
    /\ owed' = IF committed THEN Gone ELSE {}
    /\ closed' = IF ok THEN Gone ELSE {}
    /\ storeError' = ~ok
    /\ Pass("history", ok)
    /\ UNCHANGED <<leaky, behind, baseline, config, outputVars, partial, opened,
                   reported, missed>>

\* The findings that are served: what was found, and what reconcile has returned
\* as closed.  Whether a finding is new or recurring makes no difference here.
Finding(i, status) ==
    [issue |-> i, rule |-> Leak[i].rule, severity |-> Leak[i].severity,
     confidence |-> Leak[i].confidence, status |-> status]
Findings == {Finding(i, "new") : i \in found} \cup {Finding(i, "closed") : i \in closed}

RunStatus == IF partial THEN "Partial" ELSE "Success"

\* The document of a format, and what all that were asked for show alike.
DocumentOf(f) == Document(f, RunStatus, Findings)
ShownAsLeak(i) ==
    \A f \in Selected(config.format) : \E x \in DocumentOf(f).leaks : x.issue = i
ShownAsSettled(i) ==
    \A f \in Selected(config.format) : \E x \in DocumentOf(f).settled : x.issue = i

\* The formats are written one after the other.
WriteReport(f) ==
    /\ stage = "report"
    /\ ~config.dryRun
    /\ Confined(config.reportLayout, config.jql)
    /\ IsNext(config.format, written, f)
    /\ written' = written \cup {f}
    /\ UNCHANGED <<leaky, behind, baseline, stage, config, scanVars, posting, alerted,
                   partial, storeVars, made, code, reported, missed, owed>>

\* With the last of them the report is made.
FinishReports ==
    /\ stage = "report"
    /\ ~config.dryRun
    /\ written = Selected(config.format)
    /\ Pass("report", TRUE)
    /\ reported' = reported \cup {i \in Issues \ unseen : i \in found => ShownAsLeak(i)}
    /\ owed' = {i \in owed : ~ShownAsSettled(i)}
    /\ UNCHANGED <<leaky, behind, baseline, config, outputVars, partial, storeVars,
                   missed>>

\* A dry run was asked for no report: what it read is settled all the same, for
\* it goes on to move the baseline (docs/hld.md:188 names the limitation).
SkipReports ==
    /\ stage = "report"
    /\ config.dryRun
    /\ Pass("report", FALSE)
    /\ reported' = reported \cup (Issues \ unseen)
    /\ UNCHANGED <<leaky, behind, baseline, config, outputVars, partial, storeVars,
                   missed, owed>>

\* The directory or a document cannot be written: the run ends, and the documents
\* written before it stay.
ReportsFail ==
    /\ stage = "report"
    /\ ~config.dryRun
    /\ written # Selected(config.format)
    /\ End(4)
    /\ UNCHANGED <<leaky, behind, baseline, config, partial, storeVars,
                   reported, missed, owed>>

WriteMetrics(ok) ==
    /\ stage = "metrics"
    /\ ~ok => UsesMetrics(config)
    /\ IF ok THEN Pass("metrics", UsesMetrics(config)) /\ UNCHANGED outputVars ELSE End(4)
    /\ UNCHANGED <<leaky, behind, baseline, config, partial, storeVars,
                   reported, missed, owed>>

SkipAlerts ==
    /\ stage = "alerts"
    /\ ~UsesAlerts(config)
    /\ Pass("alerts", FALSE)
    /\ UNCHANGED <<leaky, behind, baseline, config, outputVars, partial, storeVars,
                   reported, missed, owed>>

\* The alerts file is read now, and one that cannot be used ends the run.
AlertsFail(readable) ==
    /\ stage = "alerts"
    /\ UsesAlerts(config)
    /\ readable => ~UsableAlerts(config.alerts)
    /\ End(1)
    /\ UNCHANGED <<leaky, behind, baseline, config, partial, storeVars,
                   reported, missed, owed>>

\* deliver_all: a thread for every channel.
StartDelivery ==
    /\ stage = "alerts"
    /\ UsesAlerts(config)
    /\ UsableAlerts(config.alerts)
    /\ stage' = "deliver"
    /\ posting' = config.alerts.named
    /\ UNCHANGED <<leaky, behind, baseline, config, scanVars, written, alerted, partial,
                   storeVars, made, code, reported, missed, owed>>

\* The message of a channel is posted, or it is not: a timeout, another answer
\* than 2xx, a panic.  The threads end in any order.
Deliver(ch, ok) ==
    /\ stage = "deliver"
    /\ ch \in posting
    /\ posting' = posting \ {ch}
    /\ \E message \in Messages(ch, Findings, config.alerts.minConfidence) :
           alerted' = IF ok THEN alerted \cup {x.issue : x \in message} ELSE alerted
    /\ UNCHANGED <<leaky, behind, baseline, stage, config, scanVars, written, partial,
                   storeVars, made, code, reported, missed, owed>>

\* All threads were joined; what they failed to deliver is logged.
FinishDelivery ==
    /\ stage = "deliver"
    /\ posting = {}
    /\ Pass("alerts", TRUE)
    /\ UNCHANGED <<leaky, behind, baseline, config, outputVars, partial, storeVars,
                   reported, missed, owed>>

\* maybe_write_checkpoint: only an incremental scan that succeeded.
MovesBaseline == config.incremental /\ ~partial

WriteCheckpoint ==
    /\ stage = "checkpoint"
    /\ Pass("baseline", MovesBaseline)
    /\ baseline' = (baseline \/ MovesBaseline)
    /\ behind' = IF MovesBaseline THEN fresh ELSE behind
    /\ missed' = IF MovesBaseline THEN (missed \ plan) \cup (gaps \ fresh) ELSE missed
    /\ UNCHANGED <<leaky, config, outputVars, partial, storeVars, reported, owed>>

\* The write fails, or the process dies in it (255); the file may be torn.
CheckpointFails(c, torn) ==
    /\ stage = "checkpoint"
    /\ MovesBaseline
    /\ End(c)
    /\ baseline' = (baseline /\ ~torn)
    /\ UNCHANGED <<leaky, behind, config, partial, storeVars, reported, missed, owed>>

\* The audit row, if there is a store.
RecordScan(ok) ==
    /\ stage = "record"
    /\ ~ok => opened
    /\ Pass("audit", opened /\ ok)
    /\ storeError' = (storeError \/ ~ok)
    /\ UNCHANGED <<leaky, behind, baseline, config, outputVars, partial, open, opened,
                   closed, reported, missed, owed>>

\* Mutant: a failure of the store is logged and forgotten.
ExitCodeForgiving == 0
\* Mutant: the store's error has a code outside the table.
ExitCodeOffTable == IF storeError THEN 6 ELSE 0
\* The remembered error becomes the exit code at the very end.
ExitCode == IF storeError THEN 5 ELSE 0

Exit ==
    /\ stage = "exit"
    /\ End(ExitCode)
    /\ UNCHANGED <<leaky, behind, baseline, config, partial, storeVars,
                   reported, missed, owed>>

\* The process is killed.
Crash ==
    /\ stage # "idle"
    /\ End(255)
    /\ UNCHANGED <<leaky, behind, baseline, config, partial, storeVars,
                   reported, missed, owed>>

Emit ==
    \/ \E ok \in BOOLEAN : OpenStore(ok)
    \/ \E committed \in BOOLEAN, ok \in BOOLEAN : Reconcile(committed, ok)
    \/ \E f \in FormatNames : WriteReport(f)
    \/ FinishReports \/ SkipReports \/ ReportsFail
    \/ \E ok \in BOOLEAN : WriteMetrics(ok)
    \/ SkipAlerts \/ StartDelivery \/ FinishDelivery
    \/ \E readable \in BOOLEAN : AlertsFail(readable)
    \/ \E ch \in ChannelNames, ok \in BOOLEAN : Deliver(ch, ok)
    \/ WriteCheckpoint
    \/ \E c \in {4, 255}, torn \in BOOLEAN : CheckpointFails(c, torn)
    \/ \E ok \in BOOLEAN : RecordScan(ok)
    \/ Exit

Next ==
    \/ \E i \in Issues : Update(i)
    \/ \E c \in Configs : Refuse(c) \/ Start(c)
    \/ \E i \in Issues, how \in {"whole", "gapped", "failed"} : ReadIssue(i, how)
    \/ Cancel
    \/ EndScan
    \/ \E c \in {1, 2, 3} : FetchFails(c)
    \/ Emit
    \/ Crash

Spec == Init /\ [][Next]_vars

-----------------------------------------------------------------------------
(* Properties.                                                             *)

TypeOK ==
    /\ leaky \in SUBSET Issues /\ open \in SUBSET Issues
    /\ behind \in SUBSET Issues /\ reported \in SUBSET Issues
    /\ baseline \in BOOLEAN
    /\ stage \in Stage
    /\ config \in Configs
    /\ plan \in SUBSET Issues /\ scanned \in SUBSET Issues
    /\ fresh \in SUBSET Issues /\ unseen \in SUBSET Issues /\ found \in SUBSET Issues
    /\ gaps \in SUBSET Issues /\ missed \in SUBSET Issues
    /\ partial \in BOOLEAN /\ opened \in BOOLEAN /\ storeError \in BOOLEAN
    /\ closed \in SUBSET Issues /\ owed \in SUBSET Issues
    /\ written \in SUBSET FormatNames /\ posting \in SUBSET ChannelNames
    /\ alerted \in SUBSET Issues
    /\ made \in SUBSET Product
    /\ code \in Codes

\* What the configuration and the status of the scan ask for.
Due == {x \in Product :
          CASE x \in {"history", "audit"} -> UsesStore(config)
            [] x = "report" -> ~config.dryRun
            [] x = "metrics" -> UsesMetrics(config)
            [] x = "alerts" -> UsesAlerts(config)
            [] x = "baseline" -> MovesBaseline}

\* No path ends in success after an error: a run that exits with 0 has served
\* every consumer that was configured, and no other (error.rs:59, pipeline.rs:372).
ZeroMeansServed == stage = "idle" /\ code = 0 => made = Due

\* A store failure costs the run its history and its audit row, never its
\* reports, metrics, alerts or checkpoint (pipeline.rs:212-230).
StoreCostsHistoryOnly ==
    stage = "idle" /\ code = 5 =>
        /\ Due \ made \subseteq {"history", "audit"}
        /\ Due \ made # {}

\* A row of the audit table stands for a run whose consumers were all served.
AuditedMeansServed == "audit" \in made => Due \ made \subseteq {"history"}

\* Whatever the next incremental scan will skip was reported as it is now (or read
\* by a dry run), but for the issues that the run which moved the baseline went on
\* without: no order of failures, crashes and runs moves the baseline past findings
\* whose report was due and is missing (pipeline.rs:341-343).  The exception is real:
\* a part that could not be fetched, max_issues and a short page leave the status
\* Success, and the baseline moves over "issues it never reached"
\* (checkpoint.rs:320).
SkippedWasReported == Issues \ behind \subseteq reported \cup missed

\* A run that exits with 0 has shown every row it closed as settled in every
\* document it was asked for.
ClosingsShown == stage = "idle" /\ code = 0 /\ ~config.dryRun => owed = {}

\* A failure or a signal always reaches the documents: where one says "Success",
\* every selected issue was read as it is now, has changed since the run started, or
\* is one that the run went on without and counted no error for.  The last case is
\* real, against "a run that did not complete says so" (README.md:454).
NoFalseAllClear ==
    \A f \in written :
        DocumentOf(f).claim = "Success" => plan \cap unseen \subseteq fresh \cup gaps

\* An alert links back to the report (slack.rs:12): whoever is alerted of a finding
\* finds it in every document the run was asked for.
AlertsFollowReports ==
    ~config.dryRun =>
        \A i \in alerted : \A f \in Selected(config.format) :
            /\ f \in written
            /\ \E x \in DocumentOf(f).leaks \cup DocumentOf(f).settled : x.issue = i
=============================================================================
