-------------------------- MODULE RunEmissionProofs --------------------------
(***************************************************************************)
(* Proofs about RunEmission, for every set of issues and configurations:   *)
(* types; that no order of failures, crashes and runs moves the baseline   *)
(* past findings whose report was due and is missing; what the exit code   *)
(* and the audit row tell; that closings are shown, that no document       *)
(* claims success after a failure, and that alerts follow the reports they *)
(* link to.  What a run goes on without and counts no error for is set     *)
(* apart in both claims that it touches.                                   *)
(***************************************************************************)
EXTENDS RunEmission, TLAPS

(***************************************************************************)
(* The report formats, the alerts and the configuration, for every list of *)
(* formats, every run and every set of findings.                           *)
(***************************************************************************)

\* The names of the catalogue.
LEMMA NamesOfCatalogue ==
    FormatNames = {"json", "ndjson", "csv", "sarif", "summary", "defectdojo"}
<1>1. DOMAIN Catalogue = 1..6
  BY DEF Catalogue
<1>2. /\ Catalogue[1] = "json" /\ Catalogue[2] = "ndjson" /\ Catalogue[3] = "csv"
      /\ Catalogue[4] = "sarif" /\ Catalogue[5] = "summary" /\ Catalogue[6] = "defectdojo"
  BY DEF Catalogue
<1>3. 1..6 = {1, 2, 3, 4, 5, 6}
  OBVIOUS
<1> QED
  BY <1>1, <1>2, <1>3 DEF FormatNames

\* A list of formats that validation lets through selects something to write, so
\* resolve_formats never fails in a run (report/mod.rs:138).
THEOREM AcceptedIsWritten ==
    ASSUME NEW spec \in Seq(STRING), Accepted(spec)
    PROVE  Selected(spec) # {} /\ Selected(spec) \subseteq FormatNames
<1>1. PICK k \in DOMAIN spec : spec[k] \in FormatNames \cup {"all"}
  <2>1. 1 \in DOMAIN spec
    BY DEF Accepted
  <2> QED
    BY <2>1 DEF Accepted
<1>2. \E f \in FormatNames : spec[k] \in {f, "all"}
  BY <1>1, NamesOfCatalogue
<1> QED
  BY <1>1, <1>2 DEF Selected

\* No two formats tell their readers different things of a finding: whichever
\* document is opened, it shows the same leaks and the same settled findings, though
\* DefectDojo is not given the label the others print (defectdojo.rs:170).
THEOREM FormatsAgree ==
    ASSUME NEW format \in FormatNames, NEW run, NEW findings
    PROVE  /\ Document(format, run, findings).leaks = {f \in findings : ~Settled(f)}
           /\ Document(format, run, findings).settled = {f \in findings : Settled(f)}
<1>1. CASE format \in {"json", "ndjson", "csv", "sarif", "summary"}
  <2>1. \E claim : Document(format, run, findings) = Labelled(claim, findings)
    BY <1>1 DEF Document, Json, Ndjson, Csv, Sarif, Summary
  <2> QED
    BY <2>1 DEF Labelled
<1>2. CASE format = "defectdojo"
  <2>1. \A f \in findings : Active(f) <=> ~Settled(f)
    BY DEF Active, Settled
  <2>2. Document(format, run, findings) = DefectDojo(findings)
    BY <1>2 DEF Document
  <2> QED
    BY <2>1, <2>2 DEF DefectDojo
<1> QED
  BY <1>1, <1>2, NamesOfCatalogue

\* A document says "Success" of a successful run only (sarif.rs:77).
THEOREM OnlyTrueClaims ==
    ASSUME NEW format \in FormatNames, NEW run, NEW findings,
           Document(format, run, findings).claim = "Success"
    PROVE  run = "Success"
<1>1. CASE format \in {"json", "summary"}
  BY <1>1 DEF Document, Json, Summary, Labelled
<1>2. CASE format = "sarif"
  BY <1>2 DEF Document, Sarif, Labelled, ExecutionSuccessful
<1>3. CASE format \in {"ndjson", "csv", "defectdojo"}
  BY <1>3 DEF Document, Ndjson, Csv, DefectDojo, Labelled
<1> QED
  BY <1>1, <1>2, <1>3, NamesOfCatalogue

\* A false positive is never imported into DefectDojo as one to be worked on
\* (defectdojo.rs:105).
THEOREM DismissedIsInactive ==
    ASSUME NEW f, FalsePositive(f)
    PROVE  ~Active(f)
BY DEF FalsePositive, Active

\* SARIF levels by severity.
LevelRank(level) == IF level = "error" THEN 0 ELSE IF level = "warning" THEN 1 ELSE 2

\* Every result of a SARIF document refers to a rule that is declared once, at a
\* level that is not below its own (sarif.rs:152).
THEOREM SarifRulesCover ==
    ASSUME NEW findings, NEW f \in findings, f.severity \in Severities
    PROVE  \E r \in SarifRules(findings) :
               /\ r.id = f.rule
               /\ LevelRank(r.level) <= LevelRank(SarifLevel(f.severity))
               /\ \A s \in SarifRules(findings) : s.id = f.rule => s = r
<1> DEFINE Levels == {SarifLevel(g.severity) : g \in {h \in findings : h.rule = f.rule}}
           entry == [id |-> f.rule, level |-> MostSevere(Levels)]
<1>1. entry \in SarifRules(findings)
  BY DEF SarifRules
<1>2. SarifLevel(f.severity) \in Levels
  OBVIOUS
<1>3. SarifLevel(f.severity) \in {"error", "warning", "note"}
  BY DEF SarifLevel, Severities
<1>4. LevelRank(entry.level) <= LevelRank(SarifLevel(f.severity))
  BY <1>2, <1>3 DEF MostSevere, LevelRank
<1>5. ASSUME NEW s \in SarifRules(findings), s.id = f.rule PROVE s = entry
  <2> DEFINE At(r) == MostSevere({SarifLevel(g.severity) : g \in {h \in findings : h.rule = r}})
  <2>1. PICK r \in {g.rule : g \in findings} : s = [id |-> r, level |-> At(r)]
    BY <1>5 DEF SarifRules
  <2> HIDE DEF At
  <2>2. r = f.rule
    BY <1>5, <2>1
  <2>3. entry = [id |-> f.rule, level |-> At(f.rule)]
    BY DEF At
  <2> QED
    BY <2>1, <2>2, <2>3
<1> QED
  BY <1>1, <1>4, <1>5

\* A message lists findings of the run at or above the threshold, and no others
\* (alert/mod.rs:221).
THEOREM MessagesAboveThreshold ==
    ASSUME NEW channel, NEW findings, NEW min,
           NEW message \in Messages(channel, findings, min), NEW f \in message
    PROVE  f \in findings /\ Rank(f.confidence) >= Rank(min)
BY DEF Messages, Visible

(***************************************************************************)
(* Types.  Every action but those named below only moves along the stages. *)
(***************************************************************************)

\* A stage that is passed leads to a stage.
LEMMA NextStageIsStage ==
    ASSUME NEW s \in {"reconcile", "report", "metrics", "alerts", "deliver", "checkpoint",
                  "record"}
    PROVE  NextStage(s) \in Stage
BY DEF NextStage, Stage

\* What Pass assigns keeps its type.
LEMMA PassKeepsTypes ==
    ASSUME TypeOK, NEW product \in Product, NEW ok \in BOOLEAN, Pass(product, ok),
           stage \in {"reconcile", "report", "metrics", "alerts", "deliver", "checkpoint",
                     "record"}
    PROVE  /\ made' \in SUBSET Product /\ stage' \in Stage /\ code' \in Codes
           /\ plan' \in SUBSET Issues /\ scanned' \in SUBSET Issues
           /\ fresh' \in SUBSET Issues /\ unseen' \in SUBSET Issues
           /\ found' \in SUBSET Issues /\ gaps' \in SUBSET Issues
BY NextStageIsStage DEF TypeOK, Pass, scanVars

\* What End assigns keeps its type.
LEMMA EndKeepsTypes ==
    ASSUME TypeOK, NEW c \in Codes, End(c)
    PROVE  /\ made' \in SUBSET Product /\ stage' \in Stage /\ code' \in Codes
           /\ plan' \in SUBSET Issues /\ scanned' \in SUBSET Issues
           /\ fresh' \in SUBSET Issues /\ unseen' \in SUBSET Issues
           /\ found' \in SUBSET Issues /\ gaps' \in SUBSET Issues
           /\ written' \in SUBSET FormatNames /\ posting' \in SUBSET ChannelNames
           /\ alerted' \in SUBSET Issues
BY DEF TypeOK, End, Stage

\* What is served belongs to issues.
LEMMA FindingsOfIssues ==
    ASSUME TypeOK, NEW x \in Findings
    PROVE  x.issue \in found \cup closed /\ x.issue \in Issues
BY DEF TypeOK, Findings, Finding

\* A configuration has the settings it is declared with.
LEMMA ConfigTypes ==
    ASSUME TypeOK
    PROVE  /\ config.dryRun \in BOOLEAN /\ config.incremental \in BOOLEAN
           /\ config.format \in Seq(STRING)
           /\ UsesAlerts(config) => config.alerts \in AlertsFile
BY EmissionAssumption DEF TypeOK, Config, UsesAlerts

\* The alerts stages keep every type.
LEMMA AlertsKeepTypes ==
    ASSUME TypeOK,
           \/ SkipAlerts \/ StartDelivery \/ FinishDelivery
           \/ \E readable \in BOOLEAN : AlertsFail(readable)
           \/ \E ch \in ChannelNames, ok \in BOOLEAN : Deliver(ch, ok)
    PROVE  TypeOK'
<1>1. CASE SkipAlerts
  <2>1. "alerts" \in Product /\ Pass("alerts", FALSE) /\ stage = "alerts"
    BY <1>1 DEF SkipAlerts, Product
  <2> QED
    BY <1>1, <2>1, PassKeepsTypes DEF TypeOK, SkipAlerts, storeVars, outputVars
<1>2. CASE StartDelivery
  <2>1. posting' \in SUBSET ChannelNames
    BY <1>2, ConfigTypes DEF StartDelivery, AlertsFile
  <2>2. stage' \in Stage
    BY <1>2 DEF StartDelivery, Stage
  <2> QED
    BY <1>2, <2>1, <2>2 DEF TypeOK, StartDelivery, storeVars, scanVars
<1>3. CASE FinishDelivery
  <2>1. "alerts" \in Product /\ Pass("alerts", TRUE) /\ stage = "deliver"
    BY <1>3 DEF FinishDelivery, Product
  <2> QED
    BY <1>3, <2>1, PassKeepsTypes DEF TypeOK, FinishDelivery, storeVars, outputVars
<1>4. ASSUME NEW readable \in BOOLEAN, AlertsFail(readable) PROVE TypeOK'
  BY <1>4, EndKeepsTypes DEF TypeOK, AlertsFail, storeVars, Codes
<1>5. ASSUME NEW ch \in ChannelNames, NEW ok \in BOOLEAN, Deliver(ch, ok) PROVE TypeOK'
  <2>1. PICK message \in Messages(ch, Findings, config.alerts.minConfidence) :
            alerted' = IF ok THEN alerted \cup {x.issue : x \in message} ELSE alerted
    BY <1>5 DEF Deliver
  <2>2. \A x \in message : x \in Findings
    BY <2>1, MessagesAboveThreshold
  <2>3. alerted' \in SUBSET Issues
    BY <2>1, <2>2, FindingsOfIssues DEF TypeOK
  <2>4. posting' \in SUBSET ChannelNames
    BY <1>5 DEF Deliver, TypeOK
  <2> QED
    BY <1>5, <2>3, <2>4 DEF TypeOK, Deliver, storeVars, scanVars
<1> QED
  BY <1>1, <1>2, <1>3, <1>4, <1>5

\* The stages keep every type.
LEMMA EmitKeepsTypes ==
    ASSUME TypeOK, Emit
    PROVE  TypeOK'
<1>1. ASSUME NEW ok \in BOOLEAN, OpenStore(ok) PROVE TypeOK'
  <2>1. stage' \in Stage
    BY <1>1 DEF OpenStore, NextStage, Stage
  <2>2. opened' \in BOOLEAN /\ storeError' \in BOOLEAN
    BY <1>1, Zenon DEF OpenStore
  <2> QED
    BY <1>1, <2>1, <2>2 DEF TypeOK, OpenStore, scanVars, outputVars
<1>2. ASSUME NEW committed \in BOOLEAN, NEW ok \in BOOLEAN, Reconcile(committed, ok)
      PROVE  TypeOK'
  <2>1. storeError' \in BOOLEAN
    BY <1>2, Zenon DEF Reconcile
  <2>2. open' \in SUBSET Issues /\ owed' \in SUBSET Issues /\ closed' \in SUBSET Issues
    BY <1>2 DEF TypeOK, Reconcile, Gone
  <2>3. "history" \in Product /\ Pass("history", ok) /\ stage = "reconcile"
    BY <1>2 DEF Reconcile, Product
  <2> QED
    BY <1>2, <2>1, <2>2, <2>3, PassKeepsTypes DEF TypeOK, Reconcile, outputVars
<1>3. ASSUME FinishReports PROVE TypeOK'
  <2>1. reported' \in SUBSET Issues /\ owed' \in SUBSET Issues
    BY <1>3 DEF TypeOK, FinishReports
  <2>2. "report" \in Product /\ Pass("report", TRUE) /\ stage = "report"
    BY <1>3 DEF FinishReports, Product
  <2> QED
    BY <1>3, <2>1, <2>2, PassKeepsTypes DEF TypeOK, FinishReports, storeVars, outputVars
<1>4. ASSUME SkipReports PROVE TypeOK'
  <2>1. reported' \in SUBSET Issues
    BY <1>4 DEF TypeOK, SkipReports
  <2>2. "report" \in Product /\ Pass("report", FALSE) /\ stage = "report"
    BY <1>4 DEF SkipReports, Product
  <2> QED
    BY <1>4, <2>1, <2>2, PassKeepsTypes DEF TypeOK, SkipReports, storeVars, outputVars
<1>5. ASSUME ReportsFail PROVE TypeOK'
  BY <1>5, EndKeepsTypes DEF TypeOK, ReportsFail, storeVars, Codes
<1>6. ASSUME NEW ok \in BOOLEAN, WriteMetrics(ok) PROVE TypeOK'
  <2>1. CASE ok
    <3>1. "metrics" \in Product /\ Pass("metrics", UsesMetrics(config)) /\ stage = "metrics"
      BY <1>6, <2>1 DEF WriteMetrics, Product
    <3>2. UsesMetrics(config) \in BOOLEAN
      BY DEF UsesMetrics
    <3> QED
      BY <1>6, <2>1, <3>1, <3>2, PassKeepsTypes
      DEF TypeOK, WriteMetrics, storeVars, outputVars
  <2>2. CASE ~ok
    BY <1>6, <2>2, EndKeepsTypes DEF TypeOK, WriteMetrics, storeVars, Codes
  <2> QED
    BY <2>1, <2>2
<1>7. ASSUME NEW f \in FormatNames, WriteReport(f) PROVE TypeOK'
  BY <1>7 DEF TypeOK, WriteReport, storeVars, scanVars
<1>8. ASSUME WriteCheckpoint PROVE TypeOK'
  <2>1. /\ MovesBaseline \in BOOLEAN /\ baseline' \in BOOLEAN
        /\ behind' \in SUBSET Issues /\ missed' \in SUBSET Issues
    BY <1>8, ConfigTypes DEF TypeOK, WriteCheckpoint, MovesBaseline
  <2>2. "baseline" \in Product /\ Pass("baseline", MovesBaseline) /\ stage = "checkpoint"
    BY <1>8 DEF WriteCheckpoint, Product
  <2> QED
    BY <1>8, <2>1, <2>2, PassKeepsTypes DEF TypeOK, WriteCheckpoint, storeVars, outputVars
<1>9. ASSUME NEW c \in {4, 255}, NEW torn \in BOOLEAN, CheckpointFails(c, torn)
      PROVE  TypeOK'
  <2>1. baseline' \in BOOLEAN
    BY <1>9, Zenon DEF CheckpointFails
  <2>2. c \in Codes /\ End(c)
    BY <1>9 DEF CheckpointFails, Codes
  <2> QED
    BY <1>9, <2>1, <2>2, EndKeepsTypes DEF TypeOK, CheckpointFails, storeVars
<1>10. ASSUME NEW ok \in BOOLEAN, RecordScan(ok) PROVE TypeOK'
  <2>1. (opened /\ ok) \in BOOLEAN /\ storeError' \in BOOLEAN
    BY <1>10, Zenon DEF RecordScan
  <2>2. "audit" \in Product /\ Pass("audit", opened /\ ok) /\ stage = "record"
    BY <1>10 DEF RecordScan, Product
  <2> QED
    BY <1>10, <2>1, <2>2, PassKeepsTypes DEF TypeOK, RecordScan, outputVars
<1>11. ASSUME Exit PROVE TypeOK'
  <2>1. ExitCode \in Codes
    BY DEF ExitCode, Codes
  <2> QED
    BY <1>11, <2>1, EndKeepsTypes DEF TypeOK, Exit, storeVars
<1> QED
  BY <1>1, <1>2, <1>3, <1>4, <1>5, <1>6, <1>7, <1>8, <1>9, <1>10, <1>11, AlertsKeepTypes
  DEF Emit

\* Every variable keeps its type.
THEOREM TypeCorrect == Spec => []TypeOK
<1>1. Init => TypeOK
  BY DEF Init, TypeOK, Stage, Codes
<1>2. TypeOK /\ [Next]_vars => TypeOK'
  <2> SUFFICES ASSUME TypeOK, [Next]_vars PROVE TypeOK'
    OBVIOUS
  <2>1. ASSUME NEW i \in Issues, Update(i) PROVE TypeOK'
    BY <2>1 DEF TypeOK, Update, storeVars, outputVars
  <2>2. ASSUME NEW c \in Configs, Start(c) PROVE TypeOK'
    <3>1. plan' \in SUBSET Issues
      BY <2>2 DEF TypeOK, Start
    <3>2. stage' \in Stage /\ code' \in Codes
      BY <2>2 DEF Start, Stage, Codes
    <3> QED
      BY <2>2, <3>1, <3>2 DEF TypeOK, Start, outputVars
  <2>10. ASSUME NEW c \in Configs, Refuse(c) PROVE TypeOK'
    BY <2>10 DEF TypeOK, Refuse, Codes, storeVars, scanVars, outputVars
  <2>3. ASSUME NEW i \in Issues, NEW how, ReadIssue(i, how) PROVE TypeOK'
    <3>1. partial' \in BOOLEAN
      BY <2>3, Zenon DEF ReadIssue
    <3>2. found' \in SUBSET Issues
      BY <2>3 DEF TypeOK, ReadIssue
    <3> QED
      BY <2>3, <3>1, <3>2 DEF TypeOK, ReadIssue, storeVars, outputVars
  <2>4. ASSUME Cancel PROVE TypeOK'
    BY <2>4 DEF TypeOK, Cancel, scanVars, storeVars, outputVars
  <2>5. ASSUME EndScan PROVE TypeOK'
    BY <2>5 DEF TypeOK, EndScan, NextStage, Stage, scanVars, storeVars, outputVars
  <2>6. ASSUME NEW c \in {1, 2, 3}, FetchFails(c) PROVE TypeOK'
    <3>1. c \in Codes /\ End(c)
      BY <2>6 DEF FetchFails, Codes
    <3> QED
      BY <2>6, <3>1, EndKeepsTypes DEF TypeOK, FetchFails, storeVars
  <2>7. ASSUME Emit PROVE TypeOK'
    BY <2>7, EmitKeepsTypes
  <2>8. ASSUME Crash PROVE TypeOK'
    BY <2>8, EndKeepsTypes DEF TypeOK, Crash, storeVars, Codes
  <2>9. CASE UNCHANGED vars
    BY <2>9 DEF TypeOK, vars
  <2> QED
    BY <2>1, <2>2, <2>3, <2>4, <2>5, <2>6, <2>7, <2>8, <2>9, <2>10 DEF Next
<1> QED
  BY <1>1, <1>2, PTL DEF Spec

-----------------------------------------------------------------------------
(***************************************************************************)
(* The baseline.  The window of a new checkpoint selects what changed      *)
(* since the run started; whatever else the run left out was settled       *)
(* before, or missed, and what it read without an error and without a gap  *)
(* is settled by its report.                                               *)
(***************************************************************************)

AtRestInv == stage = "idle" => fresh = {} /\ scanned = {}

\* What the query left out was settled, or missed before, or has changed since.
LeftOutInv == stage # "idle" => Issues \ plan \subseteq reported \cup missed \cup fresh

\* Without an error, everything attempted was read, or has changed since, or has a
\* gap.
AttemptedInv == ~partial => unseen \cap scanned \subseteq fresh \cup gaps

\* Without an error, everything selected was attempted when the scan is over, but for
\* what the search has not delivered.
CompleteInv == stage \notin {"idle", "scan"} /\ ~partial => plan \ scanned \subseteq gaps

\* Once past the reports, everything read is settled.
PastReportInv ==
    stage \in {"metrics", "alerts", "deliver", "checkpoint"} =>
        Issues \ unseen \subseteq reported

SettledInv ==
    /\ AtRestInv /\ LeftOutInv /\ AttemptedInv /\ CompleteInv /\ PastReportInv
    /\ SkippedWasReported

\* A run that ends leaves nothing to settle.
LEMMA EndKeepsSettled ==
    ASSUME SettledInv, NEW c, End(c),
           UNCHANGED <<behind, reported, missed, partial>>
    PROVE  SettledInv'
BY DEF SettledInv, AtRestInv, LeftOutInv, AttemptedInv, CompleteInv, PastReportInv,
       SkippedWasReported, End

\* A stage after the reports that is passed keeps what is settled.
LEMMA PassKeepsSettled ==
    ASSUME SettledInv, NEW product, NEW ok, Pass(product, ok),
           UNCHANGED <<behind, missed, partial>>, reported \subseteq reported',
           \/ stage \in {"reconcile", "metrics", "alerts", "deliver", "record"}
           \/ stage = "report" /\ Issues \ unseen \subseteq reported'
    PROVE  SettledInv'
<1>1. stage' \in {"report", "metrics", "alerts", "checkpoint", "exit"}
  BY DEF Pass, NextStage
<1>2. stage' \in {"metrics", "alerts", "checkpoint"} =>
          stage \in {"report", "metrics", "alerts", "deliver"}
  BY DEF Pass, NextStage
<1>3. stage # "idle" /\ stage # "scan"
  OBVIOUS
<1> QED
  BY <1>1, <1>2, <1>3 DEF SettledInv, AtRestInv, LeftOutInv, AttemptedInv, CompleteInv,
     PastReportInv, SkippedWasReported, Pass, scanVars

\* What was found is shown as a leak, and what was closed as settled, by every
\* document that is asked for.
LEMMA DocumentsShow ==
    ASSUME TypeOK
    PROVE  /\ \A i \in found : ShownAsLeak(i)
           /\ \A i \in closed : ShownAsSettled(i)
<1> SUFFICES ASSUME NEW f \in Selected(config.format)
             PROVE  /\ \A i \in found : \E x \in DocumentOf(f).leaks : x.issue = i
                    /\ \A i \in closed : \E x \in DocumentOf(f).settled : x.issue = i
  BY DEF ShownAsLeak, ShownAsSettled
<1>1. f \in FormatNames
  BY DEF Selected
<1>2. /\ DocumentOf(f).leaks = {x \in Findings : ~Settled(x)}
      /\ DocumentOf(f).settled = {x \in Findings : Settled(x)}
  BY <1>1, FormatsAgree DEF DocumentOf
<1>3. ASSUME NEW i \in found PROVE \E x \in DocumentOf(f).leaks : x.issue = i
  <2>1. Finding(i, "new") \in Findings
    BY DEF Findings
  <2>2. Finding(i, "new").issue = i /\ ~Settled(Finding(i, "new"))
    BY DEF Finding, Settled
  <2> QED
    BY <1>2, <2>1, <2>2
<1>4. ASSUME NEW i \in closed PROVE \E x \in DocumentOf(f).settled : x.issue = i
  <2>1. Finding(i, "closed") \in Findings
    BY DEF Findings
  <2>2. Finding(i, "closed").issue = i /\ Settled(Finding(i, "closed"))
    BY DEF Finding, Settled
  <2> QED
    BY <1>2, <2>1, <2>2
<1> QED
  BY <1>3, <1>4

\* The stages keep what is settled.
LEMMA EmitKeepsSettled ==
    ASSUME TypeOK, SettledInv, Emit
    PROVE  SettledInv'
<1>1. ASSUME NEW ok \in BOOLEAN, OpenStore(ok) PROVE SettledInv'
  <2>1. stage = "open" /\ stage' \in {"reconcile", "report"}
    BY <1>1 DEF OpenStore, NextStage
  <2> QED
    BY <1>1, <2>1 DEF SettledInv, AtRestInv, LeftOutInv, AttemptedInv, CompleteInv,
       PastReportInv, SkippedWasReported, OpenStore, scanVars
<1>2. ASSUME NEW committed \in BOOLEAN, NEW ok \in BOOLEAN, Reconcile(committed, ok)
      PROVE  SettledInv'
  BY <1>2, PassKeepsSettled DEF Reconcile
<1>3. ASSUME FinishReports PROVE SettledInv'
  <2>1. reported' = reported \cup (Issues \ unseen)
    BY <1>3, DocumentsShow DEF FinishReports
  <2> QED
    BY <1>3, <2>1, PassKeepsSettled DEF FinishReports
<1>4. ASSUME SkipReports PROVE SettledInv'
  BY <1>4, PassKeepsSettled DEF SkipReports
<1>5. ASSUME ReportsFail PROVE SettledInv'
  BY <1>5, EndKeepsSettled DEF ReportsFail
<1>6. ASSUME NEW ok \in BOOLEAN, WriteMetrics(ok) PROVE SettledInv'
  BY <1>6, EndKeepsSettled, PassKeepsSettled DEF WriteMetrics
<1>7. ASSUME NEW f \in FormatNames, WriteReport(f) PROVE SettledInv'
  BY <1>7 DEF SettledInv, AtRestInv, LeftOutInv, AttemptedInv, CompleteInv,
     PastReportInv, SkippedWasReported, WriteReport, scanVars
<1>12. ASSUME SkipAlerts \/ FinishDelivery PROVE SettledInv'
  BY <1>12, PassKeepsSettled DEF SkipAlerts, FinishDelivery
<1>13. ASSUME StartDelivery PROVE SettledInv'
  BY <1>13 DEF SettledInv, AtRestInv, LeftOutInv, AttemptedInv, CompleteInv,
     PastReportInv, SkippedWasReported, StartDelivery, scanVars
<1>14. ASSUME NEW readable \in BOOLEAN, AlertsFail(readable) PROVE SettledInv'
  BY <1>14, EndKeepsSettled DEF AlertsFail
<1>15. ASSUME NEW ch \in ChannelNames, NEW ok \in BOOLEAN, Deliver(ch, ok)
       PROVE  SettledInv'
  BY <1>15 DEF SettledInv, AtRestInv, LeftOutInv, AttemptedInv, CompleteInv,
     PastReportInv, SkippedWasReported, Deliver, scanVars
<1>8. ASSUME WriteCheckpoint PROVE SettledInv'
  <2>1. stage = "checkpoint" /\ stage' = "record"
    BY <1>8 DEF WriteCheckpoint, Pass, NextStage
  <2>2. UNCHANGED <<reported, partial, scanVars>> /\ missed \ plan \subseteq missed'
    BY <1>8 DEF WriteCheckpoint, Pass
  <2>3. Issues \ behind' \subseteq reported \cup missed'
    <3>1. CASE MovesBaseline
      <4>1. behind' = fresh /\ ~partial /\ gaps \ fresh \subseteq missed'
        BY <1>8, <3>1 DEF WriteCheckpoint, MovesBaseline
      <4>2. SUFFICES ASSUME NEW i \in Issues, i \notin fresh
                     PROVE  i \in reported \cup missed'
        BY <4>1
      <4>3. CASE i \in plan
        BY <2>1, <4>1, <4>2, <4>3
        DEF SettledInv, AttemptedInv, CompleteInv, PastReportInv
      <4>4. CASE i \notin plan
        BY <2>1, <2>2, <4>2, <4>4 DEF SettledInv, LeftOutInv
      <4> QED
        BY <4>3, <4>4
    <3>2. CASE ~MovesBaseline
      BY <1>8, <3>2 DEF WriteCheckpoint, SettledInv, SkippedWasReported
    <3> QED
      BY <3>1, <3>2
  <2> QED
    BY <2>1, <2>2, <2>3 DEF SettledInv, AtRestInv, LeftOutInv, AttemptedInv,
       CompleteInv, PastReportInv, SkippedWasReported, scanVars
<1>9. ASSUME NEW c \in {4, 255}, NEW torn \in BOOLEAN, CheckpointFails(c, torn)
      PROVE  SettledInv'
  BY <1>9, EndKeepsSettled DEF CheckpointFails
<1>10. ASSUME NEW ok \in BOOLEAN, RecordScan(ok) PROVE SettledInv'
  BY <1>10, PassKeepsSettled DEF RecordScan
<1>11. ASSUME Exit PROVE SettledInv'
  BY <1>11, EndKeepsSettled DEF Exit
<1> QED
  BY <1>1, <1>2, <1>3, <1>4, <1>5, <1>6, <1>7, <1>8, <1>9, <1>10, <1>11,
     <1>12, <1>13, <1>14, <1>15
  DEF Emit

\* The chain from what a query left out to what is settled never breaks.
LEMMA SettledAlways == Spec => []SettledInv
<1>1. Init => SettledInv
  BY DEF Init, SettledInv, AtRestInv, LeftOutInv, AttemptedInv, CompleteInv,
         PastReportInv, SkippedWasReported
<1>2. TypeOK /\ SettledInv /\ [Next]_vars => SettledInv'
  <2> SUFFICES ASSUME TypeOK, SettledInv, [Next]_vars PROVE SettledInv'
    OBVIOUS
  <2> USE DEF SettledInv, AtRestInv, LeftOutInv, AttemptedInv, CompleteInv,
              PastReportInv, SkippedWasReported
  <2>1. ASSUME NEW i \in Issues, Update(i) PROVE SettledInv'
    BY <2>1 DEF Update
  <2>2. ASSUME NEW c \in Configs, Start(c) PROVE SettledInv'
    BY <2>2 DEF Start
  <2>10. ASSUME NEW c \in Configs, Refuse(c) PROVE SettledInv'
    BY <2>10 DEF Refuse, scanVars
  <2>3. ASSUME NEW i \in Issues, NEW how \in {"whole", "gapped", "failed"}, ReadIssue(i, how)
        PROVE  SettledInv'
    <3>1. /\ stage = "scan" /\ stage' = stage
          /\ UNCHANGED <<behind, plan, fresh, reported, missed>>
      BY <2>3 DEF ReadIssue
    <3>2. ~partial' => ~partial /\ unseen' \cap scanned' \subseteq fresh' \cup gaps'
      BY <2>3 DEF ReadIssue
    <3> QED
      BY <3>1, <3>2
  <2>4. ASSUME Cancel PROVE SettledInv'
    BY <2>4 DEF Cancel, scanVars
  <2>5. ASSUME EndScan PROVE SettledInv'
    <3>1. stage' \in {"open", "report"} /\ (~partial => plan \ scanned \subseteq gaps')
      BY <2>5 DEF EndScan, NextStage
    <3> QED
      BY <2>5, <3>1 DEF EndScan
  <2>6. ASSUME NEW c \in {1, 2, 3}, FetchFails(c) PROVE SettledInv'
    BY <2>6, EndKeepsSettled DEF FetchFails
  <2>7. ASSUME Emit PROVE SettledInv'
    BY <2>7, EmitKeepsSettled
  <2>8. ASSUME Crash PROVE SettledInv'
    BY <2>8, EndKeepsSettled DEF Crash
  <2>9. CASE UNCHANGED vars
    BY <2>9 DEF vars
  <2> QED
    BY <2>1, <2>2, <2>3, <2>4, <2>5, <2>6, <2>7, <2>8, <2>9, <2>10 DEF Next
<1> QED
  BY <1>1, <1>2, TypeCorrect, PTL DEF Spec

\* The baseline passes over no issue whose present content is neither in a report nor
\* was read by a dry run, but for those the run that moved it went on without: parts
\* that could not be fetched, and what max_issues or a short page left behind
\* (pipeline.rs:341-343, 476; fetcher.rs:110-121).
THEOREM BaselineBehindReports == Spec => []SkippedWasReported
<1>1. SettledInv => SkippedWasReported
  BY DEF SettledInv
<1> QED
  BY <1>1, SettledAlways, PTL
-----------------------------------------------------------------------------
(***************************************************************************)
(* What a run has served so far.                                           *)
(***************************************************************************)

\* Where every read is whole and no search is cut, nothing is set apart: the baseline
\* passes over no issue that is not reported as it is now (pipeline.rs:341-343).
THEOREM BaselineBehindReportsWithoutGaps ==
    Spec /\ [](gaps = {}) => [](Issues \ behind \subseteq reported)
<1>1. Init => missed = {}
  BY DEF Init
<1>2. missed = {} /\ gaps = {} /\ [Next]_vars => (missed = {})'
  <2> SUFFICES ASSUME missed = {}, gaps = {}, [Next]_vars
               PROVE  missed' = {}
    OBVIOUS
  <2>1. CASE Emit
    BY <2>1 DEF Emit, OpenStore, Reconcile, WriteReport, FinishReports, SkipReports,
                ReportsFail, WriteMetrics, SkipAlerts, AlertsFail, StartDelivery,
                Deliver, FinishDelivery, WriteCheckpoint, CheckpointFails, RecordScan,
                Exit
  <2>2. CASE Next /\ ~Emit
    BY <2>2 DEF Next, Update, Refuse, Start, ReadIssue, Cancel, EndScan, FetchFails,
                Crash
  <2>3. CASE UNCHANGED vars
    BY <2>3 DEF vars
  <2> QED
    BY <2>1, <2>2, <2>3
<1>3. SkippedWasReported /\ missed = {} => Issues \ behind \subseteq reported
  BY DEF SkippedWasReported
<1> QED
  BY <1>1, <1>2, <1>3, BaselineBehindReports, PTL DEF Spec

\* The stages that come after the one that makes a product.
Past(x) ==
    CASE x = "history" -> {"report", "metrics", "alerts", "deliver", "checkpoint",
                           "record", "exit"}
      [] x = "report" -> {"metrics", "alerts", "deliver", "checkpoint", "record", "exit"}
      [] x = "metrics" -> {"alerts", "deliver", "checkpoint", "record", "exit"}
      [] x = "alerts" -> {"checkpoint", "record", "exit"}
      [] x = "baseline" -> {"record", "exit"}
      [] x = "audit" -> {"exit"}

\* Each product is made at one stage, or two.
Makes(x, s) ==
    \/ x = "history" /\ s = "reconcile"
    \/ x = "report" /\ s = "report"
    \/ x = "metrics" /\ s = "metrics"
    \/ x = "alerts" /\ s \in {"alerts", "deliver"}
    \/ x = "baseline" /\ s = "checkpoint"
    \/ x = "audit" /\ s = "record"

\* What was made was due and its stage is past; what was due and whose stage is
\* past was made, but for what the store makes.
ServedInv ==
    stage # "idle" =>
        \A x \in Product :
            /\ x \in made => x \in Due /\ stage \in Past(x)
            /\ x \in Due /\ stage \in Past(x) /\ x \notin {"history", "audit"}
                   => x \in made

\* The store is worked on only if it is configured, and what it did not make is
\* remembered.
StoreInv ==
    stage # "idle" =>
        /\ opened \/ storeError \/ stage = "open" => UsesStore(config)
        /\ stage = "reconcile" => opened
        /\ stage \in {"scan", "open"} => ~opened
        /\ stage \in {"scan", "open", "reconcile"} => ~storeError
        /\ stage \in Past("history") /\ ~storeError /\ UsesStore(config)
               => opened /\ "history" \in made
        /\ stage = "exit" /\ ~storeError /\ UsesStore(config) => "audit" \in made
        /\ storeError => \/ "history" \notin made
                         \/ stage = "exit" /\ "audit" \notin made

\* What the exit code of the last run, and the audit row, tell.
CodeInv == ZeroMeansServed /\ StoreCostsHistoryOnly /\ AuditedMeansServed

\* Messages are delivered only if they were asked for.
DeliveryInv == stage = "deliver" => UsesAlerts(config)

EmissionInv == ServedInv /\ StoreInv /\ DeliveryInv /\ CodeInv

\* With a stage its product is past, and no other.
LEMMA NextIsPast ==
    ASSUME NEW s, NEW product \in Product, Makes(product, s), NEW x \in Product
    PROVE  NextStage(s) \in Past(x) <=> s \in Past(x) \/ x = product
BY DEF Makes, NextStage, Past, Product

\* What is due depends on the configuration and on the status alone.
LEMMA DueStays ==
    ASSUME UNCHANGED <<config, partial>>
    PROVE  Due' = Due
BY DEF Due, MovesBaseline, UsesStore, UsesMetrics, UsesAlerts

\* Which products are due.
LEMMA DueIs ==
    /\ Due \subseteq Product
    /\ "history" \in Due <=> UsesStore(config)
    /\ "audit" \in Due <=> UsesStore(config)
    /\ "report" \in Due <=> ~config.dryRun
    /\ "metrics" \in Due <=> UsesMetrics(config)
    /\ "alerts" \in Due <=> UsesAlerts(config)
    /\ "baseline" \in Due <=> MovesBaseline
BY DEF Due, Product

\* A stage that makes its product if it is due, and otherwise does not, keeps what is
\* served.  The store's products may be missing.
LEMMA PassKeepsServed ==
    ASSUME ServedInv, NEW product \in Product, NEW ok \in BOOLEAN,
           Pass(product, ok), Makes(product, stage), UNCHANGED <<config, partial>>,
           ok => product \in Due,
           product \in Due => ok \/ product \in {"history", "audit"}
    PROVE  ServedInv'
<1>1. Due' = Due
  BY DueStays
<1>2. stage # "idle" /\ stage' = NextStage(stage)
  BY DEF Makes, Pass
<1>3. \A x \in Product : stage' \in Past(x) <=> stage \in Past(x) \/ x = product
  BY <1>2, NextIsPast
<1>4. made' = IF ok THEN made \cup {product} ELSE made
  BY DEF Pass
<1>5. SUFFICES ASSUME NEW x \in Product
               PROVE  /\ x \in made' => x \in Due /\ stage' \in Past(x)
                      /\ x \in Due /\ stage' \in Past(x) /\ x \notin {"history", "audit"}
                             => x \in made'
  BY <1>1 DEF ServedInv, Past
<1>6. /\ x \in made => x \in Due /\ stage \in Past(x)
      /\ x \in Due /\ stage \in Past(x) /\ x \notin {"history", "audit"} => x \in made
  BY <1>2 DEF ServedInv
<1> QED
  BY <1>3, <1>4, <1>6

\* A run that ends with an error, or is killed, tells nothing by its code.
LEMMA EndKeepsEmission ==
    ASSUME EmissionInv, stage # "idle", NEW c, c \notin {0, 5}, End(c),
           UNCHANGED <<config, partial>>
    PROVE  EmissionInv'
<1>1. Due' = Due /\ made' = made /\ code' \notin {0, 5} /\ stage' = "idle"
  BY DueStays DEF End
<1> QED
  BY <1>1 DEF EmissionInv, ServedInv, StoreInv, DeliveryInv, CodeInv, ZeroMeansServed,
     StoreCostsHistoryOnly, AuditedMeansServed

\* An audit row is written last.
LEMMA AuditIsLast == ServedInv /\ stage # "idle" => AuditedMeansServed
<1> SUFFICES ASSUME ServedInv, stage # "idle", "audit" \in made
             PROVE  Due \ made \subseteq {"history"}
  BY DEF AuditedMeansServed
<1>1. stage = "exit"
  BY DEF ServedInv, Product, Past
<1>2. \A x \in Product : stage \in Past(x)
  BY <1>1 DEF Product, Past
<1> QED
  BY <1>2, DueIs DEF ServedInv

\* While a run is under way its code tells nothing, and an audit row is the last
\* thing it leaves.
LEMMA UnderWay ==
    ASSUME ServedInv', stage' # "idle"
    PROVE  CodeInv'
<1>1. (ServedInv /\ stage # "idle" => AuditedMeansServed)'
  BY AuditIsLast, PTL
<1> QED
  BY <1>1 DEF CodeInv, ZeroMeansServed, StoreCostsHistoryOnly

\* The stages between the two of the store leave its part alone.
LEMMA PassKeepsStore ==
    ASSUME StoreInv, NEW product \in Product \ {"history", "audit"}, NEW ok,
           Pass(product, ok), Makes(product, stage), UNCHANGED <<config, opened, storeError>>
    PROVE  StoreInv' /\ stage' \notin {"idle", "deliver"}
<1>1. stage \in Past("history") /\ stage' \in Past("history")
      /\ stage' \notin {"idle", "open", "reconcile", "scan", "deliver", "exit"}
      /\ stage \notin {"idle", "exit"}
  BY DEF Makes, Pass, NextStage, Past
<1>2. "history" \in made' <=> "history" \in made
  BY DEF Pass
<1> QED
  BY <1>1, <1>2 DEF StoreInv, UsesStore

\* So a stage between them keeps everything.
LEMMA PassKeepsEmission ==
    ASSUME EmissionInv, NEW product \in Product \ {"history", "audit"},
           NEW ok \in BOOLEAN, Pass(product, ok), Makes(product, stage),
           UNCHANGED <<config, partial, opened, storeError>>,
           ok <=> product \in Due
    PROVE  EmissionInv'
<1>1. ServedInv'
  BY PassKeepsServed DEF EmissionInv
<1>2. StoreInv' /\ stage' \notin {"idle", "deliver"}
  BY PassKeepsStore DEF EmissionInv
<1> QED
  BY <1>1, <1>2, UnderWay DEF EmissionInv, DeliveryInv

\* A step inside a stage keeps everything.
LEMMA StayKeepsEmission ==
    ASSUME EmissionInv, stage # "idle",
           UNCHANGED <<stage, config, partial, opened, storeError, made>>
    PROVE  EmissionInv'
<1>1. ServedInv'
  BY DueStays DEF EmissionInv, ServedInv, Past
<1>2. StoreInv'
  BY DEF EmissionInv, StoreInv, UsesStore, Past
<1> QED
  BY <1>1, <1>2, UnderWay DEF EmissionInv, DeliveryInv, UsesAlerts

\* The stages keep what the exit code and the audit row tell.
LEMMA EmitKeepsEmission ==
    ASSUME TypeOK, EmissionInv, Emit
    PROVE  EmissionInv'
<1>1. ASSUME NEW ok \in BOOLEAN, OpenStore(ok) PROVE EmissionInv'
  <2>1. stage = "open" /\ stage' = (IF ok THEN "reconcile" ELSE "report") /\ made' = made
        /\ opened' = ok /\ storeError' = ~ok /\ config' = config /\ partial' = partial
    BY <1>1 DEF OpenStore, NextStage
  <2>2. made = {}
    BY <2>1 DEF TypeOK, EmissionInv, ServedInv, Past, Product
  <2>3. ServedInv'
    BY <2>1, <2>2 DEF ServedInv, Past, Product
  <2>4. StoreInv'
    BY <2>1, <2>2 DEF EmissionInv, StoreInv, UsesStore, Past
  <2> QED
    BY <2>1, <2>3, <2>4, UnderWay DEF EmissionInv, DeliveryInv, UsesAlerts
<1>2. ASSUME NEW committed \in BOOLEAN, NEW ok \in BOOLEAN, Reconcile(committed, ok)
      PROVE  EmissionInv'
  <2>1. /\ stage = "reconcile" /\ Pass("history", ok) /\ storeError' = ~ok
        /\ UNCHANGED <<config, partial, opened>>
    BY <1>2 DEF Reconcile
  <2>2. UsesStore(config) /\ opened
    BY <2>1 DEF EmissionInv, StoreInv
  <2>3. ServedInv'
    BY <2>1, <2>2, DueIs, PassKeepsServed DEF EmissionInv, Makes, Product
  <2>4. stage' = "report" /\ made' = (IF ok THEN made \cup {"history"} ELSE made)
        /\ "history" \notin made
    BY <2>1 DEF Pass, NextStage, EmissionInv, ServedInv, Past, Product
  <2>5. StoreInv'
    BY <2>1, <2>2, <2>4 DEF EmissionInv, StoreInv, UsesStore, Past
  <2> QED
    BY <2>3, <2>4, <2>5, UnderWay DEF EmissionInv, DeliveryInv, UsesAlerts
<1>3. ASSUME FinishReports PROVE EmissionInv'
  BY <1>3, PassKeepsEmission, DueIs DEF FinishReports, storeVars, Makes, Product
<1>4. ASSUME SkipReports PROVE EmissionInv'
  BY <1>4, PassKeepsEmission, DueIs DEF SkipReports, storeVars, Makes, Product
<1>5. ASSUME ReportsFail PROVE EmissionInv'
  BY <1>5, EndKeepsEmission DEF ReportsFail
<1>6. ASSUME NEW ok \in BOOLEAN, WriteMetrics(ok) PROVE EmissionInv'
  <2>1. CASE ok
    <3>1. UsesMetrics(config) \in BOOLEAN
      BY DEF UsesMetrics
    <3> QED
      BY <1>6, <2>1, <3>1, PassKeepsEmission, DueIs
      DEF WriteMetrics, storeVars, Makes, Product
  <2>2. CASE ~ok
    BY <1>6, <2>2, EndKeepsEmission DEF WriteMetrics
  <2> QED
    BY <2>1, <2>2
<1>7. ASSUME NEW f \in FormatNames, WriteReport(f) PROVE EmissionInv'
  BY <1>7, StayKeepsEmission DEF WriteReport, storeVars
<1>8. ASSUME SkipAlerts PROVE EmissionInv'
  BY <1>8, PassKeepsEmission, DueIs DEF SkipAlerts, storeVars, Makes, Product
<1>9. ASSUME NEW readable \in BOOLEAN, AlertsFail(readable) PROVE EmissionInv'
  BY <1>9, EndKeepsEmission DEF AlertsFail
<1>10. ASSUME StartDelivery PROVE EmissionInv'
  <2>1. stage = "alerts" /\ stage' = "deliver" /\ UsesAlerts(config)
        /\ UNCHANGED <<config, partial, opened, storeError, made>>
    BY <1>10 DEF StartDelivery, storeVars
  <2>2. \A x \in Product : stage' \in Past(x) <=> stage \in Past(x)
    BY <2>1 DEF Past, Product
  <2>3. ServedInv'
    BY <2>1, <2>2, DueStays DEF EmissionInv, ServedInv, Past
  <2>4. StoreInv'
    BY <2>1 DEF EmissionInv, StoreInv, UsesStore, Past
  <2> QED
    BY <2>1, <2>3, <2>4, UnderWay DEF EmissionInv, DeliveryInv, UsesAlerts
<1>11. ASSUME NEW ch \in ChannelNames, NEW ok \in BOOLEAN, Deliver(ch, ok)
       PROVE  EmissionInv'
  BY <1>11, StayKeepsEmission DEF Deliver, storeVars
<1>12. ASSUME FinishDelivery PROVE EmissionInv'
  <2>1. UsesAlerts(config)
    BY <1>12 DEF FinishDelivery, EmissionInv, DeliveryInv
  <2> QED
    BY <1>12, <2>1, PassKeepsEmission, DueIs DEF FinishDelivery, storeVars, Makes, Product
<1>13. ASSUME WriteCheckpoint PROVE EmissionInv'
  <2>1. MovesBaseline \in BOOLEAN
    BY ConfigTypes DEF TypeOK, MovesBaseline
  <2> QED
    BY <1>13, <2>1, PassKeepsEmission, DueIs DEF WriteCheckpoint, storeVars, Makes, Product
<1>14. ASSUME NEW c \in {4, 255}, NEW torn \in BOOLEAN, CheckpointFails(c, torn)
       PROVE  EmissionInv'
  BY <1>14, EndKeepsEmission DEF CheckpointFails
<1>15. ASSUME NEW ok \in BOOLEAN, RecordScan(ok) PROVE EmissionInv'
  <2>1. /\ stage = "record" /\ Pass("audit", opened /\ ok)
        /\ storeError' = (storeError \/ ~ok) /\ (~ok => opened)
        /\ UNCHANGED <<config, partial, opened>>
    BY <1>15 DEF RecordScan
  <2>2. opened => UsesStore(config)
    BY <2>1 DEF EmissionInv, StoreInv
  <2>3. ServedInv'
    <3>1. (opened /\ ok) \in BOOLEAN
      BY Zenon
    <3>2. (opened /\ ok) => "audit" \in Due
      BY <2>2, DueIs
    <3> QED
      BY <2>1, <3>1, <3>2, PassKeepsServed DEF EmissionInv, Makes, Product
  <2>4. stage' = "exit" /\ made' = (IF opened /\ ok THEN made \cup {"audit"} ELSE made)
        /\ "audit" \notin made /\ ("history" \in made' <=> "history" \in made)
    BY <2>1 DEF Pass, NextStage, EmissionInv, ServedInv, Past, Product
  <2>5. StoreInv'
    BY <2>1, <2>2, <2>4 DEF TypeOK, EmissionInv, StoreInv, UsesStore, Past
  <2> QED
    BY <2>3, <2>4, <2>5, UnderWay DEF EmissionInv, DeliveryInv, UsesAlerts
<1>16. ASSUME Exit PROVE EmissionInv'
  <2>1. /\ stage = "exit" /\ stage' = "idle" /\ code' = ExitCode /\ made' = made
        /\ UNCHANGED <<config, partial>>
    BY <1>16 DEF Exit, End
  <2>2. Due' = Due /\ \A x \in Product : stage \in Past(x)
    BY <2>1, DueStays DEF Past, Product
  <2>3. \A x \in Product \ {"history", "audit"} : x \in Due <=> x \in made
    BY <2>1, <2>2 DEF EmissionInv, ServedInv
  <2>4. made \subseteq Due /\ Due \subseteq Product
    BY <2>1, DueIs DEF EmissionInv, ServedInv, TypeOK
  <2>5. ZeroMeansServed'
    <3>1. SUFFICES ASSUME ~storeError PROVE made = Due
      BY <2>1, <2>2 DEF ZeroMeansServed, ExitCode
    <3>2. UsesStore(config) => "history" \in made /\ "audit" \in made
      BY <2>1, <3>1 DEF EmissionInv, StoreInv, Past
    <3> QED
      BY <2>3, <2>4, <3>2, DueIs
  <2>6. StoreCostsHistoryOnly'
    <3>1. SUFFICES ASSUME storeError
                   PROVE  Due \ made \subseteq {"history", "audit"} /\ Due \ made # {}
      BY <2>1, <2>2 DEF StoreCostsHistoryOnly, ExitCode
    <3>2. UsesStore(config) /\ ("history" \notin made \/ "audit" \notin made)
      BY <2>1, <3>1 DEF EmissionInv, StoreInv
    <3> QED
      BY <2>3, <2>4, <3>2, DueIs
  <2>7. AuditedMeansServed'
    BY <2>1, <2>2, AuditIsLast DEF EmissionInv, AuditedMeansServed
  <2> QED
    BY <2>1, <2>5, <2>6, <2>7 DEF EmissionInv, DeliveryInv, CodeInv, ServedInv, StoreInv
<1> QED
  BY <1>1, <1>2, <1>3, <1>4, <1>5, <1>6, <1>7, <1>8, <1>9, <1>10, <1>11, <1>12, <1>13,
     <1>14, <1>15, <1>16 DEF Emit

\* Every step keeps what the exit code and the audit row tell.
LEMMA NextKeepsEmission ==
    ASSUME TypeOK, EmissionInv, [Next]_vars
    PROVE  EmissionInv'
<1>1. ASSUME NEW i \in Issues, Update(i) PROVE EmissionInv'
  <2>1. UNCHANGED <<stage, config, partial, opened, storeError, made, code>>
    BY <1>1 DEF Update, storeVars
  <2>2. CASE stage # "idle"
    BY <2>1, <2>2, StayKeepsEmission
  <2>3. CASE stage = "idle"
    BY <2>1, <2>3, DueStays DEF EmissionInv, ServedInv, StoreInv, DeliveryInv, CodeInv,
       ZeroMeansServed, StoreCostsHistoryOnly, AuditedMeansServed
  <2> QED
    BY <2>2, <2>3
<1>2. ASSUME NEW c \in Configs, Start(c) PROVE EmissionInv'
  <2>1. stage' = "scan" /\ made' = {} /\ ~opened' /\ ~storeError'
    BY <1>2 DEF Start
  <2>2. ServedInv'
    BY <2>1 DEF ServedInv, Past, Product
  <2>3. StoreInv' /\ DeliveryInv'
    BY <2>1 DEF StoreInv, DeliveryInv, Past
  <2> QED
    BY <2>1, <2>2, <2>3, UnderWay DEF EmissionInv
<1>3. ASSUME NEW c \in Configs, Refuse(c) PROVE EmissionInv'
  <2>1. stage' = "idle" /\ made' = {} /\ code' = 1
    BY <1>3 DEF Refuse
  <2> QED
    BY <2>1 DEF EmissionInv, ServedInv, StoreInv, DeliveryInv, CodeInv, ZeroMeansServed,
       StoreCostsHistoryOnly, AuditedMeansServed
<1>4. ASSUME NEW i \in Issues, NEW how, ReadIssue(i, how) PROVE EmissionInv'
  <2>1. stage = "scan" /\ UNCHANGED <<stage, config, opened, storeError, made>>
    BY <1>4 DEF ReadIssue, storeVars
  <2>2. made = {}
    BY <2>1 DEF EmissionInv, ServedInv, Past, Product, TypeOK
  <2>3. ServedInv' /\ StoreInv' /\ DeliveryInv'
    BY <2>1, <2>2 DEF EmissionInv, ServedInv, StoreInv, DeliveryInv, Past, Product
  <2> QED
    BY <2>1, <2>3, UnderWay DEF EmissionInv
<1>5. ASSUME Cancel PROVE EmissionInv'
  <2>1. /\ stage \in {"scan", "open", "reconcile"}
        /\ UNCHANGED <<stage, config, opened, storeError, made>>
    BY <1>5 DEF Cancel, storeVars
  <2>2. made = {}
    BY <2>1 DEF EmissionInv, ServedInv, Past, Product, TypeOK
  <2>3. ServedInv'
    BY <2>1, <2>2 DEF ServedInv, Past, Product
  <2>4. StoreInv' /\ DeliveryInv'
    BY <2>1, <2>2 DEF EmissionInv, StoreInv, DeliveryInv, UsesStore, Past
  <2> QED
    BY <2>1, <2>3, <2>4, UnderWay DEF EmissionInv
<1>6. ASSUME EndScan PROVE EmissionInv'
  <2>1. /\ stage = "scan" /\ stage' = (IF UsesStore(config) THEN "open" ELSE "report")
        /\ UNCHANGED <<config, partial, opened, storeError, made>>
    BY <1>6 DEF EndScan, NextStage, storeVars
  <2>2. made = {} /\ ~opened /\ ~storeError
    BY <2>1 DEF EmissionInv, ServedInv, StoreInv, Past, Product, TypeOK
  <2>3. ServedInv'
    <3>1. \A x \in Product : x \in Due /\ stage' \in Past(x) => x \in {"history", "audit"}
      BY <2>1, DueIs DEF Past, Product
    <3> QED
      BY <2>1, <2>2, <3>1, DueStays DEF ServedInv, Past
  <2>4. StoreInv' /\ DeliveryInv'
    BY <2>1, <2>2 DEF EmissionInv, StoreInv, DeliveryInv, UsesStore, Past
  <2> QED
    BY <2>1, <2>3, <2>4, UnderWay DEF EmissionInv
<1>7. ASSUME NEW c \in {1, 2, 3}, FetchFails(c) PROVE EmissionInv'
  BY <1>7, EndKeepsEmission DEF FetchFails
<1>8. CASE Emit
  BY <1>8, EmitKeepsEmission
<1>9. CASE Crash
  BY <1>9, EndKeepsEmission DEF Crash
<1>10. CASE UNCHANGED vars
  <2>1. UNCHANGED <<stage, config, partial, opened, storeError, made, code>>
    BY <1>10 DEF vars
  <2> QED
    BY <2>1, DueStays DEF EmissionInv, ServedInv, StoreInv, DeliveryInv, CodeInv,
       ZeroMeansServed, StoreCostsHistoryOnly, AuditedMeansServed, UsesStore, UsesAlerts,
       Past
<1> QED
  BY <1>1, <1>2, <1>3, <1>4, <1>5, <1>6, <1>7, <1>8, <1>9, <1>10 DEF Next

\* For every way in which stages fail and processes die.
LEMMA EmissionAlways == Spec => []EmissionInv
<1>1. Init => EmissionInv
  BY DEF Init, EmissionInv, ServedInv, StoreInv, DeliveryInv, CodeInv, ZeroMeansServed,
     StoreCostsHistoryOnly, AuditedMeansServed
<1>2. TypeOK /\ EmissionInv /\ [Next]_vars => EmissionInv'
  BY NextKeepsEmission
<1> QED
  BY <1>1, <1>2, TypeCorrect, PTL DEF Spec

\* A run that exits with 0 has served every consumer that was configured, and no
\* other (error.rs:59, pipeline.rs:372).
THEOREM SuccessIsTrue == Spec => []ZeroMeansServed
<1>1. EmissionInv => ZeroMeansServed
  BY DEF EmissionInv, CodeInv
<1> QED
  BY <1>1, EmissionAlways, PTL

\* Exit code 5 means that nothing but the history and the audit row is missing, and
\* that one of them is (pipeline.rs:212-230).
THEOREM StoreFailureIsContained == Spec => []StoreCostsHistoryOnly
<1>1. EmissionInv => StoreCostsHistoryOnly
  BY DEF EmissionInv, CodeInv
<1> QED
  BY <1>1, EmissionAlways, PTL

\* A row of the audit table stands for a run whose consumers were all served
\* (pipeline.rs:353-363).
THEOREM AuditedIsServed == Spec => []AuditedMeansServed
<1>1. EmissionInv => AuditedMeansServed
  BY DEF EmissionInv, CodeInv
<1> QED
  BY <1>1, EmissionAlways, PTL

-----------------------------------------------------------------------------
(***************************************************************************)
(* What is shown: the documents, the closings and the messages.            *)
(***************************************************************************)

\* Documents are written at the report stage, in the formats that were asked for,
\* and past it there is one in each of them.
WrittenInv ==
    /\ stage \in {"idle", "scan", "open", "reconcile"} => written = {}
    /\ stage \in Past("report") /\ ~config.dryRun => written = Selected(config.format)

\* Closings are owed until the reports show them.
OwedInv ==
    stage # "idle" =>
        /\ stage \in {"scan", "open", "reconcile"} => owed = {}
        /\ stage = "report" /\ ~storeError => owed \subseteq closed
        /\ stage \in Past("report") /\ ~storeError /\ ~config.dryRun => owed = {}

\* Messages are delivered past the reports, and list what was found or closed.
AlertedInv ==
    /\ stage \notin {"deliver", "checkpoint", "record", "exit"} => alerted = {}
    /\ alerted \subseteq found \cup closed

ShownInv == WrittenInv /\ OwedInv /\ AlertedInv /\ ClosingsShown

\* A run that ends with an error, or is killed, leaves its promises unmade.
LEMMA EndKeepsShown ==
    ASSUME NEW c, c # 0, End(c)
    PROVE  ShownInv'
BY DEF ShownInv, WrittenInv, OwedInv, AlertedInv, ClosingsShown, End, Past

\* A stage past the reports that is passed keeps what is shown.
LEMMA PassKeepsShown ==
    ASSUME ShownInv, NEW product \in Product, NEW ok, Pass(product, ok),
           Makes(product, stage), stage \in Past("report"),
           storeError => storeError', UNCHANGED <<config, written, alerted, closed, owed>>
    PROVE  ShownInv'
<1>1. /\ stage' \in Past("report") /\ stage \notin {"idle", "report"}
      /\ stage' \notin {"idle", "scan", "open", "reconcile", "report"}
      /\ stage \in {"deliver", "checkpoint", "record", "exit"}
             => stage' \in {"checkpoint", "record", "exit"}
  BY DEF Makes, Pass, NextStage, Past
<1>2. found' = found
  BY DEF Pass, scanVars
<1> QED
  BY <1>1, <1>2 DEF ShownInv, WrittenInv, OwedInv, AlertedInv, ClosingsShown

\* The stages keep what is shown.
LEMMA EmitKeepsShown ==
    ASSUME TypeOK, ShownInv, Emit
    PROVE  ShownInv'
<1>1. ASSUME NEW ok \in BOOLEAN, OpenStore(ok) PROVE ShownInv'
  <2>1. /\ stage = "open" /\ stage' \in {"reconcile", "report"}
        /\ stage' = "report" => storeError'
        /\ UNCHANGED <<config, written, alerted, closed, owed, found>>
    BY <1>1 DEF OpenStore, NextStage, outputVars, scanVars
  <2> QED
    BY <2>1 DEF ShownInv, WrittenInv, OwedInv, AlertedInv, ClosingsShown, Past
<1>2. ASSUME NEW committed \in BOOLEAN, NEW ok \in BOOLEAN, Reconcile(committed, ok)
      PROVE  ShownInv'
  <2>1. /\ stage = "reconcile" /\ stage' = "report"
        /\ ~storeError' => owed' \subseteq closed'
        /\ UNCHANGED <<config, written, alerted, found>>
    BY <1>2 DEF Reconcile, Pass, NextStage, outputVars, scanVars
  <2>2. written = {} /\ alerted = {}
    BY <2>1 DEF ShownInv, WrittenInv, AlertedInv
  <2> QED
    BY <2>1, <2>2 DEF ShownInv, WrittenInv, OwedInv, AlertedInv, ClosingsShown, Past
<1>3. ASSUME FinishReports PROVE ShownInv'
  <2>1. /\ stage = "report" /\ stage' = "metrics" /\ written = Selected(config.format)
        /\ UNCHANGED <<config, written, alerted, found, closed, storeError>>
    BY <1>3 DEF FinishReports, Pass, NextStage, outputVars, scanVars, storeVars
  <2>2. ~storeError => owed' = {}
    BY <1>3, <2>1, DocumentsShow DEF FinishReports, ShownInv, OwedInv
  <2> QED
    BY <2>1, <2>2 DEF ShownInv, WrittenInv, OwedInv, AlertedInv, ClosingsShown, Past
<1>4. ASSUME SkipReports PROVE ShownInv'
  <2>1. /\ stage = "report" /\ stage' = "metrics" /\ config.dryRun
        /\ UNCHANGED <<config, written, alerted, found, closed, storeError>>
    BY <1>4 DEF SkipReports, Pass, NextStage, outputVars, scanVars, storeVars
  <2> QED
    BY <2>1 DEF ShownInv, WrittenInv, OwedInv, AlertedInv, ClosingsShown, Past
<1>5. ASSUME ReportsFail PROVE ShownInv'
  BY <1>5, EndKeepsShown DEF ReportsFail
<1>6. ASSUME NEW ok \in BOOLEAN, WriteMetrics(ok) PROVE ShownInv'
  <2>1. CASE ok
    BY <1>6, <2>1, PassKeepsShown DEF WriteMetrics, storeVars, outputVars, Makes, Product, Past
  <2>2. CASE ~ok
    BY <1>6, <2>2, EndKeepsShown DEF WriteMetrics
  <2> QED
    BY <2>1, <2>2
<1>7. ASSUME NEW f \in FormatNames, WriteReport(f) PROVE ShownInv'
  <2>1. /\ stage = "report" /\ stage' = "report"
        /\ UNCHANGED <<config, alerted, found, closed, storeError, owed>>
    BY <1>7 DEF WriteReport, scanVars, storeVars
  <2> QED
    BY <2>1 DEF ShownInv, WrittenInv, OwedInv, AlertedInv, ClosingsShown, Past
<1>8. ASSUME SkipAlerts PROVE ShownInv'
  BY <1>8, PassKeepsShown DEF SkipAlerts, storeVars, outputVars, Makes, Product, Past
<1>9. ASSUME NEW readable \in BOOLEAN, AlertsFail(readable) PROVE ShownInv'
  BY <1>9, EndKeepsShown DEF AlertsFail
<1>10. ASSUME StartDelivery PROVE ShownInv'
  <2>1. /\ stage = "alerts" /\ stage' = "deliver"
        /\ UNCHANGED <<config, written, alerted, found, closed, storeError, owed>>
    BY <1>10 DEF StartDelivery, scanVars, storeVars
  <2> QED
    BY <2>1 DEF ShownInv, WrittenInv, OwedInv, AlertedInv, ClosingsShown, Past
<1>11. ASSUME NEW ch \in ChannelNames, NEW ok \in BOOLEAN, Deliver(ch, ok)
       PROVE  ShownInv'
  <2>1. PICK message \in Messages(ch, Findings, config.alerts.minConfidence) :
            alerted' = IF ok THEN alerted \cup {x.issue : x \in message} ELSE alerted
    BY <1>11 DEF Deliver
  <2>2. \A x \in message : x.issue \in found \cup closed
    BY <2>1, MessagesAboveThreshold, FindingsOfIssues
  <2>3. /\ stage = "deliver" /\ stage' = "deliver"
        /\ UNCHANGED <<config, written, found, closed, storeError, owed>>
    BY <1>11 DEF Deliver, scanVars, storeVars
  <2>4. alerted' \subseteq found \cup closed
    BY <2>1, <2>2 DEF ShownInv, AlertedInv
  <2> QED
    BY <2>3, <2>4 DEF ShownInv, WrittenInv, OwedInv, AlertedInv, ClosingsShown, Past
<1>12. ASSUME FinishDelivery PROVE ShownInv'
  BY <1>12, PassKeepsShown DEF FinishDelivery, storeVars, outputVars, Makes, Product, Past
<1>13. ASSUME WriteCheckpoint PROVE ShownInv'
  BY <1>13, PassKeepsShown DEF WriteCheckpoint, storeVars, outputVars, Makes, Product, Past
<1>14. ASSUME NEW c \in {4, 255}, NEW torn \in BOOLEAN, CheckpointFails(c, torn)
       PROVE  ShownInv'
  BY <1>14, EndKeepsShown DEF CheckpointFails
<1>15. ASSUME NEW ok \in BOOLEAN, RecordScan(ok) PROVE ShownInv'
  BY <1>15, PassKeepsShown DEF RecordScan, outputVars, Makes, Product, Past
<1>16. ASSUME Exit PROVE ShownInv'
  <2>1. /\ stage = "exit" /\ stage' = "idle" /\ code' = ExitCode
        /\ written' = {} /\ alerted' = {} /\ UNCHANGED <<config, storeError, owed>>
    BY <1>16 DEF Exit, End, storeVars
  <2>2. ~storeError /\ ~config.dryRun => owed = {}
    BY <2>1 DEF ShownInv, OwedInv, Past
  <2> QED
    BY <2>1, <2>2 DEF ShownInv, WrittenInv, OwedInv, AlertedInv, ClosingsShown, ExitCode, Past
<1> QED
  BY <1>1, <1>2, <1>3, <1>4, <1>5, <1>6, <1>7, <1>8, <1>9, <1>10, <1>11, <1>12, <1>13,
     <1>14, <1>15, <1>16 DEF Emit

\* Every step keeps what is shown.
LEMMA NextKeepsShown ==
    ASSUME TypeOK, ShownInv, [Next]_vars
    PROVE  ShownInv'
<1> USE DEF ShownInv, WrittenInv, OwedInv, AlertedInv, ClosingsShown, Past
<1>1. ASSUME NEW i \in Issues, Update(i) PROVE ShownInv'
  BY <1>1 DEF Update, storeVars, outputVars
<1>2. ASSUME NEW c \in Configs, Start(c) PROVE ShownInv'
  BY <1>2 DEF Start, outputVars
<1>3. ASSUME NEW c \in Configs, Refuse(c) PROVE ShownInv'
  BY <1>3 DEF Refuse, storeVars, outputVars, scanVars
<1>4. ASSUME NEW i \in Issues, NEW how, ReadIssue(i, how) PROVE ShownInv'
  BY <1>4 DEF ReadIssue, storeVars, outputVars
<1>5. ASSUME Cancel PROVE ShownInv'
  BY <1>5 DEF Cancel, scanVars, storeVars, outputVars
<1>6. ASSUME EndScan PROVE ShownInv'
  BY <1>6 DEF EndScan, NextStage, storeVars, outputVars, scanVars
<1>7. ASSUME NEW c \in {1, 2, 3}, FetchFails(c) PROVE ShownInv'
  BY <1>7, EndKeepsShown DEF FetchFails
<1>8. CASE Emit
  BY <1>8, EmitKeepsShown
<1>9. CASE Crash
  BY <1>9, EndKeepsShown DEF Crash
<1>10. CASE UNCHANGED vars
  BY <1>10 DEF vars
<1> QED
  BY <1>1, <1>2, <1>3, <1>4, <1>5, <1>6, <1>7, <1>8, <1>9, <1>10 DEF Next

\* For every way in which stages fail and processes die.
LEMMA ShownAlways == Spec => []ShownInv
<1>1. Init => ShownInv
  BY DEF Init, ShownInv, WrittenInv, OwedInv, AlertedInv, ClosingsShown, Past
<1>2. TypeOK /\ ShownInv /\ [Next]_vars => ShownInv'
  BY NextKeepsShown
<1> QED
  BY <1>1, <1>2, TypeCorrect, PTL DEF Spec

\* A run that exits with 0 has shown every row it closed as settled in every document
\* it was asked for (pipeline.rs:244-263, 326-329).
THEOREM ClosingsAreShown == Spec => []ClosingsShown
<1>1. ShownInv => ClosingsShown
  BY DEF ShownInv
<1> QED
  BY <1>1, ShownAlways, PTL

\* A failure or a signal always reaches the documents: where one says that its run
\* was a success, every issue that was selected and has not changed since was read, or
\* is one the run went on without and counted no error for (README.md:454, sarif.rs:77).
THEOREM SuccessIsComplete == Spec => []NoFalseAllClear
<1>1. TypeOK /\ SettledInv /\ ShownInv => NoFalseAllClear
  <2> SUFFICES ASSUME TypeOK, SettledInv, ShownInv,
                      NEW f \in written, DocumentOf(f).claim = "Success"
               PROVE  plan \cap unseen \subseteq fresh \cup gaps
    BY DEF NoFalseAllClear
  <2>1. f \in FormatNames
    BY DEF TypeOK
  <2>2. ~partial
    BY <2>1, OnlyTrueClaims DEF DocumentOf, RunStatus
  <2>3. plan \ scanned \subseteq gaps
    BY <2>2 DEF ShownInv, WrittenInv, SettledInv, CompleteInv
  <2> QED
    BY <2>2, <2>3 DEF SettledInv, AttemptedInv
<1> QED
  BY <1>1, TypeCorrect, SettledAlways, ShownAlways, PTL

\* Where every read is whole and no search is cut, a document that says its run was a
\* success speaks of every selected issue (README.md:454).
THEOREM SuccessIsCompleteWithoutGaps ==
    Spec /\ [](gaps = {}) =>
        [](\A f \in written :
              DocumentOf(f).claim = "Success" => plan \cap unseen \subseteq fresh)
<1>1. NoFalseAllClear /\ gaps = {} =>
          \A f \in written :
              DocumentOf(f).claim = "Success" => plan \cap unseen \subseteq fresh
  BY DEF NoFalseAllClear
<1> QED
  BY <1>1, SuccessIsComplete, PTL

\* Whoever is alerted of a finding finds it in every document the run was asked for
\* (slack.rs:12, pipeline.rs:326-339).
THEOREM AlertsLinkToReports == Spec => []AlertsFollowReports
<1>1. TypeOK /\ ShownInv => AlertsFollowReports
  <2> SUFFICES ASSUME TypeOK, ShownInv, ~config.dryRun,
                      NEW i \in alerted, NEW f \in Selected(config.format)
               PROVE  /\ f \in written
                      /\ \E x \in DocumentOf(f).leaks \cup DocumentOf(f).settled :
                             x.issue = i
    BY DEF AlertsFollowReports
  <2>1. stage \in {"deliver", "checkpoint", "record", "exit"}
    BY DEF ShownInv, AlertedInv
  <2>2. f \in written
    BY <2>1 DEF ShownInv, WrittenInv, Past
  <2>3. i \in found \cup closed
    BY DEF ShownInv, AlertedInv
  <2>4. \E x \in DocumentOf(f).leaks \cup DocumentOf(f).settled : x.issue = i
    BY <2>3, DocumentsShow DEF ShownAsLeak, ShownAsSettled
  <2> QED
    BY <2>2, <2>4
<1> QED
  BY <1>1, TypeCorrect, ShownAlways, PTL
=============================================================================
