---------------------------- MODULE FindingsStore ----------------------------
(***************************************************************************)
(* The persistent findings table and its reconciliation with what a scan   *)
(* found (src/src/store.rs, src/src/dedup.rs, src/src/finding.rs).         *)
(*                                                                         *)
(* A leak is a secret in a field of an issue.  A secret stands for a pair  *)
(* (secret_hash, rule_id); a row belongs to a site, a secret in an issue,  *)
(* which is what FindingKey::fingerprint hashes.  Leaks appear in Jira and *)
(* disappear while scans run.  A scan reads issues one by one, merges what *)
(* it found, and reconciles it with the table in one transaction that      *)
(* reads the rows of the scanned issues and then closes and upserts rows   *)
(* by what it read.  Any number of scanner processes may share the table.  *)
(***************************************************************************)
EXTENDS Integers, FiniteSets, FiniteSetsExt

CONSTANTS
    Secrets,       \* pairs of a secret hash and a rule
    Issues,        \* issue keys
    Fields,        \* field paths of an issue, the same for every issue
    Scanners,      \* processes that share the database
    Serializable,  \* TRUE: SQLite, which refuses to commit a transaction whose
                   \* snapshot is stale; FALSE: PostgreSQL, READ COMMITTED
    ReadsMayFail,  \* comments, attachments or the task of an issue may fail
    MaxClock,      \* bound on the clock
    NoRow          \* no row of the table

ASSUME StoreAssumption ==
    /\ MaxClock \in Nat \ {0}
    /\ Serializable \in BOOLEAN /\ ReadsMayFail \in BOOLEAN
    /\ IsFiniteSet(Secrets) /\ IsFiniteSet(Issues) /\ IsFiniteSet(Fields)

Sites == Secrets \X Issues
Leaks == Secrets \X Issues \X Fields
Times == 0..MaxClock

Row == [status : {"new", "recurring", "closed"},
        firstSeen : Times, lastSeen : Times,
        closedAt : Times,           \* 0 for NULL
        timesSeen : Nat \ {0}]

\* What the ledger keeps of a row.
LedgerEntry == [open : BOOLEAN, firstSeen : Times]

ASSUME NoRowAssumption == NoRow \notin Row \cup LedgerEntry

VARIABLES
    clock,
    world,         \* the leaks that are in Jira now
    rows,          \* the findings table
    pc,            \* per scanner: where its run stands
    started,       \* per scanner: scan_started_at
    now,           \* per scanner: the `now` of its reconcile
    scanned,       \* per scanner: scanned_issue_keys
    current,       \* per scanner: the locations of its merged findings
    stored,        \* per scanner: stored_by_fp, the rows its transaction read
    fresh,         \* per scanner: nobody has committed since its read
    report,        \* per scanner: what reconcile returned
    present,       \* history, per scanner: the leaks that were in the issues
                   \* when it read them
    observed       \* history: the issues read and the sites seen by the scan
                   \* that committed last; the program keeps neither history

scanVars == <<started, scanned, current, present>>
txVars == <<now, stored, fresh, report, observed>>
vars == <<clock, world, rows, pc, started, now, scanned, current, stored,
          fresh, report, present, observed>>

SiteOf(leak) == <<leak[1], leak[2]>>
NoRows == [k \in Sites |-> NoRow]
NoReport == [found |-> [s \in Secrets |-> NoRow], closed |-> {}]

Init ==
    /\ clock = 1
    /\ world = {}
    /\ rows = NoRows
    /\ pc = [p \in Scanners |-> "idle"]
    /\ started = [p \in Scanners |-> 0]
    /\ now = [p \in Scanners |-> 0]
    /\ scanned = [p \in Scanners |-> {}]
    /\ current = [p \in Scanners |-> {}]
    /\ present = [p \in Scanners |-> {}]
    /\ stored = [p \in Scanners |-> NoRows]
    /\ fresh = [p \in Scanners |-> FALSE]
    /\ report = [p \in Scanners |-> NoReport]
    /\ observed = [issues |-> {}, seen |-> {}]

-----------------------------------------------------------------------------
(* Jira and the scan.                                                      *)

\* Somebody pastes a secret into a field of an issue, or removes one.
Edit(leak) ==
    /\ world' = IF leak \in world THEN world \ {leak} ELSE world \cup {leak}
    /\ UNCHANGED <<clock, rows, pc, scanVars, txVars>>

Start(p) ==
    /\ pc[p] \in {"idle", "done"}
    /\ clock < MaxClock
    /\ clock' = clock + 1
    /\ started' = [started EXCEPT ![p] = clock']
    /\ scanned' = [scanned EXCEPT ![p] = {}]
    /\ current' = [current EXCEPT ![p] = {}]
    /\ present' = [present EXCEPT ![p] = {}]
    /\ stored' = [stored EXCEPT ![p] = NoRows]
    /\ report' = [report EXCEPT ![p] = NoReport]
    /\ pc' = [pc EXCEPT ![p] = "scan"]
    /\ UNCHANGED <<world, rows, now, fresh, observed>>

LeaksIn(issue) == {leak \in world : leak[2] = issue}

\* Mutant: the findings of an issue replace those of the issues before it.
MergedReplacing(p, got) == got
\* What an issue gives is merged with what was found before: one finding per
\* secret, one location per field and issue.
Merged(p, got) == current[p] \cup got

\* An issue counts as scanned from the moment its task is spawned, whatever
\* its task then gets to read of it.
ScanIssue(p, issue, got) ==
    /\ pc[p] = "scan"
    /\ issue \notin scanned[p]
    /\ got \subseteq LeaksIn(issue)
    /\ ~ReadsMayFail => got = LeaksIn(issue)
    /\ scanned' = [scanned EXCEPT ![p] = @ \cup {issue}]
    /\ current' = [current EXCEPT ![p] = Merged(p, got)]
    /\ present' = [present EXCEPT ![p] = @ \cup LeaksIn(issue)]
    /\ UNCHANGED <<clock, world, rows, pc, started, txVars>>

\* reconcile is called: it takes the time before it opens its transaction.
Begin(p) ==
    /\ pc[p] = "scan"
    /\ clock < MaxClock
    /\ clock' = clock + 1
    /\ now' = [now EXCEPT ![p] = clock']
    /\ pc' = [pc EXCEPT ![p] = "begun"]
    /\ UNCHANGED <<world, rows, scanVars, stored, fresh, report, observed>>

\* The transaction reads the rows of the scanned issues.
Read(p) ==
    /\ pc[p] = "begun"
    /\ stored' = [stored EXCEPT ![p] = [k \in Sites |->
                     IF k[2] \in scanned[p] THEN rows[k] ELSE NoRow]]
    /\ fresh' = [fresh EXCEPT ![p] = TRUE]
    /\ pc' = [pc EXCEPT ![p] = "read"]
    /\ UNCHANGED <<clock, world, rows, scanVars, now, report, observed>>

-----------------------------------------------------------------------------
(* The writes of the transaction, and the findings it returns.             *)

CurrentSites(p) == {SiteOf(leak) : leak \in current[p]}

\* The merged findings and their locations; a secret with no location has none.
Located(p, s) == {leak \in current[p] : leak[1] = s}
Found(p) == {leak[1] : leak \in current[p]}

\* Mutant: rows of issues the scan never read are closed too.
ClosableAnywhere(p) ==
    {k \in Sites : rows[k] # NoRow /\ rows[k].status # "closed"} \ CurrentSites(p)
\* Rows that were read, are not closed, and were not found again.
Closable(p) ==
    {k \in Sites : stored[p][k] # NoRow /\ stored[p][k].status # "closed"}
        \ CurrentSites(p)

\* Mutant: a row is closed under another name.
CloseAsResolved(row, t) == [row EXCEPT !.status = "resolved", !.closedAt = t, !.lastSeen = t]
Close(row, t) == [row EXCEPT !.status = "closed", !.closedAt = t, !.lastSeen = t]

\* Mutant: reopening a row starts its history anew.
UpsertResettingFirstSeen(p, k) ==
    LET n == Cardinality({leak \in current[p] : SiteOf(leak) = k})
    IN  IF rows[k] = NoRow
        THEN [status |-> IF n > 1 THEN "recurring" ELSE "new",
              firstSeen |-> now[p], lastSeen |-> now[p], closedAt |-> 0,
              timesSeen |-> n]
        ELSE [status |-> "recurring", firstSeen |-> now[p], lastSeen |-> now[p],
              closedAt |-> 0, timesSeen |-> rows[k].timesSeen + n]
\* Mutant: reopening a row forgets to clear closed_at.
UpsertKeepingClosedAt(p, k) ==
    LET n == Cardinality({leak \in current[p] : SiteOf(leak) = k})
    IN  IF rows[k] = NoRow
        THEN [status |-> IF n > 1 THEN "recurring" ELSE "new",
              firstSeen |-> now[p], lastSeen |-> now[p], closedAt |-> 0,
              timesSeen |-> n]
        ELSE [rows[k] EXCEPT !.status = "recurring", !.lastSeen = now[p],
                             !.timesSeen = @ + n]
\* INSERT .. ON CONFLICT DO UPDATE, run once per location: the second location
\* of a site finds the row its first one inserted.
Upsert(p, k) ==
    LET n == Cardinality({leak \in current[p] : SiteOf(leak) = k})
    IN  IF rows[k] = NoRow
        THEN [status |-> IF n > 1 THEN "recurring" ELSE "new",
              firstSeen |-> now[p], lastSeen |-> now[p], closedAt |-> 0,
              timesSeen |-> n]
        ELSE [rows[k] EXCEPT !.status = "recurring", !.lastSeen = now[p],
                             !.closedAt = 0, !.timesSeen = @ + n]

\* What a location contributes to the finding it belongs to.
FirstSeenAt(p, leak) == IF stored[p][SiteOf(leak)] = NoRow THEN now[p]
                        ELSE stored[p][SiteOf(leak)].firstSeen
TimesSeenAt(p, leak) == IF stored[p][SiteOf(leak)] = NoRow THEN 1
                        ELSE stored[p][SiteOf(leak)].timesSeen + 1

\* Mutant: the most recent location dates the finding.
FirstSeenLatest(p, s) == Max({FirstSeenAt(p, leak) : leak \in Located(p, s)})
\* The oldest location dates the finding.
FirstSeen(p, s) == Min({FirstSeenAt(p, leak) : leak \in Located(p, s)})

Enriched(p, s) ==
    [status |-> IF FirstSeen(p, s) < started[p] THEN "recurring" ELSE "new",
     firstSeen |-> FirstSeen(p, s),
     timesSeen |-> MapThenSumSet(LAMBDA leak : TimesSeenAt(p, leak), Located(p, s))]

\* Mutant: every row the scan did not find again is announced.
AnnouncedAgain(p) == {k \in Sites : stored[p][k] # NoRow} \ CurrentSites(p)
\* The findings reported as closed.
Announced(p) ==
    {k \in Sites : stored[p][k] # NoRow /\ stored[p][k].status # "closed"}
        \ CurrentSites(p)

\* What the transaction makes of a row.  An UPDATE of a missing row is no-op.
Written(p, k) ==
    CASE k \in CurrentSites(p) -> Upsert(p, k)
      [] k \in Closable(p) /\ rows[k] # NoRow -> Close(rows[k], now[p])
      [] OTHER -> rows[k]

Commit(p) ==
    /\ pc[p] = "read"
    /\ Serializable => fresh[p]
    /\ rows' = [k \in Sites |-> Written(p, k)]
    /\ report' = [report EXCEPT ![p] =
                  [found |-> [s \in Secrets |-> IF s \in Found(p) THEN Enriched(p, s)
                                                ELSE NoRow],
                   closed |-> Announced(p)]]
    /\ observed' = [issues |-> scanned[p], seen |-> CurrentSites(p)]
    /\ fresh' = [q \in Scanners |-> FALSE]
    /\ pc' = [pc EXCEPT ![p] = "done"]
    /\ UNCHANGED <<clock, world, scanVars, now, stored>>

\* The run ends without a commit: the fetcher or the store failed, SQLite
\* refused the stale transaction, or the process died.  Nothing is written.
Abandon(p) ==
    /\ pc[p] \in {"scan", "begun", "read"}
    /\ pc' = [pc EXCEPT ![p] = "idle"]
    /\ fresh' = [fresh EXCEPT ![p] = FALSE]
    /\ UNCHANGED <<clock, world, rows, scanVars, now, stored, report, observed>>

Scan(p) ==
    \/ Start(p)
    \/ \E issue \in Issues : \E got \in SUBSET LeaksIn(issue) : ScanIssue(p, issue, got)
    \/ Begin(p)
    \/ Read(p)
    \/ Commit(p)
    \/ Abandon(p)

Next ==
    \/ \E leak \in Leaks : Edit(leak)
    \/ \E p \in Scanners : Scan(p)

Spec == Init /\ [][Next]_vars

-----------------------------------------------------------------------------
(* Properties.                                                             *)

Commits(p) == pc[p] = "read" /\ pc'[p] = "done"

\* Every variable keeps its type; in particular every row has a status the
\* scanner writes and was seen at least once.
TypeOK ==
    /\ clock \in Times
    /\ world \in SUBSET Leaks
    /\ rows \in [Sites -> Row \cup {NoRow}]
    /\ pc \in [Scanners -> {"idle", "scan", "begun", "read", "done"}]
    /\ started \in [Scanners -> Times]
    /\ now \in [Scanners -> Times]
    /\ scanned \in [Scanners -> SUBSET Issues]
    /\ current \in [Scanners -> SUBSET Leaks]
    /\ present \in [Scanners -> SUBSET Leaks]
    /\ stored \in [Scanners -> [Sites -> Row \cup {NoRow}]]
    /\ fresh \in [Scanners -> BOOLEAN]
    /\ DOMAIN report = Scanners
    /\ \A p \in Scanners : report[p].closed \in SUBSET Sites
    /\ observed \in [issues : SUBSET Issues, seen : SUBSET Sites]

\* A row says closed exactly when it carries the time it was closed, however
\* often the leak came and went and whoever wrote the row last.
ClosedIffStamped ==
    \A k \in Sites : rows[k] # NoRow =>
        (rows[k].status = "closed" <=> rows[k].closedAt # 0)

\* The history of a site survives every scan, closing, reopening and race: a
\* row is never lost, never forgets when it was first seen, and never counts
\* down.
HistoryKept ==
    [][\A k \in Sites : rows[k] # NoRow =>
          /\ rows'[k] # NoRow
          /\ rows'[k].firstSeen = rows[k].firstSeen
          /\ rows'[k].timesSeen >= rows[k].timesSeen]_vars

\* "Issues not included in the current JQL scope are left untouched": a row
\* changes only by a scan that read its issue.
OutOfScopeUntouched ==
    [][\A k \in Sites : rows'[k] # rows[k] =>
          \E p \in Scanners : Commits(p) /\ k[2] \in scanned[p]]_vars

\* README: "a finding absent from a re-scanned issue is marked `closed`".  So a
\* row is closed only if its secret was not in the issue when the scan read it.
ClosedOnlyWhenAbsent ==
    [][\A p \in Scanners : Commits(p) =>
          \A k \in {SiteOf(leak) : leak \in present[p]} :
              rows[k] # NoRow /\ rows[k].status # "closed" =>
                  rows'[k].status # "closed"]_vars

\* A closing is announced once, by the scan that made it: the rows a commit
\* takes from open to closed are the closed findings it reports.
ClosingAnnouncedOnce ==
    [][\A p \in Scanners : Commits(p) =>
          report'[p].closed = {k \in Sites : /\ rows[k] # NoRow
                                             /\ rows[k].status # "closed"
                                             /\ rows'[k].status = "closed"}]_vars

\* A finding is reported as new exactly when no scan before this one had a row
\* for any of its sites: comparing first_seen with the start of the scan says
\* the same as looking for a row.
NewMeansNoRowBefore ==
    [][\A p \in Scanners, s \in Secrets :
          Commits(p) /\ s \in Found(p) =>
             (report'[p].found[s].status = "new" <=>
                 \A k \in CurrentSites(p) : k[1] = s => rows[k] = NoRow)]_vars

EntryOf(row) == IF row = NoRow THEN NoRow
                ELSE [open |-> row.status # "closed", firstSeen |-> row.firstSeen]

Ledger == INSTANCE FindingLedger WITH
              Unseen <- NoRow,
              ledger <- [k \in Sites |-> EntryOf(rows[k])]

\* The table is a ledger: every commit is one observation of the issues the
\* scan read, every other step leaves the table alone.
KeepsLedger == Ledger!Spec

=============================================================================
