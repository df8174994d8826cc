--------------------------- MODULE IncrementalScan ---------------------------
(***************************************************************************)
(* Incremental scans (src/src/checkpoint.rs and its call sites in          *)
(* src/src/pipeline.rs): a sequence of runs of the scanner on one state    *)
(* directory, while issues are updated in Jira.  A run started with        *)
(* --incremental asks only for issues updated since the checkpoint of the  *)
(* last successful scan, less an overlap, and a successful run moves the   *)
(* checkpoint.  An issue skipped by a window is a leak reported nowhere,   *)
(* so the property is that no update falls out of every later window.      *)
(*                                                                         *)
(* Time is counted in ticks of the scanner's clock.  Jira stamps updates   *)
(* with a clock that may lag behind.                                       *)
(***************************************************************************)
EXTENDS Integers, FiniteSets

CONSTANTS
    Issues,        \* issue keys
    Queries,       \* configured pairs of a JQL and a Jira base URL
    Overlap,       \* WINDOW_OVERLAP, in ticks
    Minute,        \* ticks per minute: JQL timestamps carry no seconds
    JiraLag,       \* how far Jira's stamps run behind the scanner's clock
    MaxIssues,     \* Config::max_issues, 0 for no limit
    ReadsMayGap,   \* comment pages or attachments of an issue may fail
    MaxScan,       \* longest a scan takes from its start to its end
    MaxClock,      \* bound on the clock
    NoFile, Torn   \* no checkpoint file; a file that does not parse

ASSUME IncrementalAssumption ==
    /\ Overlap \in Nat /\ Minute \in Nat \ {0} /\ JiraLag \in Nat
    /\ ReadsMayGap \in BOOLEAN
    /\ MaxIssues \in Nat /\ MaxScan \in Nat /\ MaxClock \in Nat

Checkpoint == [query : Queries, finishedAt : 0..MaxClock]

ASSUME NoCheckpointAssumption ==
    /\ NoFile \notin Checkpoint
    /\ Torn \notin Checkpoint

VARIABLES
    clock,
    updated,       \* Jira: the stamp of the latest update of each issue
    selectedBy,    \* Jira: the queries that select each issue
    unread,        \* issues whose latest update no scan has read
    file,          \* checkpoint.json: NoFile, Torn or a checkpoint
    phase,         \* where the run stands; "idle" between runs
    query,         \* the run's configured query and Jira
    incremental,   \* whether the run has --incremental
    narrowed,      \* whether its query was narrowed, and
    since,         \* from which instant
    startedAt,
    visited,       \* issues whose place in the result the search has passed
    taken,         \* how many of them the narrowed query selected
    clean,         \* no error so far, and no cancellation
    finishedAt

jiraVars == <<updated, selectedBy, unread>>
runVars == <<phase, query, incremental, narrowed, since, startedAt, visited,
             taken, clean, finishedAt>>
vars == <<clock, updated, selectedBy, unread, file, phase, query, incremental,
          narrowed, since, startedAt, visited, taken, clean, finishedAt>>

Init ==
    /\ clock = 0
    /\ updated = [i \in Issues |-> -JiraLag]
    /\ selectedBy \in [Issues -> SUBSET Queries]
    /\ unread = Issues
    /\ file = NoFile
    /\ phase = "idle"
    /\ query \in Queries
    /\ incremental = FALSE /\ narrowed = FALSE /\ since = 0
    /\ startedAt = 0 /\ visited = {} /\ taken = 0 /\ clean = TRUE
    /\ finishedAt = 0

-----------------------------------------------------------------------------
(* Time and Jira.                                                          *)

Tick ==
    /\ clock < MaxClock
    /\ phase = "scanning" => clock - startedAt < MaxScan
    /\ clock' = clock + 1
    /\ UNCHANGED <<jiraVars, file, runVars>>

\* An issue is edited.  The edit may take it into or out of a query's scope.
Update(i, qs) ==
    /\ updated' = [updated EXCEPT ![i] = clock - JiraLag]
    /\ selectedBy' = [selectedBy EXCEPT ![i] = qs]
    /\ unread' = unread \cup {i}
    /\ UNCHANGED <<clock, file, runVars>>

-----------------------------------------------------------------------------
(* Planning.                                                               *)

\* jql_timestamp drops the seconds.
JqlTimestamp(t) == t - (t % Minute)

\* The first instant a window after this checkpoint asks for.
WindowStart(cp) == JqlTimestamp(cp.finishedAt - Overlap)

\* Mutant: a checkpoint narrows whatever query is configured now.
TrustedForAnyQuery(q) == file \notin {NoFile, Torn} /\ file.finishedAt <= clock
\* The checkpoint parses, is for this query on this Jira, and lies in the past.
Trusted(q) ==
    /\ file \notin {NoFile, Torn}
    /\ file.query = q
    /\ file.finishedAt <= clock

\* A run starts: with --incremental and a trusted checkpoint it is narrowed,
\* otherwise it runs the configured query.
Start(q, flag) ==
    /\ phase = "idle"
    /\ phase' = "scanning"
    /\ query' = q
    /\ incremental' = flag
    /\ narrowed' = (flag /\ Trusted(q))
    /\ since' = IF narrowed' THEN WindowStart(file) ELSE 0
    /\ startedAt' = clock
    /\ visited' = {} /\ taken' = 0 /\ clean' = TRUE
    /\ UNCHANGED <<clock, jiraVars, file, finishedAt>>

-----------------------------------------------------------------------------
(* Scanning.                                                               *)

\* The narrowed query: (configured) AND updated >= since.
Selected(i) == query \in selectedBy[i] /\ (narrowed => updated[i] >= since)

LimitReached == MaxIssues > 0 /\ taken >= MaxIssues

\* The search comes to an issue.  If the query selects it now, the run takes
\* it and reads it whole, or goes on without a part it could not fetch
\* ("gapped"), or its task panics, which alone makes the scan partial.
Visit(i, how) ==
    /\ phase = "scanning"
    /\ i \notin visited
    /\ ~LimitReached
    /\ how = "gapped" => ReadsMayGap
    /\ visited' = visited \cup {i}
    /\ taken' = IF Selected(i) THEN taken + 1 ELSE taken
    /\ unread' = IF Selected(i) /\ how = "whole" THEN unread \ {i} ELSE unread
    /\ clean' = (clean /\ ~(Selected(i) /\ how = "panicked"))
    /\ UNCHANGED <<clock, updated, selectedBy, file, phase, query, incremental,
                   narrowed, since, startedAt, finishedAt>>

\* A signal cancels the run: what it has not visited stays unvisited.
Cancel ==
    /\ phase = "scanning"
    /\ clean
    /\ clean' = FALSE
    /\ UNCHANGED <<clock, jiraVars, file, phase, query, incremental, narrowed,
                   since, startedAt, visited, taken, finishedAt>>

\* The search is exhausted, cut at max_issues, or stopped; finished_at is
\* stamped and the status is known.
Finish ==
    /\ phase = "scanning"
    /\ visited = Issues \/ LimitReached \/ ~clean
    /\ phase' = "finished"
    /\ finishedAt' = clock
    /\ UNCHANGED <<clock, jiraVars, file, query, incremental, narrowed, since,
                   startedAt, visited, taken, clean>>

-----------------------------------------------------------------------------
(* The checkpoint.                                                         *)

\* Mutant: a partial scan moves the baseline too.
MovesBaselineAlways == incremental
\* maybe_write_checkpoint: only an incremental run that succeeded.
MovesBaseline == incremental /\ clean

\* fs::write truncates the file before it fills it.
BeginWrite ==
    /\ phase = "finished"
    /\ MovesBaseline
    /\ file' = Torn
    /\ phase' = "writing"
    /\ UNCHANGED <<clock, jiraVars, query, incremental, narrowed, since,
                   startedAt, visited, taken, clean, finishedAt>>

\* The process ends, and its variables with it.
EndRun ==
    /\ phase' = "idle"
    /\ incremental' = FALSE /\ narrowed' = FALSE /\ since' = 0
    /\ startedAt' = 0 /\ visited' = {} /\ taken' = 0 /\ clean' = TRUE
    /\ finishedAt' = 0
    /\ UNCHANGED <<clock, jiraVars, query>>

\* Mutant: the overlap is subtracted when the baseline is written, too.
StampedWithOverlap == [query |-> query, finishedAt |-> finishedAt - Overlap]
\* checkpoint_for: the configured query, never the narrowed one.
NewCheckpoint == [query |-> query, finishedAt |-> finishedAt]

EndWrite ==
    /\ phase = "writing"
    /\ file' = NewCheckpoint
    /\ EndRun

KeepBaseline ==
    /\ phase = "finished"
    /\ ~MovesBaseline
    /\ file' = file
    /\ EndRun

\* The process dies, or an error ends the run, before or while it writes.
Crash ==
    /\ phase # "idle"
    /\ file' = file
    /\ EndRun

Next ==
    \/ Tick
    \/ \E i \in Issues, qs \in SUBSET Queries : Update(i, qs)
    \/ \E q \in Queries, flag \in BOOLEAN : Start(q, flag)
    \/ \E i \in Issues, how \in {"whole", "gapped", "panicked"} : Visit(i, how)
    \/ Cancel
    \/ Finish
    \/ BeginWrite
    \/ EndWrite
    \/ KeepBaseline
    \/ Crash

Spec == Init /\ [][Next]_vars

-----------------------------------------------------------------------------
(* Properties.                                                             *)

TypeOK ==
    /\ clock \in 0..MaxClock
    /\ updated \in [Issues -> Int]
    /\ selectedBy \in [Issues -> SUBSET Queries]
    /\ unread \in SUBSET Issues
    /\ file \in Checkpoint \cup {NoFile, Torn}
    /\ phase \in {"idle", "scanning", "finished", "writing"}
    /\ query \in Queries
    /\ incremental \in BOOLEAN /\ narrowed \in BOOLEAN /\ clean \in BOOLEAN
    /\ since \in Int
    /\ startedAt \in 0..MaxClock /\ finishedAt \in 0..MaxClock
    /\ visited \in SUBSET Issues
    /\ taken \in Nat

\* No update falls out of every later window: an issue of the baseline's query
\* whose latest update nobody has read is inside the window the baseline
\* opens, at every moment, whatever runs, fails, is cancelled or crashes
\* ("an issue skipped here is a leak reported nowhere").
WindowCovers ==
    file \notin {NoFile, Torn} =>
        \A i \in unread : file.query \in selectedBy[i] =>
            updated[i] >= WindowStart(file)

\* A narrowed scan is as good as a full one: when a scan succeeds, the only
\* issues of its query left unread are those updated since it started.
NarrowedAsGoodAsFull ==
    phase \in {"finished", "writing"} /\ clean =>
        \A i \in unread : query \in selectedBy[i] =>
            updated[i] >= startedAt - JiraLag
=============================================================================
