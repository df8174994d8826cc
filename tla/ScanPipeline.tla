---------------------------- MODULE ScanPipeline ----------------------------
(***************************************************************************)
(* One run of the scanner between the first search request and the status  *)
(* it computes (src/src/pipeline.rs, src/src/fetcher.rs).  Three kinds of  *)
(* concurrent activity share a bounded channel and a cancellation token:   *)
(*                                                                         *)
(*   - the fetcher task pages through the search result and sends issues   *)
(*     into the channel;                                                   *)
(*   - the consumer (the body of `run`) receives them, waits for room in   *)
(*     the JoinSet, spawns one task per issue and collects finished tasks; *)
(*   - the spawned tasks, each scanning one issue.                         *)
(*                                                                         *)
(* Issues are named by their position in the search result, 1..NumIssues.  *)
(* The result is the same for every page of the run.                       *)
(***************************************************************************)
EXTENDS Integers, Sequences, FiniteSets

CONSTANTS
    NumIssues,     \* issues the query selects in Jira (`page.total`)
    PageSize,      \* Config::page_size, sent as `maxResults`
    ServerLimit,   \* most issues Jira returns for one search request
    MaxIssues,     \* Config::max_issues, 0 for no limit
    Concurrency,   \* Config::concurrency
    MayCancel      \* whether SIGINT or SIGTERM may arrive during the run

\* Config::validate rejects a zero page size and a zero concurrency.
ASSUME ScanAssumption ==
    /\ NumIssues \in Nat
    /\ PageSize \in Nat \ {0}
    /\ ServerLimit \in Nat \ {0}
    /\ MaxIssues \in Nat
    /\ Concurrency \in Nat \ {0}
    /\ MayCancel \in BOOLEAN

VARIABLES
    fpc,           \* fetcher: where its task stands
    startAt,       \* fetcher: offset of the next page
    pnext,         \* fetcher: next issue of the current page
    pend,          \* fetcher: last issue of the current page
    fetched,       \* fetcher: issues sent so far
    chan,          \* the bounded mpsc channel of issues
    cpc,           \* consumer: where `run` stands
    hand,          \* consumer: the issue just received, 0 for none
    scanned,       \* consumer: scanned_issue_keys
    task,          \* per issue: the state of its spawned task
    allFindings,   \* issues whose findings reached all_findings
    errorsTotal,   \* errors_total
    issuesDone,    \* ScanProgress::issues_done
    issuesTotal,   \* ScanProgress::issues_total
    cancel,        \* the CancellationToken
    status         \* how the run ended, "Running" until it does

fetcherVars == <<fpc, startAt, pnext, pend, fetched>>
consumerVars == <<cpc, hand, scanned>>
resultVars == <<allFindings, errorsTotal, issuesDone>>
vars == <<fpc, startAt, pnext, pend, fetched, chan, cpc, hand, scanned, task,
          allFindings, errorsTotal, issuesDone, issuesTotal, cancel, status>>

Issues == 1..NumIssues
Least(a, b) == IF a <= b THEN a ELSE b

\* The channel holds concurrency * 2 issues.
ChannelCap == 2 * Concurrency

\* What the run is asked to read: the search result, cut at max_issues.
Target == IF MaxIssues > 0 THEN Least(NumIssues, MaxIssues) ELSE NumIssues

Init ==
    /\ fpc = "top" /\ startAt = 0 /\ pnext = 1 /\ pend = 0 /\ fetched = 0
    /\ chan = <<>>
    /\ cpc = "recv" /\ hand = 0 /\ scanned = {}
    /\ task = [i \in Issues |-> "none"]
    /\ allFindings = {} /\ errorsTotal = 0 /\ issuesDone = 0
    /\ issuesTotal = 0
    /\ cancel = FALSE
    /\ status = "Running"

-----------------------------------------------------------------------------
(* The fetcher task.                                                       *)

\* Loop head: the token is looked at before every search request.
FetchTop ==
    /\ fpc = "top"
    /\ fpc' = IF cancel THEN "done" ELSE "search"
    /\ UNCHANGED <<startAt, pnext, pend, fetched, chan, consumerVars, task,
                   resultVars, issuesTotal, cancel, status>>

\* Mutant: the last page is taken to be a full one.
PageEndUnclipped == startAt + PageSize
\* The last issue of the page that starts at startAt.
PageEnd == Least(startAt + Least(PageSize, ServerLimit), NumIssues)

\* The search request comes back with a page: at most PageSize issues, fewer
\* when Jira caps maxResults lower or the result ends.
SearchOk ==
    /\ fpc = "search"
    /\ fpc' = "item"
    /\ pnext' = startAt + 1
    /\ pend' = PageEnd
    /\ issuesTotal' = Target
    /\ UNCHANGED <<startAt, fetched, chan, consumerVars, task, resultVars,
                   cancel, status>>

\* The request failed for good; the task ends with an error, dropping tx.
SearchFail ==
    /\ fpc = "search"
    /\ fpc' = "failed"
    /\ UNCHANGED <<startAt, pnext, pend, fetched, chan, consumerVars, task,
                   resultVars, issuesTotal, cancel, status>>

\* Mutant: the limit is tested one issue late.
LimitReachedLate == MaxIssues > 0 /\ fetched > MaxIssues
LimitReached == MaxIssues > 0 /\ fetched >= MaxIssues

\* Mutant: the token is looked at only before a search, not before a send.
LeavePageUnlessCancelled == pnext > pend \/ LimitReached
\* The page loop ends: page exhausted, token cancelled, or limit reached.
LeavePage == pnext > pend \/ cancel \/ LimitReached

\* One turn of the page loop up to `tx.send`, which may then have to wait.
NextItem ==
    /\ fpc = "item"
    /\ fpc' = IF LeavePage THEN "pageEnd" ELSE "send"
    /\ UNCHANGED <<startAt, pnext, pend, fetched, chan, consumerVars, task,
                   resultVars, issuesTotal, cancel, status>>

\* Mutant: an unbounded channel.
ChannelRoomUnbounded == TRUE
ChannelRoom == Len(chan) < ChannelCap

\* `tx.send(issue).await` completes: only when the channel has room.
Send ==
    /\ fpc = "send"
    /\ ChannelRoom
    /\ chan' = Append(chan, pnext)
    /\ fetched' = fetched + 1
    /\ pnext' = pnext + 1
    /\ fpc' = "item"
    /\ UNCHANGED <<startAt, pend, consumerVars, task, resultVars,
                   issuesTotal, cancel, status>>

\* Mutant: the offset is advanced one issue too little.
NextStartRepeating == startAt + PageSize - 1
\* The offset advances by the requested page size, whatever arrived.
NextStart == startAt + PageSize

EndPage ==
    /\ fpc = "pageEnd"
    /\ \/ /\ LimitReached
          /\ fpc' = "done"
          /\ UNCHANGED startAt
       \/ /\ ~LimitReached
          /\ startAt' = NextStart
          /\ fpc' = IF startAt' >= NumIssues THEN "done" ELSE "top"
    /\ UNCHANGED <<pnext, pend, fetched, chan, consumerVars, task,
                   resultVars, issuesTotal, cancel, status>>

Fetcher ==
    \/ FetchTop
    \/ SearchOk
    \/ SearchFail
    \/ NextItem
    \/ Send
    \/ EndPage

-----------------------------------------------------------------------------
(* The spawned tasks.                                                      *)

\* Tasks the JoinSet holds: still running, or finished and not yet collected.
Finished == {"whole", "gapped", "panicked"}
JoinSet == {i \in Issues : task[i] \in {"running"} \cup Finished}
Collected == {i \in Issues : task[i] = "collected"}

\* process_issue ends.  It never returns an error: it either read every text
\* of the issue ("whole"), or went on without the ones it could not fetch
\* ("gapped": comment pages or attachments that failed, the cap on findings),
\* or panicked, which the JoinSet hands over as a JoinError.
FinishTask(i, how) ==
    /\ task[i] = "running"
    /\ task' = [task EXCEPT ![i] = how]
    /\ UNCHANGED <<fetcherVars, chan, consumerVars, resultVars, issuesTotal,
                   cancel, status>>

Tasks == \E i \in Issues, how \in Finished : FinishTask(i, how)

-----------------------------------------------------------------------------
(* The consumer.                                                           *)

Receive ==
    /\ cpc = "recv"
    /\ chan # <<>>
    /\ hand' = Head(chan)
    /\ chan' = Tail(chan)
    /\ cpc' = "check"
    /\ UNCHANGED <<fetcherVars, scanned, task, resultVars, issuesTotal,
                   cancel, status>>

\* recv() returns None: the fetcher dropped tx and the channel is empty.
ReceiveNone ==
    /\ cpc = "recv"
    /\ chan = <<>>
    /\ fpc \in {"done", "failed"}
    /\ cpc' = "drain"
    /\ UNCHANGED <<fetcherVars, chan, hand, scanned, task, resultVars,
                   issuesTotal, cancel, status>>

\* On a cancelled token the loop breaks; the issue in hand is not scanned.
AfterReceive == IF cancel THEN "drain" ELSE "room"

CheckCancel ==
    /\ cpc = "check"
    /\ cpc' = AfterReceive
    /\ UNCHANGED <<fetcherVars, chan, hand, scanned, task, resultVars,
                   issuesTotal, cancel, status>>

NoRoom == Cardinality(JoinSet) >= 2 * Concurrency


\* Mutant: a JoinError is swallowed instead of counted.
CollectSwallowingError(i) ==
    /\ task[i] \in Finished
    /\ task' = [task EXCEPT ![i] = "collected"]
    /\ allFindings' = IF task[i] = "panicked" THEN allFindings
                      ELSE allFindings \cup {i}
    /\ issuesDone' = issuesDone + 1
    /\ UNCHANGED <<fetcherVars, chan, hand, scanned, errorsTotal, issuesTotal,
                   cancel, status>>

\* collect_one: one finished task leaves the JoinSet, in any order.
CollectOne(i) ==
    /\ task[i] \in Finished
    /\ task' = [task EXCEPT ![i] = "collected"]
    /\ issuesDone' = issuesDone + 1
    /\ IF task[i] = "panicked"
       THEN errorsTotal' = errorsTotal + 1 /\ UNCHANGED allFindings
       ELSE allFindings' = allFindings \cup {i} /\ UNCHANGED errorsTotal
    /\ UNCHANGED <<fetcherVars, chan, hand, scanned, issuesTotal, cancel, status>>

\* Backpressure: wait for a task to finish while the JoinSet is full.
MakeRoom ==
    /\ cpc = "room"
    /\ NoRoom
    /\ \E i \in Issues : CollectOne(i)
    /\ UNCHANGED cpc

Spawn ==
    /\ cpc = "room"
    /\ ~NoRoom
    /\ scanned' = scanned \cup {hand}
    /\ task' = [task EXCEPT ![hand] = "running"]
    /\ hand' = 0
    /\ cpc' = "recv"
    /\ UNCHANGED <<fetcherVars, chan, resultVars, issuesTotal, cancel, status>>

Drain ==
    /\ cpc = "drain"
    /\ \E i \in Issues : CollectOne(i)
    /\ UNCHANGED cpc

\* Mutant: the drain loop waits for every issue Jira counted, max_issues or not.
DrainedWhenAllDone == issuesDone = NumIssues
Drained == JoinSet = {}

LeaveDrain ==
    /\ cpc = "drain"
    /\ Drained
    /\ cpc' = "join"
    /\ UNCHANGED <<fetcherVars, chan, hand, scanned, task, resultVars,
                   issuesTotal, cancel, status>>

\* `fetch_handle.await`: only now does the run learn how fetching ended.
JoinFetcher ==
    /\ cpc = "join"
    /\ fpc \in {"done", "failed"}
    /\ cpc' = IF fpc = "failed" THEN "end" ELSE "tally"
    /\ status' = IF fpc = "failed" THEN "Error" ELSE status
    /\ UNCHANGED <<fetcherVars, chan, hand, scanned, task, resultVars,
                   issuesTotal, cancel>>

\* Mutant: only cancellation makes a scan partial.
PartialIgnoringErrors == cancel
\* Mutant: only failed issues make a scan partial.
PartialIgnoringCancel == errorsTotal > 0
IsPartial == cancel \/ errorsTotal > 0

Tally ==
    /\ cpc = "tally"
    /\ cpc' = "end"
    /\ status' = IF IsPartial THEN "Partial" ELSE "Success"
    /\ UNCHANGED <<fetcherVars, chan, hand, scanned, task, resultVars,
                   issuesTotal, cancel>>

Consumer ==
    \/ Receive
    \/ ReceiveNone
    \/ CheckCancel
    \/ MakeRoom
    \/ Spawn
    \/ Drain
    \/ LeaveDrain
    \/ JoinFetcher
    \/ Tally

-----------------------------------------------------------------------------
\* A signal handler cancels the token.  It may run between any two steps, and
\* nothing ever takes the cancellation back.
Cancel ==
    /\ MayCancel
    /\ status = "Running"
    /\ ~cancel
    /\ cancel' = TRUE
    /\ UNCHANGED <<fetcherVars, chan, consumerVars, task, resultVars,
                   issuesTotal, status>>

Next == Fetcher \/ Tasks \/ Consumer \/ Cancel

\* The runtime polls every task that can make progress; a search returns
\* (bounded retries under a request timeout) and a spawned task finishes.
\* Nobody is bound to send a signal.
Fairness ==
    /\ WF_vars(Fetcher)
    /\ \A i \in Issues : WF_vars(\E how \in Finished : FinishTask(i, how))
    /\ WF_vars(Consumer)

Spec == Init /\ [][Next]_vars
FairSpec == Spec /\ Fairness

-----------------------------------------------------------------------------
(* Properties.                                                             *)

\* Every variable keeps its type; in particular the fetcher's page stays
\* inside the search result and the consumer only ever holds real issues.
TypeOK ==
    /\ fpc \in {"top", "search", "item", "send", "pageEnd", "done", "failed"}
    /\ startAt \in Nat /\ pnext \in Nat /\ pend \in 0..NumIssues
    /\ fetched \in Nat
    /\ chan \in Seq(Issues)
    /\ cpc \in {"recv", "check", "room", "drain", "join", "tally", "end"}
    /\ hand \in Issues \cup {0}
    /\ scanned \in SUBSET Issues
    /\ task \in [Issues -> {"none", "running", "collected"} \cup Finished]
    /\ allFindings \in SUBSET Issues
    /\ errorsTotal \in Nat /\ issuesDone \in Nat
    /\ issuesTotal \in Nat
    /\ cancel \in BOOLEAN
    /\ status \in {"Running", "Success", "Partial", "Error"}

\* No issue is in two places and none is overtaken: what has been spawned
\* comes before what the consumer holds, which comes before what the channel
\* holds, in order, which comes before what the fetcher has yet to send.  So
\* no issue is scanned twice (fetcher.rs, pipeline.rs: the receive loop).
DeliveredInOrder ==
    /\ \A i \in scanned : i < pnext /\ (hand # 0 => i < hand)
    /\ hand < pnext
    /\ \A k \in 1..Len(chan) :
           /\ chan[k] < pnext
           /\ hand < chan[k]
           /\ \A i \in scanned : i < chan[k]
           /\ \A l \in 1..Len(chan) : k < l => chan[k] < chan[l]

\* Work in memory is bounded whatever the size of the result: at most
\* 2 * concurrency issues wait in the channel and 2 * concurrency are in the
\* JoinSet (the backpressure loop of pipeline.rs).
Backpressure ==
    /\ Len(chan) <= ChannelCap
    /\ Cardinality(JoinSet) <= 2 * Concurrency

\* The counters tell the truth at every moment, not only at the end: every
\* issue taken out of the JoinSet was counted once, as done, and as an error
\* exactly when its findings were not merged (collect_one).
CountersAgree ==
    /\ JoinSet \cup Collected = scanned
    /\ issuesDone = Cardinality(Collected)
    /\ errorsTotal = Cardinality(Collected \ allFindings)
    /\ allFindings \subseteq Collected

\* "N of M issues scanned" never shows N above M, and a Success run shows N = M.
ReportedCoverage ==
    /\ issuesDone <= issuesTotal
    /\ status = "Success" => issuesDone = issuesTotal

\* A cancelled scan takes in nothing new: after the token is cancelled no
\* further search starts, the fetcher sends only the issue it had already
\* committed to, and the consumer spawns only the issue that had already
\* passed its check.
CancelStopsIntake ==
    [][cancel => /\ (fpc' = "search" => fpc = "search")
                 /\ (fpc' = "send" => fpc = "send")
                 /\ (scanned' # scanned => cpc = "room")
                 /\ (cpc' = "room" => cpc = "room")]_vars

\* A graceful shutdown ends the scan: whether or not a signal arrives, every scan
\* ends with a status or an error.
Terminates == <>(status # "Running")

\* Every scan that no signal interrupts ends, with a status or an error.
TerminatesUndisturbed == []~cancel => Terminates

\* The run as its contract sees it: an issue has a verdict once its task was
\* collected, and the verdict is "scanned" if its findings were merged.
Verdict(i) ==
    CASE task[i] # "collected" -> "pending"
      [] task[i] = "collected" /\ i \in allFindings -> "scanned"
      [] OTHER -> "failed"

Contract == INSTANCE ScanContract WITH
                Selection <- 1..Target,
                verdict <- [i \in 1..Target |-> Verdict(i)],
                cancelled <- cancel,
                outcome <- status

\* The run keeps the contract of a scan: Success only when every selected
\* issue was scanned, Partial only when cancelled or when an issue failed,
\* and without a cancellation no selected issue is left without a verdict.
KeepsContract == Contract!Spec
=============================================================================
