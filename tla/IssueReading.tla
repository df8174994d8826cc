---------------------------- MODULE IssueReading ----------------------------
(***************************************************************************)
(* How the texts of issues are fetched: the Jira client with its permits   *)
(* and retries (src/src/jira/client.rs), the comment pages after the first *)
(* (the same file and src/src/pipeline.rs), and the attachments with their *)
(* caps (src/src/attachments.rs).  Several issue tasks and the fetcher of  *)
(* search pages share the client.  A request holds a permit from the       *)
(* moment it is granted one until its headers have arrived or it has       *)
(* failed, the pauses between its attempts included; the body is read      *)
(* without a permit.                                                       *)
(*                                                                         *)
(* Comments are named by their position in the thread, which only grows.   *)
(***************************************************************************)
EXTENDS Integers, Sequences, FiniteSets

CONSTANTS
    Tasks,           \* the issue tasks that are followed in detail
    Others,          \* who else sends requests: the fetcher, other issue tasks
    Concurrency,     \* permits of the client
    MaxRetries,      \* attempts of one request
    PageSize,        \* COMMENTS_PAGE_SIZE
    MaxPages,        \* MAX_COMMENT_PAGES
    Embedded,        \* most comments an issue payload carries
    MaxThread,       \* bound on the length of a thread
    Listed,          \* attachments an issue lists
    MaxAttachments,  \* MAX_ATTACHMENTS_PER_ISSUE
    MaxBytes,        \* max_bytes_per_attachment
    Budget,          \* MAX_ATTACHMENT_BYTES_PER_ISSUE
    Bodies           \* bytes an attachment body may have

ASSUME ReadingAssumption ==
    /\ Others \cap Tasks = {}
    /\ IsFiniteSet(Tasks) /\ IsFiniteSet(Others)
    /\ Concurrency \in Nat \ {0} /\ MaxRetries \in Nat \ {0}
    /\ PageSize \in Nat \ {0} /\ MaxPages \in Nat
    /\ Embedded \in Nat /\ MaxThread \in Nat
    /\ Listed \in Nat /\ MaxAttachments \in Nat
    /\ MaxBytes \in Nat /\ Budget \in Nat /\ Bodies \subseteq Nat

Clients == Tasks \cup Others
Least(a, b) == IF a <= b THEN a ELSE b

VARIABLES
    request,   \* per client: where its request stands
    tries,     \* per client: attempts of its request
    queue,     \* clients that wait for a permit
    phase,     \* per task: where process_issue stands
    thread,    \* Jira, per task: comments of its issue now
    promised,  \* per task: the total its payload names
    next,      \* per task: offset of the next comment page
    pages,     \* per task: comment pages read
    read,      \* per task: comments fetched after the first page
    comments,  \* per task: how the paging ended
    seen,      \* per task: attachments considered
    got,       \* per task: attachments whose text was kept
    budget,    \* per task: bytes the issue may still cost
    held       \* per task: bytes of attachments kept in memory

clientVars == <<request, tries, queue>>
commentVars == <<next, pages, read, comments>>
attachmentVars == <<seen, got, budget, held>>
vars == <<request, tries, queue, phase, thread, promised, next, pages, read,
          comments, seen, got, budget, held>>

\* The payload carries the first comments of the thread; the next page starts
\* after them.
Offset(t) == Least(Embedded, promised[t])

Init ==
    /\ request = [c \in Clients |-> "none"]
    /\ tries = [c \in Clients |-> 0]
    /\ queue = <<>>
    /\ phase = [t \in Tasks |-> "payload"]
    /\ thread \in [Tasks -> 0..MaxThread]
    /\ promised = thread
    /\ next = [t \in Tasks |-> 0]
    /\ pages = [t \in Tasks |-> 0]
    /\ read = [t \in Tasks |-> {}]
    /\ comments = [t \in Tasks |-> "pending"]
    /\ seen = [t \in Tasks |-> 0]
    /\ got = [t \in Tasks |-> 0]
    /\ budget = [t \in Tasks |-> Budget]
    /\ held = [t \in Tasks |-> 0]

\* Jira: somebody comments on an issue; once its comments were paged, that
\* changes nothing for the task.
AddComment(t) ==
    /\ comments[t] = "pending"
    /\ thread[t] < MaxThread
    /\ thread' = [thread EXCEPT ![t] = @ + 1]
    /\ UNCHANGED <<clientVars, phase, promised, commentVars, attachmentVars>>

-----------------------------------------------------------------------------
(* JiraClient::send.                                                       *)

\* Mutant: a pause gives the permit back, and the next attempt takes none.
HoldersAwake == {c \in Clients : request[c] = "sent"}
\* The requests that hold a permit.
Holders == {c \in Clients : request[c] \in {"sent", "pause"}}

\* Mutant: who asks last is served first.
AskAtFront(c) ==
    /\ request[c] = "none"
    /\ request' = [request EXCEPT ![c] = "queued"]
    /\ tries' = [tries EXCEPT ![c] = 0]
    /\ queue' = <<c>> \o queue
\* A client asks for a permit, behind those who wait already.
Ask(c) ==
    /\ request[c] = "none"
    /\ request' = [request EXCEPT ![c] = "queued"]
    /\ tries' = [tries EXCEPT ![c] = 0]
    /\ queue' = Append(queue, c)

\* The semaphore serves its waiters in their order.
Grant ==
    /\ queue # <<>>
    /\ Cardinality(Holders) < Concurrency
    /\ request' = [request EXCEPT ![Head(queue)] = "sent"]
    /\ tries' = [tries EXCEPT ![Head(queue)] = 1]
    /\ queue' = Tail(queue)
    /\ UNCHANGED <<phase, thread, promised, commentVars, attachmentVars>>

\* Success: the response is returned, its body unread, and the permit goes.
Answer(c) ==
    /\ request[c] = "sent"
    /\ request' = [request EXCEPT ![c] = "body"]
    /\ UNCHANGED <<tries, queue, phase, thread, promised, commentVars, attachmentVars>>

\* Mutant: one attempt too many.
RetryOnceMore(c) ==
    /\ request[c] = "sent"
    /\ tries[c] <= MaxRetries
    /\ request' = [request EXCEPT ![c] = "pause"]
    /\ UNCHANGED <<tries, queue, phase, thread, promised, commentVars, attachmentVars>>
\* Rate limited, a server error, a timeout or no connection: try again later.
Retry(c) ==
    /\ request[c] = "sent"
    /\ tries[c] < MaxRetries
    /\ request' = [request EXCEPT ![c] = "pause"]
    /\ UNCHANGED <<tries, queue, phase, thread, promised, commentVars, attachmentVars>>

WakeUp(c) ==
    /\ request[c] = "pause"
    /\ request' = [request EXCEPT ![c] = "sent"]
    /\ tries' = [tries EXCEPT ![c] = @ + 1]
    /\ UNCHANGED <<queue, phase, thread, promised, commentVars, attachmentVars>>

\* The request is over, and with it its permit.
Released(c) == [request EXCEPT ![c] = "none"]

-----------------------------------------------------------------------------
(* The comment pages after the first.                                      *)

\* The paging ends, its local variables with it, and the task turns to the
\* attachments.
EndComments(t, how) ==
    /\ next' = [next EXCEPT ![t] = 0]
    /\ pages' = [pages EXCEPT ![t] = 0]
    /\ comments' = [comments EXCEPT ![t] = how]
    /\ phase' = [phase EXCEPT ![t] = "attachments"]

\* process_issue starts: are there comments the payload does not carry?
StartIssue(t) ==
    /\ phase[t] = "payload"
    /\ IF promised[t] > Offset(t)
       THEN /\ phase' = [phase EXCEPT ![t] = "comments"]
            /\ next' = [next EXCEPT ![t] = Offset(t)]
            /\ UNCHANGED <<pages, comments>>
       ELSE EndComments(t, "complete")
    /\ UNCHANGED <<clientVars, thread, promised, read, attachmentVars>>

AskPage(t) ==
    /\ phase[t] = "comments"
    /\ pages[t] < MaxPages
    /\ Ask(t)
    /\ UNCHANGED <<phase, thread, promised, commentVars, attachmentVars>>

\* The cap on pages is reached: what was read is kept.
CapComments(t) ==
    /\ phase[t] = "comments"
    /\ request[t] = "none"
    /\ pages[t] >= MaxPages
    /\ EndComments(t, "capped")
    /\ UNCHANGED <<clientVars, thread, promised, read, attachmentVars>>

\* Mutant: the offset advances by the page asked for.
NextOffsetAsked(t, n) == next[t] + PageSize
\* The offset advances by what arrived.
NextOffset(t, n) == next[t] + n

\* A page of n comments and the total it names: none at all once the thread is
\* exhausted, and 0 for the total of a Jira that names none.
ReadPage(t, n, total) ==
    /\ phase[t] = "comments"
    /\ request[t] = "body"
    /\ (n = 0) <=> (next[t] >= thread[t])
    /\ next[t] + n <= thread[t] \/ n = 0
    /\ total \in {0, thread[t]}
    /\ request' = Released(t)
    /\ read' = [read EXCEPT ![t] = @ \cup (next[t] + 1)..(next[t] + n)]
    /\ IF n = 0 \/ (total > 0 /\ NextOffset(t, n) >= total)
       THEN EndComments(t, "complete")
       ELSE /\ next' = [next EXCEPT ![t] = NextOffset(t, n)]
            /\ pages' = [pages EXCEPT ![t] = @ + 1]
            /\ UNCHANGED <<phase, comments>>
    /\ UNCHANGED <<tries, queue, thread, promised, attachmentVars>>

\* One page fails: the pages before it are dropped with it.
FailComments(t) ==
    /\ phase[t] = "comments"
    /\ request[t] \in {"sent", "body"}
    /\ request' = Released(t)
    /\ read' = [read EXCEPT ![t] = {}]
    /\ EndComments(t, "failed")
    /\ UNCHANGED <<tries, queue, thread, promised, attachmentVars>>

-----------------------------------------------------------------------------
(* Attachments.                                                            *)

\* The loop goes on: the list has another entry and the cap is not reached.
MoreAttachments(t) ==
    /\ phase[t] = "attachments"
    /\ request[t] = "none"
    /\ seen[t] < Listed
    /\ got[t] < MaxAttachments

\* Malformed, not a text, outside the Jira origin, or declared too large.
SkipAttachment(t) ==
    /\ MoreAttachments(t)
    /\ seen' = [seen EXCEPT ![t] = @ + 1]
    /\ UNCHANGED <<clientVars, phase, thread, promised, commentVars, got, budget, held>>

AskAttachment(t) ==
    /\ MoreAttachments(t)
    /\ budget[t] > 0
    /\ seen' = [seen EXCEPT ![t] = @ + 1]
    /\ Ask(t)
    /\ UNCHANGED <<phase, thread, promised, commentVars, got, budget, held>>

\* Mutant: the budget of the issue does not limit a download.
DownloadLimitOfOne(t) == MaxBytes
DownloadLimit(t) == Least(MaxBytes, budget[t])

\* A body is streamed and cut at the limit.
ReadAttachment(t, size) ==
    /\ phase[t] = "attachments"
    /\ request[t] = "body"
    /\ LET bytes == Least(size, DownloadLimit(t))
       IN  /\ held' = [held EXCEPT ![t] = @ + bytes]
           /\ budget' = [budget EXCEPT ![t] = IF bytes <= @ THEN @ - bytes ELSE 0]
    /\ got' = [got EXCEPT ![t] = @ + 1]
    /\ request' = Released(t)
    /\ UNCHANGED <<tries, queue, phase, thread, promised, commentVars, seen>>

\* Refused, out of attempts, longer than the limit by its header, or cut off.
FailAttachment(t) ==
    /\ phase[t] = "attachments"
    /\ request[t] \in {"sent", "body"}
    /\ request' = Released(t)
    /\ UNCHANGED <<tries, queue, phase, thread, promised, commentVars, attachmentVars>>

\* The issue is read, and its texts are scanned.
EndIssue(t) ==
    /\ phase[t] = "attachments"
    /\ request[t] = "none"
    /\ seen[t] >= Listed \/ got[t] >= MaxAttachments
    /\ phase' = [phase EXCEPT ![t] = "done"]
    /\ UNCHANGED <<clientVars, thread, promised, commentVars, attachmentVars>>

-----------------------------------------------------------------------------
(* Everybody else: a request, and whatever becomes of it.                  *)

AskOther(c) ==
    /\ Ask(c)
    /\ UNCHANGED <<phase, thread, promised, commentVars, attachmentVars>>

EndOther(c) ==
    /\ request[c] \in {"sent", "body"}
    /\ request' = Released(c)
    /\ UNCHANGED <<tries, queue, phase, thread, promised, commentVars, attachmentVars>>

-----------------------------------------------------------------------------

\* What ends an attempt.
Ends(c) ==
    \/ Answer(c)
    \/ Retry(c)
    \/ c \in Others /\ EndOther(c)
    \/ c \in Tasks /\ (FailComments(c) \/ FailAttachment(c))

Comments(t) ==
    \/ StartIssue(t)
    \/ AskPage(t)
    \/ CapComments(t)
    \/ \E n \in 0..PageSize, total \in 0..MaxThread : ReadPage(t, n, total)

Attachments(t) ==
    \/ SkipAttachment(t)
    \/ AskAttachment(t)
    \/ \E size \in Bodies : ReadAttachment(t, size)
    \/ EndIssue(t)

Task(t) == Comments(t) \/ Attachments(t)

Next ==
    \/ \E t \in Tasks : AddComment(t)
    \/ Grant
    \/ \E c \in Clients : Ends(c) \/ WakeUp(c)
    \/ \E t \in Tasks : Task(t)
    \/ \E c \in Others : AskOther(c)

Spec == Init /\ [][Next]_vars

\* The runtime polls what can go on; the request timeout ends every attempt,
\* and a pause, however long Retry-After makes it, ends.  Nobody is bound to
\* comment, or to send another request.
Fairness ==
    /\ WF_vars(Grant)
    /\ \A c \in Clients : WF_vars(Ends(c)) /\ WF_vars(WakeUp(c))
    /\ \A t \in Tasks : WF_vars(Task(t))

FairSpec == Spec /\ Fairness

-----------------------------------------------------------------------------
(* Properties.                                                             *)

ClientTypes ==
    /\ request \in [Clients -> {"none", "queued", "sent", "pause", "body"}]
    /\ tries \in [Clients -> 0..MaxRetries]
    /\ queue \in Seq(Clients)

CommentTypes ==
    /\ phase \in [Tasks -> {"payload", "comments", "attachments", "done"}]
    /\ thread \in [Tasks -> 0..MaxThread] /\ promised \in [Tasks -> 0..MaxThread]
    /\ next \in [Tasks -> Nat] /\ pages \in [Tasks -> Nat]
    /\ read \in [Tasks -> SUBSET (1..MaxThread)]
    /\ comments \in [Tasks -> {"pending", "complete", "capped", "failed"}]

AttachmentTypes ==
    /\ seen \in [Tasks -> 0..Listed] /\ got \in [Tasks -> 0..MaxAttachments]
    /\ budget \in [Tasks -> 0..Budget] /\ held \in [Tasks -> Nat]

\* Every variable keeps its type; in particular no request is tried more than
\* MaxRetries times, and no more attachments are read than the cap allows.
TypeOK == ClientTypes /\ CommentTypes /\ AttachmentTypes

\* Whatever fails and is retried, no more requests are on their way than the
\* client has permits, and who waits for one is in the queue once
\* (client.rs:270-280).
PermitsKept ==
    /\ Cardinality({c \in Clients : request[c] = "sent"}) <= Concurrency
    /\ \A c \in Clients :
           request[c] = "queued" <=> \E k \in 1..Len(queue) : queue[k] = c
    /\ \A k, l \in 1..Len(queue) : queue[k] = queue[l] => k = l

\* A thread whose paging completed was read whole: every comment the payload
\* promised was in the payload or was fetched, and none of the payload's was fetched
\* again, whatever page sizes and totals Jira served and whoever commented meanwhile
\* (client.rs:145-151).
ThreadReadWhole ==
    \A t \in Tasks :
        /\ read[t] \cap 1..Offset(t) = {}
        /\ comments[t] = "complete" =>
               1..promised[t] \subseteq 1..Offset(t) \cup read[t]

\* The bytes an issue keeps in memory are what its budget was charged, so they
\* never exceed it, whatever sizes Jira declared (attachments.rs:110).
BudgetKept == \A t \in Tasks : held[t] + budget[t] = Budget

\* A task that got its answers gets to its end: no permit is lost on a failure,
\* and neither other clients nor a flood of comments starves it.
IssueIsRead == \A t \in Tasks : <>(phase[t] = "done")
=============================================================================
