------------------------- MODULE IssueReadingProofs -------------------------
(***************************************************************************)
(* Proofs about IssueReading, for every number of clients, permits,        *)
(* retries, comments and attachments: types, permits, comment threads and  *)
(* the attachment budget.                                                  *)
(*                                                                         *)
(* The invariant is the conjunction of three, each about the variables of  *)
(* one part; a step of another part leaves those variables alone, or       *)
(* changes only the request of its own task.                               *)
(***************************************************************************)
EXTENDS IssueReading, FiniteSetTheorems, TLAPS

LEMMA TasksAreClients == ASSUME NEW t \in Tasks PROVE t \in Clients
BY DEF Clients

LEMMA OthersAreClients ==
    ASSUME NEW c \in Others PROVE c \in Clients /\ c \notin Tasks
BY ReadingAssumption DEF Clients

LEMMA ClientsFinite == IsFiniteSet(Clients)
BY ReadingAssumption, FS_Union DEF Clients

(***************************************************************************)
(* The client.                                                             *)
(***************************************************************************)

\* A request that pauses has an attempt left.
AttemptLeft ==
    \A c \in Clients : request[c] = "pause" => tries[c] < MaxRetries

\* Who waits is in the queue, once.
QueueKept ==
    /\ \A c \in Clients :
           request[c] = "queued" <=> \E k \in 1..Len(queue) : queue[k] = c
    /\ \A k, l \in 1..Len(queue) : queue[k] = queue[l] => k = l

\* Pausing requests count as well: they will send again without asking.
HoldersFit == Cardinality(Holders) <= Concurrency

ClientInv == ClientTypes /\ AttemptLeft /\ QueueKept /\ HoldersFit

\* A request ends and gives its permit back, if it still has it.
Release(c) ==
    /\ request[c] \in {"sent", "body"}
    /\ request' = Released(c)
    /\ UNCHANGED <<tries, queue>>

\* What the client sees of a step.
ClientStep ==
    \/ UNCHANGED clientVars
    \/ Grant
    \/ \E c \in Clients : Ask(c) \/ Answer(c) \/ Retry(c) \/ WakeUp(c) \/ Release(c)

LEMMA StepOfClient ==
    ASSUME [Next]_vars PROVE ClientStep
<1>1. CASE UNCHANGED vars
  BY <1>1 DEF vars, ClientStep, clientVars
<1>2. ASSUME NEW t \in Tasks, AddComment(t) PROVE ClientStep
  BY <1>2 DEF AddComment, ClientStep
<1>3. CASE Grant
  BY <1>3 DEF ClientStep
<1>4. ASSUME NEW c \in Clients, Ends(c) \/ WakeUp(c) PROVE ClientStep
  BY <1>4 DEF Ends, EndOther, FailComments, FailAttachment, Release, ClientStep
<1>5. ASSUME NEW t \in Tasks, Comments(t) PROVE ClientStep
  <2>1. t \in Clients
    BY TasksAreClients
  <2> QED
    BY <1>5, <2>1 DEF Comments, StartIssue, AskPage, CapComments, ReadPage, Release,
                      ClientStep
<1>6. ASSUME NEW t \in Tasks, Attachments(t) PROVE ClientStep
  <2>1. t \in Clients
    BY TasksAreClients
  <2> QED
    BY <1>6, <2>1 DEF Attachments, SkipAttachment, AskAttachment, ReadAttachment, EndIssue,
                      Release, ClientStep
<1>7. ASSUME NEW c \in Others, AskOther(c) PROVE ClientStep
  BY <1>7, OthersAreClients DEF AskOther, ClientStep
<1> QED
  BY <1>1, <1>2, <1>3, <1>4, <1>5, <1>6, <1>7 DEF Next, Task

LEMMA AskKeeps ==
    ASSUME ClientInv, NEW c \in Clients, Ask(c)
    PROVE  ClientInv'
<1> USE DEF ClientInv
<1>1. /\ queue \in Seq(Clients) /\ Len(queue) \in Nat
      /\ queue' = Append(queue, c) /\ request[c] = "none"
      /\ request' = [request EXCEPT ![c] = "queued"]
      /\ tries' = [tries EXCEPT ![c] = 0]
  BY DEF Ask, ClientTypes
<1>2. queue' \in Seq(Clients)
  BY <1>1
<1>3. request' \in [Clients -> {"none", "queued", "sent", "pause", "body"}]
  BY <1>1 DEF ClientTypes
<1>4. tries' \in [Clients -> 0..MaxRetries]
  BY <1>1, ReadingAssumption DEF ClientTypes
<1>5. ClientTypes' /\ AttemptLeft'
  BY <1>1, <1>2, <1>3, <1>4 DEF ClientTypes, AttemptLeft
<1>6. /\ Len(queue') = Len(queue) + 1
      /\ \A k \in 1..Len(queue) : queue'[k] = queue[k]
      /\ queue'[Len(queue) + 1] = c
  BY <1>1
<1>7. \A k \in 1..Len(queue) : queue[k] # c
  BY <1>1 DEF QueueKept
<1>8. \A k, l \in 1..Len(queue') : queue'[k] = queue'[l] => k = l
  BY <1>1, <1>6, <1>7 DEF QueueKept
<1>9. ASSUME NEW d \in Clients
      PROVE request'[d] = "queued" <=> \E k \in 1..Len(queue') : queue'[k] = d
  <2>1. CASE d = c
    <3>1. request'[d] = "queued"
      BY <1>1, <2>1 DEF ClientTypes
    <3>2. Len(queue) + 1 \in 1..Len(queue') /\ queue'[Len(queue) + 1] = d
      BY <1>1, <1>6, <2>1
    <3> QED
      BY <3>1, <3>2
  <2>2. CASE d # c
    <3>1. request'[d] = request[d]
      BY <1>1, <2>2 DEF ClientTypes
    <3>2. (\E k \in 1..Len(queue') : queue'[k] = d) <=> (\E k \in 1..Len(queue) : queue[k] = d)
      BY <1>1, <1>6, <2>2
    <3> QED
      BY <3>1, <3>2 DEF QueueKept
  <2> QED
    BY <2>1, <2>2
<1>10. QueueKept'
  BY <1>8, <1>9 DEF QueueKept
<1>11. Holders' = Holders
  BY <1>1 DEF Holders, ClientTypes
<1> QED
  BY <1>5, <1>10, <1>11 DEF HoldersFit

LEMMA GrantKeeps ==
    ASSUME ClientInv, Grant
    PROVE  ClientInv'
<1> USE DEF ClientInv
<1> DEFINE c == Head(queue)
<1>1. /\ queue \in Seq(Clients) /\ Len(queue) \in Nat \ {0}
      /\ queue' = Tail(queue) /\ c \in Clients /\ c = queue[1]
      /\ request' = [request EXCEPT ![c] = "sent"]
      /\ tries' = [tries EXCEPT ![c] = 1]
  BY DEF Grant, ClientTypes
<1>2. /\ queue' \in Seq(Clients) /\ Len(queue') = Len(queue) - 1
      /\ \A k \in 1..Len(queue') : queue'[k] = queue[k + 1]
  BY <1>1
<1> HIDE DEF c
<1>3. request' \in [Clients -> {"none", "queued", "sent", "pause", "body"}]
  BY <1>1 DEF ClientTypes
<1>4. tries' \in [Clients -> 0..MaxRetries]
  BY <1>1, ReadingAssumption DEF ClientTypes
<1>5. ClientTypes' /\ AttemptLeft'
  BY <1>1, <1>2, <1>3, <1>4 DEF ClientTypes, AttemptLeft
<1>6. \A k, l \in 1..Len(queue') : queue'[k] = queue'[l] => k = l
  <2> SUFFICES ASSUME NEW k \in 1..Len(queue'), NEW l \in 1..Len(queue'),
                      queue'[k] = queue'[l]
               PROVE  k = l
    OBVIOUS
  <2>1. k + 1 \in 1..Len(queue) /\ l + 1 \in 1..Len(queue)
    BY <1>1, <1>2
  <2>2. queue[k + 1] = queue[l + 1]
    BY <1>2
  <2>3. k + 1 = l + 1
    BY <2>1, <2>2 DEF QueueKept
  <2> QED
    BY <2>3, <1>1, <1>2
<1>7. ASSUME NEW d \in Clients
      PROVE request'[d] = "queued" <=> \E k \in 1..Len(queue') : queue'[k] = d
  <2>1. CASE d = c
    <3>1. request'[d] # "queued"
      BY <1>1, <2>1 DEF ClientTypes
    <3>2. ASSUME NEW k \in 1..Len(queue'), queue'[k] = d PROVE FALSE
      <4>1. k + 1 \in 1..Len(queue) /\ 1 \in 1..Len(queue) /\ k + 1 # 1
        BY <1>1, <1>2
      <4>2. queue[k + 1] = queue[1]
        BY <1>1, <1>2, <3>2, <2>1
      <4> QED
        BY <4>1, <4>2 DEF QueueKept
    <3> QED
      BY <3>1, <3>2
  <2>2. CASE d # c
    <3>1. request'[d] = request[d]
      BY <1>1, <2>2 DEF ClientTypes
    <3>2. ASSUME NEW k \in 1..Len(queue), queue[k] = d
          PROVE  \E l \in 1..Len(queue') : queue'[l] = d
      <4>1. k - 1 \in 1..Len(queue')
        BY <1>1, <1>2, <3>2, <2>2
      <4>2. queue'[k - 1] = d
        BY <1>2, <4>1, <3>2
      <4> QED
        BY <4>1, <4>2
    <3>3. ASSUME NEW l \in 1..Len(queue'), queue'[l] = d
          PROVE  \E k \in 1..Len(queue) : queue[k] = d
      <4>1. l + 1 \in 1..Len(queue) /\ queue[l + 1] = d
        BY <1>1, <1>2, <3>3
      <4> QED
        BY <4>1
    <3> QED
      BY <3>1, <3>2, <3>3 DEF QueueKept
  <2> QED
    BY <2>1, <2>2
<1>8. QueueKept'
  BY <1>6, <1>7 DEF QueueKept
<1>9. IsFiniteSet(Holders)
  BY ClientsFinite, FS_Subset DEF Holders
<1>10. Holders' = Holders \cup {c}
  BY <1>1 DEF Holders, ClientTypes
<1>11. Cardinality(Holders) \in Nat /\ Cardinality(Holders) < Concurrency
  BY <1>9, FS_CardinalityType DEF Grant
<1>12. Cardinality(Holders') <= Cardinality(Holders) + 1
  BY <1>9, <1>10, <1>11, FS_AddElement
<1>13. HoldersFit'
  <2>1. IsFiniteSet(Holders') /\ Cardinality(Holders') \in Nat
    BY <1>9, <1>10, FS_AddElement, FS_CardinalityType
  <2> QED
    BY <2>1, <1>11, <1>12, ReadingAssumption DEF HoldersFit
<1> QED
  BY <1>5, <1>8, <1>13

\* The other steps leave the queue alone, and take no permit.
LEMMA HeldStepKeeps ==
    ASSUME ClientInv, NEW c \in Clients,
           Answer(c) \/ Retry(c) \/ WakeUp(c) \/ Release(c)
    PROVE  ClientInv'
<1> USE DEF ClientInv
<1>1. request[c] \in {"sent", "pause", "body"} /\ queue' = queue
  BY DEF Answer, Retry, WakeUp, Release
<1>2. PICK r \in {"none", "sent", "pause", "body"} :
          /\ request' = [request EXCEPT ![c] = r]
          /\ r \in {"sent", "pause"} => request[c] \in {"sent", "pause"}
          /\ r = "pause" => tries[c] < MaxRetries /\ tries' = tries
  BY DEF Answer, Retry, WakeUp, Release, Released
<1>3. tries' \in [Clients -> 0..MaxRetries] /\ \A d \in Clients : d # c => tries'[d] = tries[d]
  <2>1. CASE tries' = tries
    BY <2>1 DEF ClientTypes
  <2>2. CASE WakeUp(c)
    <3>1. tries[c] \in 0..MaxRetries /\ tries[c] < MaxRetries
      BY <2>2 DEF WakeUp, AttemptLeft, ClientTypes
    <3>2. tries[c] + 1 \in 0..MaxRetries
      BY <3>1, ReadingAssumption
    <3> QED
      BY <2>2, <3>2 DEF WakeUp, ClientTypes
  <2> QED
    BY <2>1, <2>2 DEF Answer, Retry, Release
<1>4. request' \in [Clients -> {"none", "queued", "sent", "pause", "body"}]
  BY <1>2 DEF ClientTypes
<1>5. ClientTypes'
  BY <1>1, <1>3, <1>4 DEF ClientTypes
<1>6. AttemptLeft'
  BY <1>2, <1>3 DEF AttemptLeft, ClientTypes
<1>7. \A d \in Clients : request'[d] = "queued" <=> request[d] = "queued"
  BY <1>1, <1>2 DEF ClientTypes
<1>8. QueueKept'
  BY <1>1, <1>7, Zenon DEF QueueKept
<1>9. Holders' \subseteq Holders
  BY <1>1, <1>2 DEF Holders, ClientTypes
<1>10. IsFiniteSet(Holders)
  BY ClientsFinite, FS_Subset DEF Holders
<1>11. HoldersFit'
  <2>1. IsFiniteSet(Holders') /\ Cardinality(Holders') <= Cardinality(Holders)
    BY <1>9, <1>10, FS_Subset
  <2>2. Cardinality(Holders') \in Nat /\ Cardinality(Holders) \in Nat
    BY <2>1, <1>10, FS_CardinalityType
  <2> QED
    BY <2>1, <2>2, ReadingAssumption DEF HoldersFit
<1> QED
  BY <1>5, <1>6, <1>8, <1>11

LEMMA ClientInvStep ==
    ASSUME ClientInv, [Next]_vars
    PROVE  ClientInv'
<1>1. ClientStep
  BY StepOfClient
<1>2. CASE UNCHANGED clientVars
  BY <1>2 DEF clientVars, ClientInv, ClientTypes, AttemptLeft, QueueKept, HoldersFit, Holders
<1>3. CASE Grant
  BY <1>3, GrantKeeps
<1>4. ASSUME NEW c \in Clients, Ask(c) PROVE ClientInv'
  BY <1>4, AskKeeps
<1>5. ASSUME NEW c \in Clients, Answer(c) \/ Retry(c) \/ WakeUp(c) \/ Release(c)
      PROVE ClientInv'
  BY <1>5, HeldStepKeeps
<1> QED
  BY <1>1, <1>2, <1>3, <1>4, <1>5 DEF ClientStep

(***************************************************************************)
(* The comments.  Before the paging nothing was fetched; during the paging *)
(* exactly the comments from the payload's offset to the next offset were, *)
(* none of them beyond the thread.                                         *)
(***************************************************************************)

ThreadInv ==
    \A t \in Tasks :
        /\ promised[t] <= thread[t]
        /\ phase[t] = "payload" => comments[t] = "pending" /\ read[t] = {}
        /\ phase[t] = "comments" =>
               /\ comments[t] = "pending"
               /\ read[t] = (Offset(t) + 1)..next[t]
               /\ Offset(t) <= next[t] /\ next[t] <= thread[t]
        /\ phase[t] \in {"attachments", "done"} => comments[t] # "pending"

CommentInv == CommentTypes /\ ThreadInv /\ ThreadReadWhole

LEMMA OffsetInPayload ==
    ASSUME CommentTypes, NEW t \in Tasks
    PROVE  Offset(t) \in Nat /\ Offset(t) <= promised[t]
BY ReadingAssumption DEF CommentTypes, Offset, Least

\* The end of the paging keeps the invariant when what was read warrants it.
LEMMA EndCommentsKeeps ==
    ASSUME CommentInv, NEW t \in Tasks, NEW how \in {"complete", "capped", "failed"},
           EndComments(t, how), UNCHANGED <<thread, promised>>,
           NEW R \in SUBSET (1..MaxThread), read' = [read EXCEPT ![t] = R],
           R \cap 1..Offset(t) = {},
           how = "complete" => 1..promised[t] \subseteq 1..Offset(t) \cup R
    PROVE  CommentInv'
<1>1. CommentTypes'
  BY DEF CommentInv, CommentTypes, EndComments
<1>2. \A u \in Tasks : Offset(u)' = Offset(u)
  BY DEF Offset
<1>3. ThreadInv'
  BY <1>2 DEF CommentInv, CommentTypes, EndComments, ThreadInv
<1>4. ThreadReadWhole'
  <2> SUFFICES ASSUME NEW u \in Tasks
               PROVE  /\ read'[u] \cap 1..Offset(u) = {}
                      /\ comments'[u] = "complete" =>
                             1..promised[u] \subseteq 1..Offset(u) \cup read'[u]
    BY <1>2 DEF ThreadReadWhole
  <2>1. CASE u = t
    BY <2>1 DEF CommentInv, CommentTypes, EndComments
  <2>2. CASE u # t
    <3>1. read'[u] = read[u] /\ comments'[u] = comments[u]
      BY <2>2 DEF CommentInv, CommentTypes, EndComments
    <3> QED
      BY <3>1 DEF CommentInv, ThreadReadWhole
  <2> QED
    BY <2>1, <2>2
<1> QED
  BY <1>1, <1>3, <1>4 DEF CommentInv

\* A page joins what was read before it: n comments from the next offset on.
LEMMA PageJoins ==
    ASSUME CommentInv, NEW t \in Tasks, NEW n \in 0..PageSize, phase[t] = "comments",
           (n = 0) <=> (next[t] >= thread[t]),
           next[t] + n <= thread[t] \/ n = 0
    PROVE  LET R == read[t] \cup (next[t] + 1)..(next[t] + n)
           IN  /\ R = (Offset(t) + 1)..(next[t] + n)
               /\ R \in SUBSET (1..MaxThread)
               /\ R \cap 1..Offset(t) = {}
               /\ next[t] + n >= thread[t] =>
                      1..promised[t] \subseteq 1..Offset(t) \cup R
               /\ Offset(t) <= next[t] + n /\ next[t] + n <= thread[t]
<1> DEFINE R == read[t] \cup (next[t] + 1)..(next[t] + n)
<1>1. /\ Offset(t) \in Nat /\ next[t] \in Nat /\ n \in Nat
      /\ promised[t] \in Nat /\ thread[t] \in Nat /\ thread[t] <= MaxThread
      /\ Offset(t) <= next[t] /\ next[t] + n <= thread[t]
      /\ promised[t] <= thread[t] /\ read[t] = (Offset(t) + 1)..next[t]
  BY OffsetInPayload, ReadingAssumption DEF CommentInv, CommentTypes, ThreadInv
<1>2. R = (Offset(t) + 1)..(next[t] + n)
  BY <1>1
<1>3. R \in SUBSET (1..MaxThread)
  BY <1>1, <1>2, ReadingAssumption
<1>4. R \cap 1..Offset(t) = {}
  BY <1>1, <1>2
<1>5. next[t] + n >= thread[t] => 1..promised[t] \subseteq 1..Offset(t) \cup R
  BY <1>1, <1>2
<1> QED
  BY <1>1, <1>2, <1>3, <1>4, <1>5

LEMMA StartIssueKeeps ==
    ASSUME CommentInv, NEW t \in Tasks, StartIssue(t)
    PROVE  CommentInv'
<1>1. /\ phase[t] = "payload" /\ read[t] = {} /\ comments[t] = "pending"
      /\ Offset(t) \in Nat /\ Offset(t) <= promised[t]
      /\ promised[t] \in Nat /\ thread[t] \in Nat /\ promised[t] <= thread[t]
      /\ UNCHANGED <<thread, promised, read>>
  BY OffsetInPayload DEF StartIssue, CommentInv, CommentTypes, ThreadInv
<1>2. CASE promised[t] > Offset(t)
  <2>1. /\ phase' = [phase EXCEPT ![t] = "comments"]
        /\ next' = [next EXCEPT ![t] = Offset(t)]
        /\ UNCHANGED <<pages, comments>>
    BY <1>2 DEF StartIssue
  <2>2. CommentTypes'
    BY <1>1, <2>1 DEF CommentInv, CommentTypes
  <2>3. \A u \in Tasks : Offset(u)' = Offset(u)
    BY <1>1 DEF Offset
  <2>4. ThreadInv'
    <3> SUFFICES ASSUME NEW u \in Tasks PROVE ThreadInv!(u)'
      BY DEF ThreadInv
    <3>1. CASE u = t
      <4>1. phase'[t] = "comments" /\ next'[t] = Offset(t)
        BY <2>1 DEF CommentInv, CommentTypes
      <4>2. read[t] = (Offset(t) + 1)..Offset(t)
        BY <1>1
      <4>3. Offset(t) <= thread[t]
        BY <1>1
      <4> QED
        BY <1>1, <2>1, <2>3, <3>1, <4>1, <4>2, <4>3
    <3>2. CASE u # t
      BY <1>1, <2>1, <2>3, <3>2 DEF CommentInv, CommentTypes, ThreadInv
    <3> QED
      BY <3>1, <3>2
  <2>5. ThreadReadWhole'
    BY <1>1, <2>1, <2>3 DEF CommentInv, ThreadReadWhole
  <2> QED
    BY <2>2, <2>4, <2>5 DEF CommentInv
<1>3. CASE ~(promised[t] > Offset(t))
  <2>1. EndComments(t, "complete")
    BY <1>3 DEF StartIssue
  <2>2. read' = [read EXCEPT ![t] = {}]
    BY <1>1 DEF CommentInv, CommentTypes
  <2>3. 1..promised[t] \subseteq 1..Offset(t) \cup {}
    BY <1>1, <1>3
  <2> QED
    BY <1>1, <2>1, <2>2, <2>3, EndCommentsKeeps
<1> QED
  BY <1>2, <1>3

LEMMA ReadPageKeeps ==
    ASSUME CommentInv, NEW t \in Tasks, NEW n \in 0..PageSize, NEW total \in 0..MaxThread,
           ReadPage(t, n, total)
    PROVE  CommentInv'
<1> DEFINE R == read[t] \cup (next[t] + 1)..(next[t] + n)
<1>1. /\ phase[t] = "comments" /\ total \in {0, thread[t]}
      /\ (n = 0) <=> (next[t] >= thread[t])
      /\ next[t] + n <= thread[t] \/ n = 0
      /\ UNCHANGED <<thread, promised>> /\ read' = [read EXCEPT ![t] = R]
  BY DEF ReadPage
<1>2. /\ R = (Offset(t) + 1)..(next[t] + n)
      /\ R \in SUBSET (1..MaxThread)
      /\ R \cap 1..Offset(t) = {}
      /\ next[t] + n >= thread[t] => 1..promised[t] \subseteq 1..Offset(t) \cup R
      /\ Offset(t) <= next[t] + n /\ next[t] + n <= thread[t]
  BY <1>1, PageJoins
<1> HIDE DEF R
<1>3. next[t] \in Nat /\ thread[t] \in Nat /\ n \in Nat
  BY ReadingAssumption DEF CommentInv, CommentTypes
<1>4. CASE n = 0 \/ (total > 0 /\ NextOffset(t, n) >= total)
  <2>1. EndComments(t, "complete")
    BY <1>4 DEF ReadPage
  <2>2. next[t] + n >= thread[t]
    BY <1>1, <1>3, <1>4 DEF NextOffset
  <2> QED
    BY <1>1, <1>2, <2>1, <2>2, EndCommentsKeeps
<1>5. CASE ~(n = 0 \/ (total > 0 /\ NextOffset(t, n) >= total))
  <2>1. /\ next' = [next EXCEPT ![t] = next[t] + n]
        /\ pages' = [pages EXCEPT ![t] = @ + 1]
        /\ UNCHANGED <<phase, comments>>
    BY <1>5 DEF ReadPage, NextOffset
  <2>2. CommentTypes'
    BY <1>1, <1>2, <1>3, <2>1 DEF CommentInv, CommentTypes
  <2>3. \A u \in Tasks : Offset(u)' = Offset(u)
    BY <1>1 DEF Offset
  <2>4. \A u \in Tasks : u # t => read'[u] = read[u] /\ next'[u] = next[u]
    BY <1>1, <2>1 DEF CommentInv, CommentTypes
  <2>5. read'[t] = R /\ next'[t] = next[t] + n /\ comments[t] = "pending"
    BY <1>1, <2>1 DEF CommentInv, CommentTypes, ThreadInv
  <2>6. ThreadInv'
    <3> SUFFICES ASSUME NEW u \in Tasks PROVE ThreadInv!(u)'
      BY DEF ThreadInv
    <3>1. CASE u = t
      BY <1>1, <1>2, <2>1, <2>3, <2>5, <3>1 DEF CommentInv, ThreadInv
    <3>2. CASE u # t
      BY <1>1, <2>1, <2>3, <2>4, <3>2 DEF CommentInv, ThreadInv
    <3> QED
      BY <3>1, <3>2
  <2>7. ThreadReadWhole'
    <3> SUFFICES ASSUME NEW u \in Tasks PROVE ThreadReadWhole!(u)'
      BY DEF ThreadReadWhole
    <3>1. CASE u = t
      BY <1>1, <1>2, <2>1, <2>3, <2>5, <3>1
    <3>2. CASE u # t
      BY <1>1, <2>1, <2>3, <2>4, <3>2 DEF CommentInv, ThreadReadWhole
    <3> QED
      BY <3>1, <3>2
  <2> QED
    BY <2>2, <2>6, <2>7 DEF CommentInv
<1> QED
  BY <1>4, <1>5

LEMMA CommentInvStep ==
    ASSUME CommentInv, [Next]_vars
    PROVE  CommentInv'
<1>1. CASE UNCHANGED <<phase, thread, promised, commentVars>>
  BY <1>1 DEF CommentInv, CommentTypes, ThreadInv, ThreadReadWhole, Offset, commentVars
<1>2. ASSUME NEW t \in Tasks, AddComment(t) PROVE CommentInv'
  <2>1. /\ comments[t] = "pending" /\ thread' = [thread EXCEPT ![t] = @ + 1]
        /\ thread[t] < MaxThread
        /\ UNCHANGED <<phase, promised, next, pages, read, comments>>
    BY <1>2 DEF AddComment, commentVars
  <2>2. CommentTypes'
    <3>1. thread[t] + 1 \in 0..MaxThread
      BY <2>1, ReadingAssumption DEF CommentInv, CommentTypes
    <3> QED
      BY <2>1, <3>1 DEF CommentInv, CommentTypes
  <2>3. \A u \in Tasks : Offset(u)' = Offset(u)
    BY <2>1 DEF Offset
  <2>4. \A u \in Tasks : thread[u] \in Nat /\ thread'[u] \in Nat /\ thread[u] <= thread'[u]
    BY <2>1, ReadingAssumption DEF CommentInv, CommentTypes
  <2>5. ThreadInv'
    <3> SUFFICES ASSUME NEW u \in Tasks PROVE ThreadInv!(u)'
      BY DEF ThreadInv
    <3>1. promised[u] \in Nat /\ next[u] \in Nat
      BY DEF CommentInv, CommentTypes
    <3> QED
      BY <2>1, <2>3, <2>4, <3>1 DEF CommentInv, ThreadInv
  <2>6. ThreadReadWhole'
    BY <2>1, <2>3 DEF CommentInv, ThreadReadWhole
  <2> QED
    BY <2>2, <2>5, <2>6 DEF CommentInv
<1>3. ASSUME NEW t \in Tasks, StartIssue(t) PROVE CommentInv'
  BY <1>3, StartIssueKeeps
<1>4. ASSUME NEW t \in Tasks, CapComments(t) PROVE CommentInv'
  <2>1. /\ EndComments(t, "capped") /\ UNCHANGED <<thread, promised>>
        /\ read' = [read EXCEPT ![t] = read[t]]
        /\ read[t] \in SUBSET (1..MaxThread) /\ read[t] \cap 1..Offset(t) = {}
    BY <1>4 DEF CapComments, CommentInv, CommentTypes, ThreadReadWhole
  <2> QED
    BY <2>1, EndCommentsKeeps
<1>5. ASSUME NEW t \in Tasks, NEW n \in 0..PageSize, NEW total \in 0..MaxThread,
             ReadPage(t, n, total)
      PROVE  CommentInv'
  BY <1>5, ReadPageKeeps
<1>6. ASSUME NEW t \in Tasks, FailComments(t) PROVE CommentInv'
  <2>1. /\ EndComments(t, "failed") /\ UNCHANGED <<thread, promised>>
        /\ read' = [read EXCEPT ![t] = {}]
    BY <1>6 DEF FailComments
  <2> QED
    BY <2>1, EndCommentsKeeps
<1>7. ASSUME NEW t \in Tasks, EndIssue(t) PROVE CommentInv'
  BY <1>7 DEF EndIssue, CommentInv, CommentTypes, ThreadInv, ThreadReadWhole, Offset,
              commentVars
<1>8. CASE UNCHANGED vars
  BY <1>1, <1>8 DEF vars, commentVars
<1>9. CASE Grant
  BY <1>1, <1>9 DEF Grant
<1>10. ASSUME NEW c \in Clients, Ends(c) \/ WakeUp(c) PROVE CommentInv'
  BY <1>1, <1>6, <1>10 DEF Ends, Answer, Retry, EndOther, FailAttachment, WakeUp
<1>11. ASSUME NEW t \in Tasks, Task(t) PROVE CommentInv'
  BY <1>1, <1>3, <1>4, <1>5, <1>7, <1>11
     DEF Task, Comments, Attachments, AskPage, SkipAttachment, AskAttachment, ReadAttachment
<1>12. ASSUME NEW c \in Others, AskOther(c) PROVE CommentInv'
  BY <1>1, <1>12 DEF AskOther
<1> QED
  BY <1>2, <1>8, <1>9, <1>10, <1>11, <1>12 DEF Next

(***************************************************************************)
(* The attachments.                                                        *)
(***************************************************************************)

\* A download is under way only below the cap, and nothing is before the issue
\* starts.
DownloadCounted ==
    \A t \in Tasks :
        /\ phase[t] = "payload" => request[t] = "none"
        /\ phase[t] = "attachments" /\ request[t] # "none" => got[t] < MaxAttachments

AttachmentInv == AttachmentTypes /\ DownloadCounted /\ BudgetKept

\* No step of the client starts a request or ends one for a task.
LEMMA ClientKeepsRequests ==
    ASSUME ClientInv, NEW t \in Tasks,
           Grant \/ \E c \in Clients : Answer(c) \/ Retry(c) \/ WakeUp(c)
    PROVE  request'[t] = "none" <=> request[t] = "none"
<1> USE DEF ClientInv
<1>1. t \in Clients
  BY TasksAreClients
<1>2. CASE Grant
  <2>1. Len(queue) \in Nat \ {0} /\ Head(queue) = queue[1] /\ queue[1] \in Clients
    BY <1>2 DEF Grant, ClientTypes
  <2>2. request[queue[1]] = "queued"
    BY <2>1 DEF QueueKept
  <2> QED
    BY <1>1, <1>2, <2>1, <2>2 DEF Grant, ClientTypes
<1>3. ASSUME NEW c \in Clients, Answer(c) \/ Retry(c) \/ WakeUp(c)
      PROVE  request'[t] = "none" <=> request[t] = "none"
  BY <1>1, <1>3 DEF Answer, Retry, WakeUp, ClientTypes
<1> QED
  BY <1>2, <1>3

\* What is read of a body is within the budget.
LEMMA LimitWithinBudget ==
    ASSUME AttachmentTypes, NEW t \in Tasks, NEW size \in Bodies
    PROVE  /\ Least(size, DownloadLimit(t)) \in Nat
           /\ Least(size, DownloadLimit(t)) <= budget[t]
BY ReadingAssumption DEF AttachmentTypes, Least, DownloadLimit

LEMMA ReadAttachmentKeeps ==
    ASSUME ClientInv, AttachmentInv, NEW t \in Tasks, NEW size \in Bodies,
           ReadAttachment(t, size)
    PROVE  AttachmentInv'
<1> DEFINE bytes == Least(size, DownloadLimit(t))
<1>1. /\ phase[t] = "attachments" /\ request[t] = "body"
      /\ held' = [held EXCEPT ![t] = held[t] + bytes]
      /\ budget' = [budget EXCEPT ![t] = IF bytes <= budget[t] THEN budget[t] - bytes ELSE 0]
      /\ got' = [got EXCEPT ![t] = got[t] + 1]
      /\ request' = [request EXCEPT ![t] = "none"]
      /\ UNCHANGED <<phase, seen>>
  BY DEF ReadAttachment, Released
<1>2. bytes \in Nat /\ bytes <= budget[t]
  BY LimitWithinBudget DEF AttachmentInv
<1> HIDE DEF bytes
<1>3. /\ budget[t] \in 0..Budget /\ held[t] \in Nat /\ got[t] \in 0..MaxAttachments
      /\ got[t] < MaxAttachments /\ held[t] + budget[t] = Budget
  BY <1>1 DEF AttachmentInv, AttachmentTypes, DownloadCounted, BudgetKept
<1>4. budget' = [budget EXCEPT ![t] = budget[t] - bytes]
  BY <1>1, <1>2
<1>5. /\ budget[t] - bytes \in 0..Budget /\ held[t] + bytes \in Nat
      /\ got[t] + 1 \in 0..MaxAttachments
      /\ (held[t] + bytes) + (budget[t] - bytes) = Budget
  BY <1>2, <1>3, ReadingAssumption
<1>6. AttachmentTypes'
  BY <1>1, <1>4, <1>5 DEF AttachmentInv, AttachmentTypes
<1>7. BudgetKept'
  BY <1>1, <1>4, <1>5 DEF AttachmentInv, AttachmentTypes, BudgetKept
<1>8. t \in Clients /\ request \in [Clients -> {"none", "queued", "sent", "pause", "body"}]
  BY TasksAreClients DEF ClientInv, ClientTypes
<1>9. \A u \in Tasks : u # t => request'[u] = request[u] /\ got'[u] = got[u]
  BY <1>1, <1>8, TasksAreClients DEF AttachmentInv, AttachmentTypes
<1>10. DownloadCounted'
  BY <1>1, <1>8, <1>9 DEF AttachmentInv, DownloadCounted
<1> QED
  BY <1>6, <1>7, <1>10 DEF AttachmentInv

\* A step that leaves the caps and the budgets alone, and starts no request of a
\* task that may not have one.
LEMMA AttachmentsUntouched ==
    ASSUME AttachmentInv, UNCHANGED <<got, budget, held>>,
           seen' \in [Tasks -> 0..Listed], DownloadCounted'
    PROVE  AttachmentInv'
BY DEF AttachmentInv, AttachmentTypes, BudgetKept

LEMMA AttachmentInvStep ==
    ASSUME ClientInv, CommentTypes, AttachmentInv, [Next]_vars
    PROVE  AttachmentInv'
<1> USE DEF AttachmentInv
<1>1. /\ request \in [Clients -> {"none", "queued", "sent", "pause", "body"}]
      /\ \A t \in Tasks : t \in Clients
      /\ phase \in [Tasks -> {"payload", "comments", "attachments", "done"}]
  BY TasksAreClients DEF ClientInv, ClientTypes, CommentTypes
<1>2. seen \in [Tasks -> 0..Listed]
  BY DEF AttachmentTypes
<1>3. CASE UNCHANGED vars
  BY <1>3 DEF vars, AttachmentTypes, DownloadCounted, BudgetKept
<1>4. ASSUME NEW t \in Tasks, AddComment(t) PROVE AttachmentInv'
  BY <1>4 DEF AddComment, clientVars, attachmentVars, AttachmentTypes, DownloadCounted,
              BudgetKept
<1>5. ASSUME Grant \/ \E c \in Clients : Answer(c) \/ Retry(c) \/ WakeUp(c)
      PROVE  AttachmentInv'
  <2>1. UNCHANGED <<phase, seen, got, budget, held>>
    BY <1>5 DEF Grant, Answer, Retry, WakeUp, attachmentVars
  <2>2. \A t \in Tasks : request'[t] = "none" <=> request[t] = "none"
    BY <1>5, ClientKeepsRequests
  <2>3. DownloadCounted'
    BY <2>1, <2>2 DEF DownloadCounted
  <2> QED
    BY <1>2, <2>1, <2>3, AttachmentsUntouched
<1>6. ASSUME NEW c \in Others, EndOther(c) \/ AskOther(c) PROVE AttachmentInv'
  <2>1. UNCHANGED <<phase, seen, got, budget, held>>
    BY <1>6 DEF EndOther, AskOther, attachmentVars
  <2>2. \A t \in Tasks : request'[t] = request[t]
    BY <1>1, <1>6, OthersAreClients DEF EndOther, AskOther, Ask, Released
  <2>3. DownloadCounted'
    BY <2>1, <2>2 DEF DownloadCounted
  <2> QED
    BY <1>2, <2>1, <2>3, AttachmentsUntouched
<1>7. ASSUME NEW t \in Tasks,
             \/ \E n \in 0..PageSize, total \in 0..MaxThread : ReadPage(t, n, total)
             \/ FailComments(t)
             \/ FailAttachment(t)
      PROVE  AttachmentInv'
  <2>1. UNCHANGED <<seen, got, budget, held>> /\ request' = [request EXCEPT ![t] = "none"]
    BY <1>7 DEF ReadPage, FailComments, FailAttachment, Released, attachmentVars
  <2>2. \A u \in Tasks : u # t => request'[u] = request[u]
    BY <1>1, <2>1
  <2>3. request'[t] = "none"
    BY <1>1, <2>1
  <2>4. phase' = phase \/ phase' = [phase EXCEPT ![t] = "attachments"]
    BY <1>7 DEF ReadPage, FailComments, FailAttachment, EndComments
  <2>5. \A u \in Tasks : u # t => phase'[u] = phase[u]
    BY <1>1, <2>4
  <2>6. DownloadCounted'
    BY <2>1, <2>2, <2>3, <2>5 DEF DownloadCounted
  <2> QED
    BY <1>2, <2>1, <2>6, AttachmentsUntouched
<1>8. ASSUME NEW t \in Tasks, StartIssue(t) \/ CapComments(t) \/ EndIssue(t)
      PROVE  AttachmentInv'
  <2>1. UNCHANGED <<request, seen, got, budget, held>> /\ request[t] = "none"
    BY <1>8 DEF StartIssue, CapComments, EndIssue, clientVars, attachmentVars,
                DownloadCounted
  <2>2. \A u \in Tasks : u # t => phase'[u] = phase[u]
    BY <1>1, <1>8 DEF StartIssue, CapComments, EndIssue, EndComments
  <2>3. DownloadCounted'
    BY <2>1, <2>2 DEF DownloadCounted
  <2> QED
    BY <1>2, <2>1, <2>3, AttachmentsUntouched
<1>9. ASSUME NEW t \in Tasks, AskPage(t) PROVE AttachmentInv'
  <2>1. /\ UNCHANGED <<phase, seen, got, budget, held>> /\ phase[t] = "comments"
        /\ request' = [request EXCEPT ![t] = "queued"]
    BY <1>9 DEF AskPage, Ask, attachmentVars
  <2>2. \A u \in Tasks : u # t => request'[u] = request[u]
    BY <1>1, <2>1
  <2>3. DownloadCounted'
    BY <2>1, <2>2 DEF DownloadCounted
  <2> QED
    BY <1>2, <2>1, <2>3, AttachmentsUntouched
<1>10. ASSUME NEW t \in Tasks, SkipAttachment(t) \/ AskAttachment(t) PROVE AttachmentInv'
  <2>1. /\ UNCHANGED <<phase, got, budget, held>> /\ phase[t] = "attachments"
        /\ got[t] < MaxAttachments /\ seen[t] < Listed
        /\ seen' = [seen EXCEPT ![t] = @ + 1]
        /\ request' = request \/ request' = [request EXCEPT ![t] = "queued"]
    BY <1>10 DEF SkipAttachment, AskAttachment, MoreAttachments, Ask, clientVars
  <2>2. \A u \in Tasks : u # t => request'[u] = request[u]
    BY <1>1, <2>1
  <2>3. DownloadCounted'
    BY <2>1, <2>2 DEF DownloadCounted
  <2>4. seen[t] + 1 \in 0..Listed
    BY <1>2, <2>1, ReadingAssumption
  <2>5. seen' \in [Tasks -> 0..Listed]
    BY <1>2, <2>1, <2>4
  <2> QED
    BY <2>1, <2>3, <2>5, AttachmentsUntouched
<1>11. ASSUME NEW t \in Tasks, NEW size \in Bodies, ReadAttachment(t, size)
       PROVE  AttachmentInv'
  BY <1>11, ReadAttachmentKeeps
<1> QED
  BY <1>3, <1>4, <1>5, <1>6, <1>7, <1>8, <1>9, <1>10, <1>11
     DEF Next, Ends, Task, Comments, Attachments

(***************************************************************************)
(* The theorems.                                                           *)
(***************************************************************************)

ReadingInv == ClientInv /\ CommentInv /\ AttachmentInv

LEMMA InitReading == Init => ReadingInv
<1> SUFFICES ASSUME Init PROVE ReadingInv
  OBVIOUS
<1> USE ReadingAssumption DEF Init
<1>1. ClientInv
  <2>1. queue \in Seq(Clients) /\ Len(queue) = 0
    OBVIOUS
  <2>2. ClientTypes /\ AttemptLeft
    BY <2>1 DEF ClientTypes, AttemptLeft
  <2>3. QueueKept
    BY <2>1 DEF QueueKept
  <2>4. Holders = {}
    BY DEF Holders
  <2>5. HoldersFit
    BY <2>4, FS_EmptySet DEF HoldersFit
  <2> QED
    BY <2>2, <2>3, <2>5 DEF ClientInv
<1>2. CommentTypes
  BY DEF CommentTypes
<1>3. ThreadInv
  BY DEF ThreadInv
<1>4. ThreadReadWhole
  BY DEF ThreadReadWhole
<1>5. AttachmentTypes /\ DownloadCounted /\ BudgetKept
  BY TasksAreClients DEF AttachmentTypes, DownloadCounted, BudgetKept
<1> QED
  BY <1>1, <1>2, <1>3, <1>4, <1>5 DEF ReadingInv, CommentInv, AttachmentInv

LEMMA ReadingInvAlways == Spec => []ReadingInv
<1>1. ReadingInv /\ [Next]_vars => ReadingInv'
  BY ClientInvStep, CommentInvStep, AttachmentInvStep DEF ReadingInv, CommentInv
<1> QED
  BY InitReading, <1>1, PTL DEF Spec

\* Every variable keeps its type: no request is tried more often than
\* MaxRetries, whoever asks (JiraClient::send).
THEOREM TypeCorrect == Spec => []TypeOK
<1>1. ReadingInv => TypeOK
  BY DEF ReadingInv, ClientInv, CommentInv, AttachmentInv, TypeOK
<1> QED
  BY <1>1, ReadingInvAlways, PTL

\* No more requests are on their way than the client has permits, and who waits
\* for one is in its queue once (JiraClient::send).
THEOREM RequestsWithinPermits == Spec => []PermitsKept
<1>1. ASSUME ReadingInv PROVE PermitsKept
  <2> DEFINE Sent == {c \in Clients : request[c] = "sent"}
  <2>1. IsFiniteSet(Holders) /\ Sent \subseteq Holders
    BY ClientsFinite, FS_Subset DEF Holders
  <2>2. /\ IsFiniteSet(Sent) /\ Cardinality(Sent) <= Cardinality(Holders)
    BY <2>1, FS_Subset
  <2>3. Cardinality(Sent) \in Nat /\ Cardinality(Holders) \in Nat
    BY <2>1, <2>2, FS_CardinalityType
  <2>4. Cardinality(Sent) <= Concurrency
    BY <1>1, <2>2, <2>3, ReadingAssumption DEF ReadingInv, ClientInv, HoldersFit
  <2> QED
    BY <1>1, <2>4 DEF ReadingInv, ClientInv, QueueKept, PermitsKept
<1> QED
  BY <1>1, ReadingInvAlways, PTL

\* A thread whose paging completed was read whole (JiraClient::comments_from and
\* comment_paging).
THEOREM ThreadsReadWhole == Spec => []ThreadReadWhole
<1>1. ReadingInv => ThreadReadWhole
  BY DEF ReadingInv, CommentInv
<1> QED
  BY <1>1, ReadingInvAlways, PTL

\* The attachments an issue keeps in memory cost exactly what its budget lost
\* (attachments.rs).
THEOREM AttachmentsWithinBudget == Spec => []BudgetKept
<1>1. ReadingInv => BudgetKept
  BY DEF ReadingInv, AttachmentInv
<1> QED
  BY <1>1, ReadingInvAlways, PTL
=============================================================================
