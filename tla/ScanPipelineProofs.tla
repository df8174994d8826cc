------------------------- MODULE ScanPipelineProofs -------------------------
(***************************************************************************)
(* Proofs about ScanPipeline, for every size of the result, page size,     *)
(* server limit, issue limit and concurrency.                              *)
(***************************************************************************)
EXTENDS ScanPipeline, FiniteSetTheorems, TLAPS

\* Where the fetcher stands in the result: it never goes back, stays inside
\* the result while it pages, and holds a real issue when it is about to send.
FetcherPosition ==
    /\ pnext >= 1
    /\ fpc \in {"top", "search"} => pnext <= startAt + 1
    /\ fpc \notin {"done", "failed"} => startAt <= NumIssues
    /\ fpc \in {"item", "send", "pageEnd"} =>
           pnext <= pend + 1 /\ pend <= startAt + PageSize
    /\ fpc = "send" => pnext <= pend

\* The consumer's program counter and the issue in its hand.
ConsumerHand ==
    /\ cpc = "recv" => hand = 0
    /\ cpc \in {"check", "room"} => hand # 0

\* The inductive core of DeliveredInOrder.
OrderInv == TypeOK /\ FetcherPosition /\ ConsumerHand /\ DeliveredInOrder

USE ScanAssumption DEF Issues

LEMMA OrderInit == Init => OrderInv
<1> SUFFICES ASSUME Init PROVE OrderInv
    OBVIOUS
<1>1. TypeOK
      <2>1. chan \in Seq(Issues) BY DEF Init
      <2>2. task \in [Issues -> {"none", "running", "collected"} \cup Finished]
            BY DEF Init
      <2>3. /\ startAt \in Nat /\ pnext \in Nat /\ pend \in 0..NumIssues
            /\ fetched \in Nat /\ hand \in Issues \cup {0}
            /\ errorsTotal \in Nat /\ issuesDone \in Nat /\ issuesTotal \in Nat
            BY DEF Init
      <2>4. /\ fpc = "top" /\ cpc = "recv" /\ status = "Running"
            /\ scanned = {} /\ allFindings = {} /\ cancel = FALSE
            BY DEF Init
      <2>5. QED BY <2>1, <2>2, <2>3, <2>4 DEF TypeOK
<1>2. FetcherPosition /\ ConsumerHand
      BY DEF Init, FetcherPosition, ConsumerHand
<1>3. DeliveredInOrder
      BY DEF Init, DeliveredInOrder
<1>4. QED
      BY <1>1, <1>2, <1>3 DEF OrderInv

LEMMA TypeFetcher == OrderInv /\ Fetcher => TypeOK'
<1> SUFFICES ASSUME OrderInv, Fetcher PROVE TypeOK'
    OBVIOUS
<1> USE DEF OrderInv, TypeOK, FetcherPosition, consumerVars, resultVars
<1>1. CASE FetchTop BY <1>1 DEF FetchTop
<1>2. CASE SearchOk BY <1>2 DEF SearchOk, PageEnd, Least, Target
<1>3. CASE SearchFail BY <1>3 DEF SearchFail
<1>4. CASE NextItem BY <1>4 DEF NextItem
<1>5. CASE Send BY <1>5 DEF Send
<1>6. CASE EndPage BY <1>6 DEF EndPage, NextStart
<1>7. QED
      BY <1>1, <1>2, <1>3, <1>4, <1>5, <1>6 DEF Fetcher

LEMMA TypeTasks == TypeOK /\ Tasks => TypeOK'
BY DEF TypeOK, Tasks, FinishTask, Finished, fetcherVars,
       consumerVars, resultVars

\* Collecting one task keeps the types, whoever calls collect_one.
LEMMA TypeCollect ==
    ASSUME TypeOK, NEW i \in Issues, CollectOne(i), UNCHANGED cpc
    PROVE  TypeOK'
<1>1. /\ task' \in [Issues -> {"none", "running", "collected"} \cup Finished]
      /\ issuesDone' \in Nat
      BY DEF TypeOK, CollectOne
<1>2. errorsTotal' \in Nat /\ allFindings' \in SUBSET Issues
      <2>1. CASE task[i] = "panicked"
            <3>1. errorsTotal' = errorsTotal + 1 /\ UNCHANGED allFindings
                  BY <2>1 DEF CollectOne
            <3>2. QED BY <3>1 DEF TypeOK
      <2>2. CASE task[i] # "panicked" BY <2>2 DEF TypeOK, CollectOne
      <2>3. QED BY <2>1, <2>2
<1>3. UNCHANGED <<fpc, startAt, pnext, pend, fetched, chan, hand, scanned,
                  issuesTotal, cancel, status>>
      BY DEF CollectOne, fetcherVars
<1>4. QED
      BY <1>1, <1>2, <1>3 DEF TypeOK

LEMMA TypeConsumer == OrderInv /\ Consumer => TypeOK'
<1> SUFFICES ASSUME OrderInv, Consumer PROVE TypeOK'
    OBVIOUS
<1> USE DEF OrderInv, TypeOK, fetcherVars, consumerVars, resultVars, ConsumerHand
<1>1. CASE Receive BY <1>1 DEF Receive
<1>2. CASE ReceiveNone BY <1>2 DEF ReceiveNone
<1>3. CASE CheckCancel BY <1>3 DEF CheckCancel, AfterReceive
<1>4. CASE MakeRoom BY <1>4, TypeCollect DEF MakeRoom
<1>5. CASE Spawn BY <1>5 DEF Spawn
<1>6. CASE Drain BY <1>6, TypeCollect DEF Drain
<1>7. CASE LeaveDrain BY <1>7 DEF LeaveDrain
<1>8. CASE JoinFetcher BY <1>8 DEF JoinFetcher
<1>9. CASE Tally BY <1>9 DEF Tally
<1>10. QED
       BY <1>1, <1>2, <1>3, <1>4, <1>5, <1>6, <1>7, <1>8, <1>9 DEF Consumer
LEMMA PositionStep == OrderInv /\ [Next]_vars => FetcherPosition'
<1> SUFFICES ASSUME OrderInv, [Next]_vars PROVE FetcherPosition'
    OBVIOUS
<1> USE DEF OrderInv, TypeOK, FetcherPosition
<1>1. CASE FetchTop BY <1>1 DEF FetchTop
<1>2. CASE SearchOk BY <1>2 DEF SearchOk, PageEnd, Least
<1>3. CASE SearchFail BY <1>3 DEF SearchFail
<1>4. CASE NextItem BY <1>4 DEF NextItem, LeavePage
<1>5. CASE Send BY <1>5 DEF Send
<1>6. CASE EndPage BY <1>6 DEF EndPage, NextStart
<1>7. CASE UNCHANGED fetcherVars BY <1>7 DEF fetcherVars
<1>8. QED
      BY <1>1, <1>2, <1>3, <1>4, <1>5, <1>6, <1>7
      DEF Next, Fetcher, Tasks, FinishTask, Consumer, Cancel, vars, fetcherVars,
          Receive, ReceiveNone, CheckCancel, MakeRoom, Spawn, Drain, LeaveDrain,
          JoinFetcher, Tally, CollectOne

LEMMA HandStep == OrderInv /\ [Next]_vars => ConsumerHand'
<1> SUFFICES ASSUME OrderInv, [Next]_vars PROVE ConsumerHand'
    OBVIOUS
<1> USE DEF OrderInv, TypeOK, ConsumerHand
<1>1. CASE Receive BY <1>1 DEF Receive
<1>2. CASE CheckCancel BY <1>2 DEF CheckCancel, AfterReceive
<1>3. CASE Spawn BY <1>3 DEF Spawn
<1>4. CASE ReceiveNone \/ LeaveDrain \/ JoinFetcher \/ Tally
      BY <1>4 DEF ReceiveNone, LeaveDrain, JoinFetcher, Tally
<1>5. CASE UNCHANGED <<cpc, hand>> BY <1>5
<1>6. QED
      BY <1>1, <1>2, <1>3, <1>4, <1>5
      DEF Next, Fetcher, Tasks, FinishTask, Consumer, Cancel, vars, consumerVars,
          FetchTop, SearchOk, SearchFail, NextItem, Send, EndPage,
          MakeRoom, Drain, CollectOne

LEMMA DeliveryStep == OrderInv /\ [Next]_vars => DeliveredInOrder'
<1> SUFFICES ASSUME OrderInv, [Next]_vars PROVE DeliveredInOrder'
    OBVIOUS
<1> USE DEF OrderInv, TypeOK
<1>1. CASE SearchOk
      <2>1. pnext <= pnext' /\ pnext' \in Nat
            BY <1>1 DEF SearchOk, FetcherPosition
      <2>2. UNCHANGED <<scanned, hand, chan>>
            BY <1>1 DEF SearchOk, consumerVars
      <2>3. QED BY <2>1, <2>2 DEF DeliveredInOrder
<1>2. CASE Send
      <2>1. /\ Len(chan') = Len(chan) + 1
            /\ chan'[Len(chan) + 1] = pnext
            /\ \A k \in 1..Len(chan) : chan'[k] = chan[k]
            BY <1>2 DEF Send
      <2>2. pnext' = pnext + 1 /\ UNCHANGED <<scanned, hand>>
            BY <1>2 DEF Send, consumerVars
      <2>3. hand' < pnext' /\ \A i \in scanned' : i < pnext' /\ (hand' # 0 => i < hand')
            BY <2>2 DEF DeliveredInOrder
      <2>4. ASSUME NEW k \in 1..Len(chan')
            PROVE  /\ chan'[k] < pnext'
                   /\ hand' < chan'[k]
                   /\ \A i \in scanned' : i < chan'[k]
                   /\ \A l \in 1..Len(chan') : k < l => chan'[k] < chan'[l]
            <3>1. CASE k = Len(chan) + 1
                  BY <2>1, <2>2, <3>1 DEF DeliveredInOrder
            <3>2. CASE k \in 1..Len(chan)
                  <4>1. chan'[k] = chan[k] /\ chan[k] < pnext
                        BY <2>1, <3>2 DEF DeliveredInOrder
                  <4>2. ASSUME NEW l \in 1..Len(chan'), k < l
                        PROVE  chan'[k] < chan'[l]
                        <5>1. CASE l = Len(chan) + 1
                              BY <2>1, <4>1, <5>1
                        <5>2. CASE l \in 1..Len(chan)
                              BY <2>1, <3>2, <4>1, <4>2, <5>2 DEF DeliveredInOrder
                        <5>3. QED BY <2>1, <5>1, <5>2
                  <4>3. QED BY <2>2, <3>2, <4>1, <4>2 DEF DeliveredInOrder
            <3>3. QED BY <2>1, <3>1, <3>2
      <2>5. QED BY <2>3, <2>4 DEF DeliveredInOrder
<1>3. CASE Receive
      <2>1. /\ chan # <<>> /\ hand' = chan[1] /\ chan' = Tail(chan)
            /\ UNCHANGED <<scanned, pnext>>
            BY <1>3 DEF Receive, fetcherVars
      <2>2. /\ Len(chan) >= 1 /\ Len(chan') = Len(chan) - 1
            /\ \A k \in 1..Len(chan') : chan'[k] = chan[k + 1]
            BY <2>1
      <2>3. hand' < pnext' /\ \A i \in scanned' : i < pnext' /\ i < hand'
            BY <2>1, <2>2 DEF DeliveredInOrder
      <2>4. ASSUME NEW k \in 1..Len(chan')
            PROVE  /\ chan'[k] < pnext'
                   /\ hand' < chan'[k]
                   /\ \A i \in scanned' : i < chan'[k]
                   /\ \A l \in 1..Len(chan') : k < l => chan'[k] < chan'[l]
            <3>0. Len(chan) \in Nat /\ Len(chan') \in Nat /\ k \in Nat
                  BY <2>1 DEF OrderInv, TypeOK
            <3>1. k + 1 \in 1..Len(chan) /\ 1 \in 1..Len(chan) /\ 1 < k + 1
                  BY <2>2, <3>0
            <3>2. chan'[k] = chan[k + 1]
                  BY <2>2, Zenon
            <3>3. ASSUME NEW l \in 1..Len(chan'), k < l
                  PROVE  chan'[k] < chan'[l]
                  <4>1. l + 1 \in 1..Len(chan) /\ k + 1 < l + 1
                        BY <2>2, <3>3, <3>0
                  <4>2. chan'[l] = chan[l + 1]
                        BY <2>2, <3>3, Zenon
                  <4>3. QED BY <3>1, <3>2, <4>1, <4>2 DEF DeliveredInOrder
            <3>4. QED BY <2>1, <3>1, <3>2, <3>3 DEF DeliveredInOrder
      <2>5. QED BY <2>3, <2>4 DEF DeliveredInOrder
<1>4. CASE Spawn
      <2>1. /\ scanned' = scanned \cup {hand} /\ hand' = 0
            /\ UNCHANGED <<chan, pnext>>
            BY <1>4 DEF Spawn, fetcherVars
      <2>2. pnext >= 1 /\ \A k \in 1..Len(chan) : chan[k] \in Issues
            BY DEF FetcherPosition
      <2>3. QED BY <2>1, <2>2 DEF DeliveredInOrder
<1>5. CASE UNCHANGED <<scanned, hand, chan, pnext>>
      BY <1>5 DEF DeliveredInOrder
<1>6. QED
      BY <1>1, <1>2, <1>3, <1>4, <1>5
      DEF Next, Fetcher, Tasks, FinishTask, Consumer, Cancel, vars, consumerVars,
          fetcherVars, FetchTop, SearchFail, NextItem, EndPage, ReceiveNone,
          CheckCancel, MakeRoom, Drain, LeaveDrain, JoinFetcher, Tally, CollectOne

LEMMA OrderStep == OrderInv /\ [Next]_vars => OrderInv'
<1> SUFFICES ASSUME OrderInv, [Next]_vars PROVE OrderInv'
    OBVIOUS
<1>1. TypeOK'
      <2>1. CASE Cancel
            BY <2>1 DEF Cancel, OrderInv, TypeOK, fetcherVars, consumerVars,
                        resultVars
      <2>2. CASE UNCHANGED vars
            BY <2>2 DEF vars, OrderInv, TypeOK
      <2>3. QED
            BY <2>1, <2>2, TypeFetcher, TypeTasks, TypeConsumer DEF Next, OrderInv
<1>2. QED
      BY <1>1, PositionStep, HandStep, DeliveryStep DEF OrderInv

\* Every variable keeps its type in every reachable state.
THEOREM TypeCorrect == Spec => []TypeOK
<1>1. OrderInv => TypeOK
      BY DEF OrderInv
<1>2. QED
      BY OrderInit, OrderStep, <1>1, PTL DEF Spec

\* Issues move from the fetcher through the channel and the consumer's hand
\* to the tasks in the order of the search result, each in one place at a
\* time, so no issue is spawned twice and none overtakes another.
THEOREM DeliveryOrder == Spec => []DeliveredInOrder
<1>1. OrderInv => DeliveredInOrder
      BY DEF OrderInv
<1>2. QED
      BY OrderInit, OrderStep, <1>1, PTL DEF Spec
-----------------------------------------------------------------------------
(* The counters and the bound on the work in memory.                       *)

LedgerInv == OrderInv /\ CountersAgree /\ Backpressure

LEMMA IssuesFinite ==
    ASSUME NEW S \in SUBSET Issues
    PROVE  IsFiniteSet(S) /\ Cardinality(S) \in Nat
<1>1. IsFiniteSet(1..NumIssues)
      BY 1 \in Int, NumIssues \in Int, FS_Interval
<1>2. IsFiniteSet(S)
      BY <1>1, FS_Subset
<1>3. QED
      BY <1>2, FS_CardinalityType

\* What collect_one does to the sets the counters are compared with.
LEMMA CollectMoves ==
    ASSUME LedgerInv, NEW i \in Issues, CollectOne(i)
    PROVE  /\ i \in JoinSet /\ i \notin Collected
           /\ JoinSet' = JoinSet \ {i}
           /\ Collected' = Collected \cup {i}
<1>1. /\ task[i] \in Finished
      /\ \A j \in Issues : task'[j] = IF j = i THEN "collected" ELSE task[j]
      BY DEF CollectOne, LedgerInv, OrderInv, TypeOK
<1>2. QED
      BY <1>1 DEF JoinSet, Collected, Finished

LEMMA CollectLedger ==
    ASSUME LedgerInv, NEW i \in Issues, CollectOne(i)
    PROVE  CountersAgree' /\ Backpressure'
<1>1. /\ i \in JoinSet /\ i \notin Collected
      /\ JoinSet' = JoinSet \ {i} /\ Collected' = Collected \cup {i}
      BY CollectMoves
<1>2. JoinSet \in SUBSET Issues /\ Collected \in SUBSET Issues
      BY DEF JoinSet, Collected
<1>3. scanned' = scanned /\ chan' = chan /\ issuesDone' = issuesDone + 1
      BY DEF CollectOne
<1>4. issuesDone' = Cardinality(Collected')
      BY <1>1, <1>2, <1>3, IssuesFinite, FS_AddElement DEF LedgerInv, CountersAgree
<1>5. errorsTotal' = Cardinality(Collected' \ allFindings')
      /\ allFindings' \subseteq Collected'
      <2>1. CASE task[i] = "panicked"
            <3>1. errorsTotal' = errorsTotal + 1 /\ allFindings' = allFindings
                  BY <2>1 DEF CollectOne
            <3>2. Collected' \ allFindings' = (Collected \ allFindings) \cup {i}
                  BY <1>1, <3>1 DEF LedgerInv, CountersAgree
            <3>3. Collected \ allFindings \in SUBSET Issues
                  BY <1>2
            <3>4. Cardinality(Collected' \ allFindings')
                     = Cardinality(Collected \ allFindings) + 1
                  BY <1>1, <3>2, <3>3, IssuesFinite, FS_AddElement
            <3>5. QED
                  BY <1>1, <3>1, <3>4 DEF LedgerInv, CountersAgree
      <2>2. CASE task[i] # "panicked"
            <3>1. errorsTotal' = errorsTotal /\ allFindings' = allFindings \cup {i}
                  BY <2>2 DEF CollectOne
            <3>2. Collected' \ allFindings' = Collected \ allFindings
                  BY <1>1, <3>1
            <3>3. QED
                  BY <1>1, <3>1, <3>2 DEF LedgerInv, CountersAgree
      <2>3. QED BY <2>1, <2>2
<1>6. Cardinality(JoinSet') <= Cardinality(JoinSet)
      /\ Cardinality(JoinSet') \in Nat /\ Cardinality(JoinSet) \in Nat
      BY <1>1, <1>2, IssuesFinite, FS_RemoveElement
<1>7. Backpressure'
      BY <1>3, <1>6 DEF LedgerInv, Backpressure, ChannelCap
<1>8. QED
      BY <1>1, <1>3, <1>4, <1>5, <1>7 DEF LedgerInv, CountersAgree

LEMMA SpawnLedger ==
    ASSUME LedgerInv, Spawn
    PROVE  CountersAgree' /\ Backpressure'
<1>1. /\ hand \in Issues /\ hand \notin scanned
      /\ scanned' = scanned \cup {hand}
      BY DEF Spawn, LedgerInv, OrderInv, TypeOK, ConsumerHand, DeliveredInOrder
<1>2. \A j \in Issues : task'[j] = IF j = hand THEN "running" ELSE task[j]
      BY <1>1 DEF Spawn, LedgerInv, OrderInv, TypeOK
<1>3. hand \notin JoinSet /\ hand \notin Collected
      BY <1>1 DEF LedgerInv, CountersAgree
<1>4. JoinSet' = JoinSet \cup {hand} /\ Collected' = Collected
      BY <1>1, <1>2, <1>3 DEF JoinSet, Collected, Finished
<1>5. JoinSet \in SUBSET Issues
      BY DEF JoinSet
<1>6. Cardinality(JoinSet') = Cardinality(JoinSet) + 1
      /\ Cardinality(JoinSet) \in Nat
      BY <1>3, <1>4, <1>5, IssuesFinite, FS_AddElement
<1>7. ~(Cardinality(JoinSet) >= 2 * Concurrency) /\ chan' = chan
      BY DEF Spawn, NoRoom
<1>8. Backpressure'
      BY <1>6, <1>7 DEF LedgerInv, Backpressure, ChannelCap
<1>9. UNCHANGED <<allFindings, errorsTotal, issuesDone>>
      BY DEF Spawn, resultVars
<1>10. QED
      BY <1>1, <1>4, <1>8, <1>9 DEF LedgerInv, CountersAgree

LEMMA LedgerStep == LedgerInv /\ [Next]_vars => LedgerInv'
<1> SUFFICES ASSUME LedgerInv, [Next]_vars PROVE CountersAgree' /\ Backpressure'
    BY OrderStep DEF LedgerInv
<1>1. CASE UNCHANGED <<scanned, task, resultVars, chan>>
      BY <1>1 DEF LedgerInv, CountersAgree, Backpressure, JoinSet, Collected,
                  resultVars
<1>2. CASE Send
      <2>1. Len(chan') = Len(chan) + 1 /\ Len(chan) \in Nat
            BY <1>2 DEF Send, LedgerInv, OrderInv, TypeOK
      <2>2. Len(chan') <= ChannelCap
            BY <1>2, <2>1 DEF Send, ChannelRoom, ChannelCap
      <2>3. QED
            BY <1>2, <2>2 DEF Send, LedgerInv, CountersAgree, Backpressure,
                              JoinSet, Collected, consumerVars, resultVars
<1>3. CASE Receive
      <2>1. Len(chan') <= Len(chan) /\ Len(chan') \in Nat /\ Len(chan) \in Nat
            BY <1>3 DEF Receive, LedgerInv, OrderInv, TypeOK
      <2>2. QED
            BY <1>3, <2>1 DEF Receive, LedgerInv, CountersAgree, Backpressure,
                              ChannelCap, JoinSet, Collected, resultVars
<1>4. CASE Tasks
      <2>1. JoinSet' = JoinSet /\ Collected' = Collected
            BY <1>4 DEF Tasks, FinishTask, JoinSet, Collected, Finished,
                        LedgerInv, OrderInv, TypeOK
      <2>2. QED
            BY <1>4, <2>1 DEF Tasks, FinishTask, LedgerInv, CountersAgree,
                              Backpressure, consumerVars, resultVars
<1>5. CASE MakeRoom \/ Drain
      BY <1>5, CollectLedger DEF MakeRoom, Drain
<1>6. CASE Spawn
      BY <1>6, SpawnLedger
<1>7. QED
      BY <1>1, <1>2, <1>3, <1>4, <1>5, <1>6
      DEF Next, Fetcher, Consumer, Cancel, vars, consumerVars, fetcherVars,
          resultVars, FetchTop, SearchOk, SearchFail, NextItem, EndPage,
          ReceiveNone, CheckCancel, LeaveDrain, JoinFetcher, Tally

LEMMA LedgerInit == Init => LedgerInv
<1> SUFFICES ASSUME Init PROVE LedgerInv
    OBVIOUS
<1>1. JoinSet = {} /\ Collected = {}
      BY DEF Init, JoinSet, Collected, Finished
<1>2. Cardinality({}) = 0
      BY FS_EmptySet
<1>3. scanned = {} /\ allFindings = {} /\ errorsTotal = 0 /\ issuesDone = 0
      BY DEF Init
<1>4. CountersAgree
      BY <1>1, <1>2, <1>3 DEF CountersAgree
<1>5. Backpressure
      BY <1>1, <1>2 DEF Init, Backpressure, ChannelCap
<1>6. QED
      BY OrderInit, <1>4, <1>5 DEF LedgerInv

\* At every moment issues_done is the number of tasks taken out of the
\* JoinSet and errors_total the number of those whose findings were not merged.
THEOREM CountersCorrect == Spec => []CountersAgree
<1>1. LedgerInv => CountersAgree
      BY DEF LedgerInv
<1>2. QED
      BY LedgerInit, LedgerStep, <1>1, PTL DEF Spec

\* The channel and the JoinSet never hold more than 2 * concurrency issues
\* each, whatever the size of the search result.
THEOREM BoundedWork == Spec => []Backpressure
<1>1. LedgerInv => Backpressure
      BY DEF LedgerInv
<1>2. QED
      BY LedgerInit, LedgerStep, <1>1, PTL DEF Spec
-----------------------------------------------------------------------------
(* The contract, for a server that never returns a page shorter than the   *)
(* one asked for.                                                          *)

FullPages == ServerLimit >= PageSize

\* With full pages the offsets add up: what was sent is a prefix of the
\* result, and a fetcher that ends by itself has sent all it was asked for.
ExactFetch ==
    /\ fetched = pnext - 1
    /\ fetched <= Target
    /\ fpc = "top" => cancel \/ pnext = startAt + 1
    /\ fpc = "search" => pnext = startAt + 1
    /\ fpc \in {"item", "send", "pageEnd"} =>
           pend = Least(startAt + PageSize, NumIssues)
    /\ fpc = "send" => ~LimitReached
    /\ fpc = "pageEnd" => pnext = pend + 1 \/ cancel \/ LimitReached
    /\ fpc = "done" => cancel \/ fetched = Target

\* Nothing that was sent gets lost on the way, and the consumer leaves its
\* loops only when there is nothing left for them to do.
NothingLost ==
    /\ \A i \in Issues : i < pnext =>
           i \in scanned \/ i = hand \/ \E k \in 1..Len(chan) : chan[k] = i
    /\ cpc \in {"drain", "join", "tally", "end"} /\ ~cancel =>
           hand = 0 /\ chan = <<>> /\ fpc \in {"done", "failed"}
    /\ cpc \in {"join", "tally", "end"} => JoinSet = {}
    /\ cpc = "tally" => fpc = "done"
    /\ cpc # "end" => status = "Running"

ContractInv == LedgerInv /\ ExactFetch /\ NothingLost

LEMMA ContractInit == Init => ContractInv
<1> SUFFICES ASSUME Init PROVE ContractInv
    OBVIOUS
<1>1. ExactFetch
      BY DEF Init, ExactFetch, Target, Least
<1>2. NothingLost
      BY DEF Init, NothingLost
<1>3. QED
      BY LedgerInit, <1>1, <1>2 DEF ContractInv

LEMMA ExactFetchStep ==
    ASSUME FullPages, ContractInv, [Next]_vars
    PROVE  ExactFetch'
<1> USE DEF ContractInv, LedgerInv, OrderInv, TypeOK, FetcherPosition, ExactFetch,
            FullPages
<1>1. CASE FetchTop BY <1>1 DEF FetchTop, Target, Least, LimitReached
<1>2. CASE SearchOk
      BY <1>2 DEF SearchOk, PageEnd, Least, Target, LimitReached
<1>3. CASE SearchFail BY <1>3 DEF SearchFail, LimitReached
<1>4. CASE NextItem BY <1>4 DEF NextItem, LeavePage, LimitReached
<1>5. CASE Send BY <1>5 DEF Send, LimitReached, Target, Least
<1>6. CASE EndPage BY <1>6 DEF EndPage, NextStart, LimitReached, Target, Least
<1>7. CASE Cancel BY <1>7 DEF Cancel, fetcherVars, LimitReached
<1>8. CASE UNCHANGED <<fetcherVars, cancel>>
      BY <1>8 DEF fetcherVars, LimitReached
<1>9. QED
      BY <1>1, <1>2, <1>3, <1>4, <1>5, <1>6, <1>7, <1>8
      DEF Next, Fetcher, Tasks, FinishTask, Consumer, vars, fetcherVars,
          Receive, ReceiveNone, CheckCancel, MakeRoom, Spawn, Drain, LeaveDrain,
          JoinFetcher, Tally, CollectOne
\* Only Spawn adds to the JoinSet, so it stays empty once the drain is left.
LEMMA JoinSetStep ==
    ASSUME ContractInv, [Next]_vars, cpc \in {"join", "tally", "end"}
    PROVE  JoinSet' = {}
<1>1. JoinSet = {}
      BY DEF ContractInv, NothingLost
<1>2. ASSUME NEW i \in Issues PROVE ~CollectOne(i) /\ task[i] # "running"
      BY <1>1 DEF CollectOne, JoinSet, Finished
<1>3. UNCHANGED task
      BY <1>2 DEF Next, Fetcher, Tasks, FinishTask, Consumer, Cancel, vars,
          FetchTop, SearchOk, SearchFail, NextItem, Send, EndPage,
          Receive, ReceiveNone, CheckCancel, MakeRoom, Spawn, Drain, LeaveDrain,
          JoinFetcher, Tally
<1>4. QED
      BY <1>1, <1>3 DEF JoinSet

\* The first conjunct of NothingLost: an issue once sent stays somewhere.
LEMMA NoIssueLost ==
    ASSUME ContractInv, [Next]_vars, NEW i \in Issues, i < pnext'
    PROVE  i \in scanned' \/ i = hand' \/ \E k \in 1..Len(chan') : chan'[k] = i
<1> DEFINE Somewhere == i \in scanned \/ i = hand \/ \E k \in 1..Len(chan) : chan[k] = i
<1> USE DEF ContractInv, LedgerInv, OrderInv, TypeOK
<1>1. i < pnext => Somewhere
      BY DEF NothingLost
<1>2. CASE SearchOk
      BY <1>1, <1>2 DEF SearchOk, ExactFetch, consumerVars
<1>3. CASE Send
      <2>1. /\ Len(chan') = Len(chan) + 1
            /\ chan'[Len(chan) + 1] = pnext
            /\ \A k \in 1..Len(chan) : chan'[k] = chan[k]
            BY <1>3 DEF Send
      <2>2. pnext' = pnext + 1 /\ UNCHANGED <<scanned, hand>>
            BY <1>3 DEF Send, consumerVars
      <2>3. CASE i = pnext
            <3>1. Len(chan') \in 1..Len(chan') /\ chan'[Len(chan')] = i
                  BY <2>1, <2>3
            <3>2. QED BY <3>1
      <2>4. CASE i < pnext
            <3>1. \A k \in 1..Len(chan) : k \in 1..Len(chan')
                  BY <2>1
            <3>2. QED BY <1>1, <2>1, <2>2, <2>4, <3>1
      <2>5. QED BY <2>2, <2>3, <2>4
<1>4. CASE Receive
      <2>1. /\ chan # <<>> /\ hand' = chan[1] /\ chan' = Tail(chan)
            /\ UNCHANGED <<scanned, pnext>> /\ hand = 0
            BY <1>4 DEF Receive, fetcherVars, ConsumerHand
      <2>2. /\ Len(chan) >= 1 /\ Len(chan') = Len(chan) - 1
            /\ \A k \in 1..Len(chan') : chan'[k] = chan[k + 1]
            BY <2>1
      <2>3. ASSUME NEW k \in 1..Len(chan), chan[k] = i, k # 1
            PROVE  \E l \in 1..Len(chan') : chan'[l] = i
            <3>1. k - 1 \in 1..Len(chan') /\ chan'[k - 1] = chan[(k - 1) + 1]
                  BY <2>2, <2>3
            <3>2. QED BY <2>3, <3>1
      <2>4. QED BY <1>1, <2>1, <2>3
<1>5. CASE Spawn
      BY <1>1, <1>5 DEF Spawn, fetcherVars
<1>6. CASE UNCHANGED <<scanned, hand, chan, pnext>>
      BY <1>1, <1>6
<1>7. QED
      BY <1>2, <1>3, <1>4, <1>5, <1>6
      DEF Next, Fetcher, Tasks, FinishTask, Consumer, Cancel, vars, consumerVars,
          fetcherVars, FetchTop, SearchFail, NextItem, EndPage, ReceiveNone,
          CheckCancel, MakeRoom, Drain, LeaveDrain, JoinFetcher, Tally, CollectOne

LEMMA NothingLostStep ==
    ASSUME ContractInv, [Next]_vars
    PROVE  NothingLost'
<1> USE DEF ContractInv, LedgerInv, OrderInv, TypeOK
<1>1. cpc' \in {"drain", "join", "tally", "end"} /\ ~cancel' =>
          hand' = 0 /\ chan' = <<>> /\ fpc' \in {"done", "failed"}
      <2>1. CASE Fetcher
            BY <2>1 DEF NothingLost, Fetcher, FetchTop, SearchOk, SearchFail,
                        NextItem, Send, EndPage, consumerVars
      <2>2. CASE Consumer
            BY <2>2 DEF NothingLost, ConsumerHand, Consumer, Receive, ReceiveNone,
                        CheckCancel, AfterReceive, MakeRoom, Spawn, Drain,
                        LeaveDrain, JoinFetcher, Tally, CollectOne, fetcherVars
      <2>3. CASE Tasks \/ Cancel \/ UNCHANGED vars
            BY <2>3 DEF NothingLost, Tasks, FinishTask, Cancel, vars,
                        consumerVars, fetcherVars
      <2>4. QED BY <2>1, <2>2, <2>3 DEF Next
<1>2. cpc' \in {"join", "tally", "end"} => JoinSet' = {}
      <2>1. CASE LeaveDrain
            BY <2>1 DEF LeaveDrain, Drained, JoinSet
      <2>2. CASE cpc \in {"join", "tally", "end"}
            BY <2>2, JoinSetStep
      <2>3. CASE cpc \notin {"join", "tally", "end"} /\ ~LeaveDrain
            BY <2>3 DEF Next, Fetcher, Tasks, FinishTask, Consumer, Cancel, vars,
                FetchTop, SearchOk, SearchFail, NextItem, Send, EndPage,
                Receive, ReceiveNone, CheckCancel, AfterReceive, MakeRoom, Spawn,
                Drain, JoinFetcher, Tally, consumerVars
      <2>4. QED BY <2>1, <2>2, <2>3
<1>3. cpc' = "tally" => fpc' = "done"
      BY DEF NothingLost, Next, Fetcher, Tasks, FinishTask, Consumer, Cancel, vars,
             FetchTop, SearchOk, SearchFail, NextItem, Send, EndPage,
             Receive, ReceiveNone, CheckCancel, AfterReceive, MakeRoom, Spawn,
             Drain, LeaveDrain, JoinFetcher, Tally, CollectOne, consumerVars,
             fetcherVars
<1>4. cpc' # "end" => status' = "Running"
      BY DEF NothingLost, Next, Fetcher, Tasks, FinishTask, Consumer, Cancel, vars,
             FetchTop, SearchOk, SearchFail, NextItem, Send, EndPage,
             Receive, ReceiveNone, CheckCancel, AfterReceive, MakeRoom, Spawn,
             Drain, LeaveDrain, JoinFetcher, Tally, CollectOne, consumerVars
<1>5. QED
      BY <1>1, <1>2, <1>3, <1>4, NoIssueLost DEF NothingLost

LEMMA ContractStep == FullPages /\ ContractInv /\ [Next]_vars => ContractInv'
BY LedgerStep, ExactFetchStep, NothingLostStep DEF ContractInv
\* A run that tallies without a cancellation has collected the whole target.
LEMMA TargetCollected ==
    ASSUME ContractInv, cpc = "tally", ~cancel
    PROVE  1..Target = Collected
<1> USE DEF ContractInv, LedgerInv, OrderInv, TypeOK
<1>1. /\ hand = 0 /\ chan = <<>> /\ fpc = "done" /\ JoinSet = {}
      BY DEF NothingLost
<1>2. pnext = Target + 1 /\ Target \in Nat /\ Target <= NumIssues
      BY <1>1 DEF ExactFetch, Target, Least
<1>3. \A i \in Issues : i < pnext => i \in scanned
      BY <1>1 DEF NothingLost
<1>4. \A i \in scanned : i < pnext
      BY DEF DeliveredInOrder
<1>5. scanned = 1..Target
      <2>1. ASSUME NEW i \in 1..Target PROVE i \in scanned
            BY <1>2, <1>3
      <2>2. ASSUME NEW i \in scanned PROVE i \in 1..Target
            BY <1>2, <1>4
      <2>3. QED BY <2>1, <2>2
<1>6. QED
      BY <1>1, <1>5 DEF CountersAgree

\* An issue that has been spawned is one of the selection.
LEMMA ScannedInTarget ==
    ASSUME ContractInv
    PROVE  scanned \subseteq 1..Target
<1>1. pnext - 1 <= Target /\ Target \in Nat /\ pnext \in Nat
      BY DEF ContractInv, LedgerInv, OrderInv, TypeOK, ExactFetch, Target, Least
<1>2. \A i \in scanned : i < pnext /\ i \in Issues
      BY DEF ContractInv, LedgerInv, OrderInv, TypeOK, DeliveredInOrder
<1>3. QED
      BY <1>1, <1>2

LEMMA CollectSettles ==
    ASSUME ContractInv, NEW i \in Issues, CollectOne(i), cpc \in {"room", "drain"}
    PROVE  Contract!Next
<1> DEFINE v == IF task[i] = "panicked" THEN "failed" ELSE "scanned"
           V == [j \in 1..Target |-> Verdict(j)]
<1>1. /\ i \in JoinSet /\ i \notin Collected
      BY CollectMoves DEF ContractInv
<1>2. i \in 1..Target
      BY <1>1, ScannedInTarget DEF ContractInv, LedgerInv, CountersAgree
<1>3. status = "Running" /\ UNCHANGED <<status, cancel>>
      BY DEF CollectOne, ContractInv, NothingLost
<1>4. /\ i \notin allFindings
      /\ \A j \in Issues : task'[j] = IF j = i THEN "collected" ELSE task[j]
      /\ allFindings' = IF v = "failed" THEN allFindings ELSE allFindings \cup {i}
      BY <1>1 DEF CollectOne, ContractInv, LedgerInv, OrderInv, TypeOK,
                  CountersAgree
<1>5. 1..Target \subseteq Issues
      BY DEF Target, Least
<1>6. Verdict(i) = "pending"
      BY <1>1 DEF Verdict, Collected
<1>7. Verdict(i)' = v
      BY <1>4 DEF Verdict
<1>8. \A j \in 1..Target : j # i => Verdict(j)' = Verdict(j)
      BY <1>4, <1>5 DEF Verdict
<1>9. V' = [V EXCEPT ![i] = v]
      BY <1>2, <1>7, <1>8 DEF Target
<1>10. V[i] = "pending"
       BY <1>2, <1>6
<1>11. Contract!Settle(i, v)
       BY <1>3, <1>9, <1>10 DEF Contract!Settle
<1>12. v \in {"scanned", "failed"}
       OBVIOUS
<1>13. QED
       BY <1>2, <1>11, <1>12 DEF Contract!Next

LEMMA TallyConcludes ==
    ASSUME ContractInv, Tally
    PROVE  Contract!Next
<1> USE DEF Tally
<1>1. /\ cpc = "tally" /\ status = "Running" /\ JoinSet = {}
      /\ UNCHANGED <<task, allFindings, cancel>>
      BY DEF resultVars, ContractInv, NothingLost
<1>2. [i \in 1..Target |-> Verdict(i)]' = [i \in 1..Target |-> Verdict(i)]
      BY <1>1 DEF Verdict, Target
<1>3. Collected \in SUBSET Issues
      BY DEF Collected
<1>4. errorsTotal = 0 <=> Collected \subseteq allFindings
      <2>1. Collected \ allFindings \in SUBSET Issues
            BY <1>3
      <2>2. IsFiniteSet(Collected \ allFindings)
            BY <2>1, IssuesFinite
      <2>3. Cardinality(Collected \ allFindings) = 0 <=> Collected \ allFindings = {}
            BY <2>2, FS_EmptySet
      <2>4. QED
            BY <2>3 DEF ContractInv, LedgerInv, CountersAgree
<1>5. errorsTotal \in Nat
      BY DEF ContractInv, LedgerInv, OrderInv, TypeOK
<1>6. CASE cancel
      <2>1. status' = "Partial"
            BY <1>6 DEF IsPartial
      <2>2. Contract!EndPartial
            BY <1>1, <1>2, <1>6, <2>1 DEF Contract!EndPartial
      <2>3. QED BY <2>2 DEF Contract!Next
<1>7. CASE ~cancel /\ errorsTotal = 0
      <2>1. status' = "Success"
            BY <1>7 DEF IsPartial
      <2>2. \A i \in 1..Target : Verdict(i) = "scanned"
            BY <1>4, <1>7, <1>1, TargetCollected DEF Verdict, Collected
      <2>3. Contract!Succeed
            BY <1>1, <1>2, <1>7, <2>1, <2>2 DEF Contract!Succeed
      <2>4. QED BY <2>3 DEF Contract!Next
<1>8. CASE ~cancel /\ errorsTotal # 0
      <2>1. status' = "Partial"
            BY <1>5, <1>8 DEF IsPartial
      <2>2. PICK i \in Collected : i \notin allFindings
            BY <1>4, <1>8
      <2>3. Collected = 1..Target
            BY <1>1, <1>8, TargetCollected
      <2>4. i \in 1..Target /\ Verdict(i) = "failed"
            BY <2>2, <2>3 DEF Verdict, Collected
      <2>5. \A j \in 1..Target : Verdict(j) # "pending"
            BY <2>3 DEF Verdict, Collected
      <2>6. Contract!EndPartial
            BY <1>1, <1>2, <2>1, <2>4, <2>5 DEF Contract!EndPartial
      <2>7. QED BY <2>6 DEF Contract!Next
<1>9. QED
      BY <1>6, <1>7, <1>8

LEMMA ContractNext ==
    ASSUME ContractInv, [Next]_vars
    PROVE  [Contract!Next]_Contract!contractVars
<1> DEFINE V == [i \in 1..Target |-> Verdict(i)]
<1>1. UNCHANGED <<task, allFindings>> => V' = V
      BY DEF Verdict, Target
<1>2. CASE UNCHANGED <<task, allFindings, cancel, status>>
      BY <1>1, <1>2 DEF Contract!contractVars
<1>3. CASE Tasks
      <2>1. PICK i \in Issues, how \in Finished : FinishTask(i, how)
            BY <1>3 DEF Tasks
      <2>2. UNCHANGED <<allFindings, cancel, status>>
            BY <2>1 DEF FinishTask, resultVars
      <2>3. \A j \in Issues : task'[j] = "collected" <=> task[j] = "collected"
            BY <2>1 DEF FinishTask, Finished, ContractInv, LedgerInv, OrderInv,
                        TypeOK
      <2>4. \A j \in 1..Target : Verdict(j)' = Verdict(j)
            BY <2>2, <2>3 DEF Verdict, Target, Least
      <2>5. V' = V
            BY <2>4 DEF Target
      <2>6. QED BY <2>2, <2>5 DEF Contract!contractVars
<1>4. CASE MakeRoom \/ Drain
      BY <1>4, CollectSettles DEF MakeRoom, Drain
<1>5. CASE Spawn
      <2>1. UNCHANGED <<allFindings, cancel, status>> /\ hand \in Issues
            BY <1>5 DEF Spawn, resultVars, ContractInv, LedgerInv, OrderInv,
                        TypeOK, ConsumerHand
      <2>2. hand \notin Collected
            BY <1>5 DEF Spawn, ContractInv, LedgerInv, OrderInv, TypeOK,
                        CountersAgree, DeliveredInOrder
      <2>3. \A j \in Issues : task'[j] = "collected" <=> task[j] = "collected"
            BY <1>5, <2>1, <2>2 DEF Spawn, Collected, ContractInv, LedgerInv,
                                    OrderInv, TypeOK
      <2>4. \A j \in 1..Target : Verdict(j)' = Verdict(j)
            BY <2>1, <2>3 DEF Verdict, Target, Least
      <2>5. V' = V
            BY <2>4 DEF Target
      <2>6. QED BY <2>1, <2>5 DEF Contract!contractVars
<1>6. CASE JoinFetcher
      <2>1. UNCHANGED <<task, allFindings, cancel>> /\ V' = V /\ status = "Running"
            BY <1>1, <1>6 DEF JoinFetcher, resultVars, ContractInv, NothingLost
      <2>2. CASE status' = status
            BY <2>1, <2>2 DEF Contract!contractVars
      <2>3. CASE status' = "Error"
            BY <2>1, <2>3 DEF Contract!Abort, Contract!Next
      <2>4. QED BY <1>6, <2>2, <2>3 DEF JoinFetcher
<1>7. CASE Tally
      BY <1>7, TallyConcludes
<1>8. CASE Cancel
      <2>1. status = "Running" /\ cancel' = TRUE /\ UNCHANGED status /\ V' = V
            BY <1>1, <1>8 DEF Cancel, resultVars
      <2>2. Contract!Cancel
            BY <2>1 DEF Contract!Cancel
      <2>3. QED BY <2>2 DEF Contract!Next
<1>9. CASE Fetcher
      <2>1. UNCHANGED <<task, allFindings, cancel, status>>
            BY <1>9 DEF Fetcher, FetchTop, SearchOk, SearchFail, NextItem, Send,
                        EndPage, resultVars
      <2>2. QED BY <1>2, <2>1
<1>10. CASE Receive \/ ReceiveNone \/ CheckCancel \/ LeaveDrain
      <2>1. UNCHANGED <<task, allFindings, cancel, status>>
            BY <1>10 DEF Receive, ReceiveNone, CheckCancel, LeaveDrain, resultVars
      <2>2. QED BY <1>2, <2>1
<1>11. CASE UNCHANGED vars
      BY <1>2, <1>11 DEF vars
<1>12. QED
      BY <1>3, <1>4, <1>5, <1>6, <1>7, <1>8, <1>9, <1>10, <1>11
      DEF Next, Consumer

\* Against a server that returns full pages, every run keeps the contract of
\* a scan: Success means every selected issue was scanned, and without a
\* cancellation no selected issue is left without a verdict.
THEOREM PipelineKeepsContract == ASSUME FullPages PROVE Spec => KeepsContract
<1>1. Init => Contract!Init
      <2>1. SUFFICES ASSUME Init PROVE Contract!Init
            OBVIOUS
      <2>2. [i \in 1..Target |-> Verdict(i)] = [i \in 1..Target |-> "pending"]
            BY <2>1 DEF Init, Verdict, Target, Least
      <2>3. QED
            BY <2>1, <2>2 DEF Init, Contract!Init
<1>2. ContractInv /\ [Next]_vars => [Contract!Next]_Contract!contractVars
      BY ContractNext
<1>3. FullPages
      OBVIOUS
<1>4. ContractInv /\ [Next]_vars => ContractInv'
      BY <1>3, ContractStep
<1>5. QED
      BY <1>1, <1>2, <1>4, ContractInit, PTL DEF Spec, KeepsContract, Contract!Spec

-----------------------------------------------------------------------------
(* Cancellation, and the progress the run reports.                         *)

\* What one step does under a cancelled token, each actor in turn.
LEMMA IntakeStep ==
    ASSUME OrderInv, [Next]_vars, cancel
    PROVE  /\ fpc' = "search" => fpc = "search"
           /\ fpc' = "send" => fpc = "send"
           /\ scanned' # scanned => cpc = "room"
           /\ cpc' = "room" => cpc = "room"
<1>1. (fpc' = "search" => fpc = "search") /\ (fpc' = "send" => fpc = "send")
      <2>1. CASE Fetcher
            BY <2>1 DEF Fetcher, FetchTop, SearchOk, SearchFail, NextItem,
                        LeavePage, Send, EndPage
      <2>2. CASE UNCHANGED fpc
            BY <2>2
      <2>3. QED
            BY <2>1, <2>2 DEF Next, Tasks, FinishTask, Consumer, Cancel, vars,
                fetcherVars, Receive, ReceiveNone, CheckCancel, MakeRoom, Spawn,
                Drain, LeaveDrain, JoinFetcher, Tally, CollectOne
<1>2. (scanned' # scanned => cpc = "room") /\ (cpc' = "room" => cpc = "room")
      <2>1. CASE Consumer
            BY <2>1 DEF Consumer, Receive, ReceiveNone, CheckCancel, AfterReceive,
                        MakeRoom, Spawn, Drain, LeaveDrain, JoinFetcher, Tally,
                        CollectOne
      <2>2. CASE UNCHANGED <<cpc, scanned>>
            BY <2>2
      <2>3. QED
            BY <2>1, <2>2 DEF Next, Fetcher, Tasks, FinishTask, Cancel, vars,
                consumerVars, FetchTop, SearchOk, SearchFail, NextItem, Send,
                EndPage
<1>3. QED
      BY <1>1, <1>2

\* Once the token is cancelled no search starts, and the fetcher and the
\* consumer each finish at most the issue they were committed to, whatever the
\* page size, the limit and the concurrency.
THEOREM CancellationHolds == Spec => CancelStopsIntake
<1>1. OrderInv /\ [Next]_vars =>
          [cancel => /\ (fpc' = "search" => fpc = "search")
                     /\ (fpc' = "send" => fpc = "send")
                     /\ (scanned' # scanned => cpc = "room")
                     /\ (cpc' = "room" => cpc = "room")]_vars
      BY IntakeStep
<1>2. QED
      BY OrderInit, OrderStep, <1>1, PTL DEF Spec, CancelStopsIntake

\* The total is announced with the first page, before any issue of it is sent,
\* and a Success run counted exactly that many.
Announced ==
    /\ issuesTotal \in {0, Target}
    /\ pnext > 1 \/ fpc \in {"item", "send"} => issuesTotal = Target
    /\ status = "Success" =>
           cpc = "end" /\ issuesDone = Target /\ issuesTotal = Target

ProgressInv == ContractInv /\ Announced

LEMMA AnnouncedStep ==
    ASSUME ProgressInv, [Next]_vars
    PROVE  Announced'
<1> USE DEF ProgressInv
<1>1. Target' = Target /\ Target \in Nat /\ Target <= NumIssues
      BY DEF Target, Least
<1>2. issuesTotal' \in {0, Target}
      BY DEF Announced, Next, Fetcher, Tasks, FinishTask, Consumer, Cancel, vars,
             FetchTop, SearchOk, SearchFail, NextItem, Send, EndPage,
             Receive, ReceiveNone, CheckCancel, MakeRoom, Spawn,
             Drain, LeaveDrain, JoinFetcher, Tally, CollectOne
<1>3. pnext' > 1 \/ fpc' \in {"item", "send"} => issuesTotal' = Target
      <2>1. CASE Fetcher
            BY <2>1 DEF Announced, Fetcher, FetchTop, SearchOk, SearchFail,
                        NextItem, Send, EndPage
      <2>2. CASE UNCHANGED <<pnext, fpc, issuesTotal>>
            BY <2>2 DEF Announced
      <2>3. QED
            BY <2>1, <2>2 DEF Next, Tasks, FinishTask, Consumer, Cancel, vars,
                fetcherVars, Receive, ReceiveNone, CheckCancel, MakeRoom, Spawn,
                Drain, LeaveDrain, JoinFetcher, Tally, CollectOne
<1>4. status' = "Success" =>
          cpc' = "end" /\ issuesDone' = Target /\ issuesTotal' = Target
      <2>1. CASE Tally /\ status' = "Success"
            <3>1. cpc = "tally" /\ ~cancel /\ cpc' = "end"
                  /\ UNCHANGED <<issuesDone, issuesTotal>>
                  BY <2>1 DEF Tally, IsPartial, resultVars
            <3>2. 1..Target = Collected
                  BY <3>1, TargetCollected
            <3>3. issuesDone = Target
                  <4>1. Cardinality(1..Target) = Target
                        BY <1>1, 1 \in Int, Target \in Int, FS_Interval
                  <4>2. QED
                        BY <3>2, <4>1 DEF ContractInv, LedgerInv, CountersAgree
            <3>4. issuesTotal = Target
                  <4>1. CASE Target = 0
                        BY <4>1 DEF Announced
                  <4>2. CASE Target # 0
                        <5>1. 1 \in 1..Target
                              BY <1>1, <4>2
                        <5>2. 1 \in scanned
                              BY <3>2, <5>1 DEF ContractInv, LedgerInv, CountersAgree
                        <5>3. pnext > 1
                              BY <5>2 DEF ContractInv, LedgerInv, OrderInv, TypeOK,
                                          DeliveredInOrder
                        <5>4. QED BY <5>3 DEF Announced
                  <4>3. QED BY <4>1, <4>2
            <3>5. QED BY <3>1, <3>3, <3>4
      <2>2. CASE ~Tally /\ status' = "Success"
            <3>1. status = "Success"
                  BY <2>2 DEF Next, Fetcher, Tasks, FinishTask, Consumer, Cancel,
                      vars, FetchTop, SearchOk, SearchFail, NextItem, Send,
                      EndPage, Receive, ReceiveNone, CheckCancel, MakeRoom, Spawn,
                      Drain, LeaveDrain, JoinFetcher, CollectOne
            <3>2. cpc = "end" /\ issuesDone = Target /\ issuesTotal = Target
                  BY <3>1 DEF Announced
            <3>3. cpc' = "end" /\ issuesDone' = issuesDone
                  BY <3>2 DEF Next, Fetcher, Tasks, FinishTask, Consumer, Cancel,
                      vars, FetchTop, SearchOk, SearchFail, NextItem, Send,
                      EndPage, Receive, ReceiveNone, CheckCancel, MakeRoom, Spawn,
                      Drain, LeaveDrain, JoinFetcher, Tally, consumerVars,
                      resultVars
            <3>4. issuesTotal' = Target
                  BY <3>2 DEF Next, Fetcher, Tasks, FinishTask, Consumer, Cancel,
                      vars, FetchTop, SearchOk, SearchFail, NextItem, Send,
                      EndPage, Receive, ReceiveNone, CheckCancel, MakeRoom, Spawn,
                      Drain, LeaveDrain, JoinFetcher, Tally
            <3>5. QED BY <3>2, <3>3, <3>4
      <2>3. QED BY <2>1, <2>2
<1>5. QED
      BY <1>1, <1>2, <1>3, <1>4 DEF Announced

\* What was collected was sent, and so announced.
LEMMA DoneWithinTotal == ProgressInv => issuesDone <= issuesTotal
<1> SUFFICES ASSUME ProgressInv PROVE issuesDone <= issuesTotal
    OBVIOUS
<1> USE DEF ProgressInv
<1>1. Target \in Nat /\ Target <= NumIssues
      BY DEF Target, Least
<1>2. issuesDone = Cardinality(Collected) /\ Collected \subseteq scanned
      BY DEF ContractInv, LedgerInv, CountersAgree
<1>3. Collected \subseteq 1..Target
      BY <1>2, ScannedInTarget
<1>4. CASE Collected = {}
      BY <1>1, <1>2, <1>4, FS_EmptySet DEF Announced
<1>5. CASE Collected # {}
      <2>1. PICK i \in Collected : TRUE
            BY <1>5
      <2>2. i \in scanned /\ i >= 1 /\ i \in Int
            BY <1>2, <1>3, <2>1
      <2>3. pnext > 1
            BY <2>2 DEF ContractInv, LedgerInv, OrderInv, TypeOK, DeliveredInOrder
      <2>4. issuesTotal = Target
            BY <2>3 DEF Announced
      <2>5. IsFiniteSet(1..Target) /\ Cardinality(1..Target) = Target
            BY <1>1, 1 \in Int, Target \in Int, FS_Interval
      <2>6. Cardinality(Collected) <= Cardinality(1..Target)
            BY <1>3, <2>5, FS_Subset
      <2>7. QED BY <1>2, <2>4, <2>5, <2>6
<1>6. QED
      BY <1>4, <1>5

\* Against a server that returns full pages, "N of M issues scanned" never
\* shows N above M, and a Success run shows N = M.
THEOREM ProgressIsTrue == ASSUME FullPages PROVE Spec => []ReportedCoverage
<1>1. Init => ProgressInv
      <2>1. Init => Announced
            BY DEF Init, Announced
      <2>2. QED BY <2>1, ContractInit DEF ProgressInv
<1>2. FullPages
      OBVIOUS
<1>3. ProgressInv /\ [Next]_vars => ProgressInv'
      BY <1>2, ContractStep, AnnouncedStep DEF ProgressInv
<1>4. ProgressInv => ReportedCoverage
      BY DoneWithinTotal DEF ProgressInv, Announced, ReportedCoverage
<1>5. QED
      BY <1>1, <1>3, <1>4, PTL DEF Spec
=============================================================================
