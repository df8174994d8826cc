------------------------ MODULE IncrementalScanProofs ------------------------
(***************************************************************************)
(* Proofs about IncrementalScan.  WindowCovers holds for every number of   *)
(* issues and queries and every overlap, as long as a scan takes no longer *)
(* than the overlap less the lag of Jira's clock, max_issues is off and no *)
(* part of an issue fails to be fetched.                                   *)
(***************************************************************************)
EXTENDS IncrementalScan, TLAPS

\* The conditions under which no update is forgotten: scans shorter than the
\* overlap (the run incremental_long shows what happens otherwise), no limit on
\* the number of issues, and no part of an issue that cannot be fetched.
WideEnough ==
    /\ MaxScan + JiraLag <= Overlap
    /\ MaxIssues = 0
    /\ ~ReadsMayGap

\* Nothing is stamped later than now, and a scan keeps to its bound.
TimeInv ==
    /\ startedAt <= clock /\ finishedAt <= clock
    /\ file \in Checkpoint => file.finishedAt <= clock
    /\ phase = "scanning" => clock - startedAt <= MaxScan
    /\ phase \in {"finished", "writing"} => finishedAt - startedAt <= MaxScan

\* The window of a narrowed run is the one the checkpoint file opens.
PlanInv ==
    /\ phase = "writing" => clean
    /\ phase \in {"scanning", "finished"} /\ narrowed =>
           /\ file \in Checkpoint
           /\ file.query = query
           /\ since = WindowStart(file)

\* What a clean run has passed is read, or was updated since the run started.
PassedInv ==
    phase # "idle" /\ clean =>
        \A i \in unread :
            /\ query \in selectedBy[i]
            /\ i \in visited \/ phase # "scanning"
            => updated[i] >= startedAt - JiraLag

IInv == TypeOK /\ TimeInv /\ PlanInv /\ PassedInv /\ WindowCovers

-----------------------------------------------------------------------------

\* Dropping the seconds only widens the window, by less than a minute.
LEMMA JqlTimestampBounds ==
    ASSUME NEW t \in Int
    PROVE  JqlTimestamp(t) \in Int /\ JqlTimestamp(t) <= t
BY IncrementalAssumption, SMT DEF JqlTimestamp

LEMMA WindowStartBounds ==
    ASSUME NEW cp \in Checkpoint
    PROVE  /\ WindowStart(cp) \in Int
           /\ WindowStart(cp) <= cp.finishedAt - Overlap
<1> DEFINE t == cp.finishedAt - Overlap
<1>1. t \in Int
  BY IncrementalAssumption DEF Checkpoint
<1>2. WindowStart(cp) = JqlTimestamp(t)
  BY Zenon DEF WindowStart
<1>3. JqlTimestamp(t) \in Int /\ JqlTimestamp(t) <= t
  <2> HIDE DEF t
  <2> QED BY <1>1, JqlTimestampBounds
<1> QED
  BY <1>2, <1>3

LEMMA NotACheckpoint == NoFile \notin Checkpoint /\ Torn \notin Checkpoint
BY NoCheckpointAssumption

-----------------------------------------------------------------------------

LEMMA InitTypeOK == Init => TypeOK
<1> SUFFICES ASSUME Init PROVE TypeOK
  OBVIOUS
<1>1. incremental \in BOOLEAN /\ narrowed \in BOOLEAN /\ clean \in BOOLEAN
  BY Zenon DEF Init
<1>2. updated \in [Issues -> Int]
  BY IncrementalAssumption DEF Init
<1> QED
  BY <1>1, <1>2, IncrementalAssumption DEF Init, TypeOK

\* However a run ends, its variables go back to what they were between runs.
LEMMA EndRunTypeOK ==
    ASSUME TypeOK, EndRun, file' \in Checkpoint \cup {NoFile, Torn}
    PROVE  TypeOK'
<1>1. incremental' \in BOOLEAN /\ narrowed' \in BOOLEAN /\ clean' \in BOOLEAN
  BY Zenon DEF EndRun
<1>2. /\ since' \in Int /\ taken' \in Nat
      /\ startedAt' \in 0..MaxClock /\ finishedAt' \in 0..MaxClock
  BY IncrementalAssumption DEF EndRun
<1>3. visited' \in SUBSET Issues /\ phase' = "idle"
  BY Zenon DEF EndRun
<1>4. /\ clock' = clock /\ query' = query
      /\ updated' = updated /\ selectedBy' = selectedBy /\ unread' = unread
  BY Zenon DEF EndRun, jiraVars
<1> QED
  BY <1>1, <1>2, <1>3, <1>4 DEF TypeOK

LEMMA NextTypeOK == TypeOK /\ [Next]_vars => TypeOK'
<1> SUFFICES ASSUME TypeOK, [Next]_vars PROVE TypeOK'
  OBVIOUS
<1> USE IncrementalAssumption DEF TypeOK, jiraVars, runVars
<1>1. CASE Tick
  BY <1>1 DEF Tick
<1>2. ASSUME NEW i \in Issues, NEW qs \in SUBSET Queries, Update(i, qs)
      PROVE  TypeOK'
  BY <1>2 DEF Update
<1>3. ASSUME NEW q \in Queries, NEW flag \in BOOLEAN, Start(q, flag)
      PROVE  TypeOK'
  <2>1. narrowed' \in BOOLEAN
    BY <1>3, Zenon DEF Start
  <2>2. since' \in Int
    <3>1. CASE narrowed'
      <4>1. file \in Checkpoint
        BY <1>3, <3>1, Zenon DEF Start, Trusted
      <4> QED BY <1>3, <3>1, <4>1, WindowStartBounds, Zenon DEF Start
    <3>2. CASE ~narrowed'
      BY <1>3, <3>2, <2>1 DEF Start
    <3> QED BY <3>1, <3>2
  <2> QED BY <1>3, <2>1, <2>2 DEF Start
<1>4. ASSUME NEW i \in Issues, NEW how \in {"whole", "gapped", "panicked"},
             Visit(i, how)
      PROVE  TypeOK'
  <2>1. clean' \in BOOLEAN
    BY <1>4, Zenon DEF Visit
  <2> QED BY <1>4, <2>1 DEF Visit
<1>5. CASE Cancel
  BY <1>5 DEF Cancel
<1>6. CASE Finish
  BY <1>6 DEF Finish
<1>7. CASE BeginWrite
  BY <1>7 DEF BeginWrite
<1>8. CASE EndWrite
  <2>1. file' \in Checkpoint
    BY <1>8 DEF EndWrite, NewCheckpoint, Checkpoint
  <2> QED BY <1>8, <2>1, EndRunTypeOK DEF EndWrite
<1>9. CASE KeepBaseline
  BY <1>9, EndRunTypeOK DEF KeepBaseline
<1>10. CASE Crash
  BY <1>10, EndRunTypeOK DEF Crash
<1>11. CASE UNCHANGED vars
  BY <1>11 DEF vars
<1> QED
  BY <1>1, <1>2, <1>3, <1>4, <1>5, <1>6, <1>7, <1>8, <1>9, <1>10, <1>11, Zenon
  DEF Next

\* Every variable keeps its type (checkpoint.rs:74-92: what the file may say).
THEOREM TypeCorrect == Spec => []TypeOK
<1>1. Init => TypeOK
  BY InitTypeOK
<1>2. TypeOK /\ [Next]_vars => TypeOK'
  BY NextTypeOK
<1> QED
  BY <1>1, <1>2, PTL DEF Spec

-----------------------------------------------------------------------------

LEMMA InitIInv == Init => IInv
<1> SUFFICES ASSUME Init PROVE IInv
  OBVIOUS
<1>1. TypeOK
  BY InitTypeOK
<1>2. file \notin Checkpoint /\ file \in {NoFile, Torn}
  BY NotACheckpoint DEF Init
<1>3. TimeInv
  BY <1>2, IncrementalAssumption DEF Init, TimeInv
<1>4. PlanInv /\ PassedInv
  BY DEF Init, PlanInv, PassedInv
<1>5. WindowCovers
  BY <1>2 DEF WindowCovers
<1> QED
  BY <1>1, <1>3, <1>4, <1>5 DEF IInv

LEMMA NextIInv == WideEnough /\ IInv /\ [Next]_vars => IInv'
<1> SUFFICES ASSUME WideEnough, IInv, [Next]_vars PROVE IInv'
  OBVIOUS
<1>t. TypeOK /\ TypeOK'
  BY NextTypeOK DEF IInv
<1> USE IncrementalAssumption, <1>t
<1>1. CASE Tick
  <2>1. TimeInv'
    BY <1>1 DEF Tick, IInv, TimeInv, TypeOK, runVars, Checkpoint
  <2>2. PlanInv' /\ PassedInv' /\ WindowCovers'
    BY <1>1 DEF Tick, IInv, PlanInv, PassedInv, WindowCovers, jiraVars, runVars
  <2> QED BY <2>1, <2>2 DEF IInv
<1>2. ASSUME NEW j \in Issues, NEW qs \in SUBSET Queries, Update(j, qs)
      PROVE  IInv'
  <2> USE <1>2
  <2>1. /\ file' = file /\ phase' = phase /\ query' = query /\ clean' = clean
        /\ startedAt' = startedAt /\ visited' = visited
    BY DEF Update, runVars
  <2>2. TimeInv' /\ PlanInv'
    BY DEF Update, IInv, TimeInv, PlanInv, runVars, WindowStart, JqlTimestamp
  <2>3. /\ updated'[j] = clock - JiraLag
        /\ \A i \in unread' \ {j} : /\ i \in unread
                                    /\ updated'[i] = updated[i]
                                    /\ selectedBy'[i] = selectedBy[i]
    BY DEF Update, TypeOK
  <2>4. PassedInv'
    <3>1. clock - JiraLag >= startedAt - JiraLag
      BY DEF IInv, TimeInv, TypeOK
    <3> QED BY <2>1, <2>3, <3>1 DEF IInv, PassedInv
  <2>5. WindowCovers'
    <3> SUFFICES ASSUME file \notin {NoFile, Torn}
                 PROVE  \A i \in unread' : file.query \in selectedBy'[i] =>
                            updated'[i] >= WindowStart(file)
      BY <2>1 DEF WindowCovers, WindowStart, JqlTimestamp
    <3>1. file \in Checkpoint
      BY DEF TypeOK
    <3>2. clock - JiraLag >= WindowStart(file)
      <4>1. /\ WindowStart(file) \in Int
            /\ WindowStart(file) <= file.finishedAt - Overlap
        BY <3>1, WindowStartBounds
      <4>2. file.finishedAt \in Int /\ file.finishedAt <= clock
        BY <3>1 DEF IInv, TimeInv, Checkpoint
      <4> QED BY <4>1, <4>2 DEF WideEnough, TypeOK
    <3> QED BY <2>3, <3>2 DEF IInv, WindowCovers
  <2> QED BY <2>2, <2>4, <2>5 DEF IInv
<1>3. ASSUME NEW q \in Queries, NEW flag \in BOOLEAN, Start(q, flag)
      PROVE  IInv'
  <2> USE <1>3
  <2>1. /\ file' = file /\ phase' = "scanning" /\ query' = q
        /\ startedAt' = clock /\ finishedAt' = finishedAt /\ clock' = clock
        /\ updated' = updated /\ selectedBy' = selectedBy /\ unread' = unread
        /\ visited' = {}
    BY DEF Start, jiraVars
  <2>2. TimeInv'
    BY <2>1 DEF IInv, TimeInv, TypeOK
  <2>3. PlanInv'
    <3> SUFFICES ASSUME narrowed'
                 PROVE  /\ file \in Checkpoint
                        /\ file.query = q
                        /\ since' = WindowStart(file)
      BY <2>1 DEF PlanInv, WindowStart, JqlTimestamp
    <3>1. Trusted(q) /\ since' = WindowStart(file)
      BY Zenon DEF Start
    <3> QED BY <3>1, Zenon DEF Trusted, TypeOK
  <2>4. PassedInv'
    BY <2>1 DEF PassedInv
  <2>5. WindowCovers'
    BY <2>1 DEF IInv, WindowCovers, WindowStart, JqlTimestamp
  <2> QED BY <2>2, <2>3, <2>4, <2>5 DEF IInv
<1>4. ASSUME NEW j \in Issues, NEW how \in {"whole", "gapped", "panicked"},
             Visit(j, how)
      PROVE  IInv'
  <2> USE <1>4
  <2>1. /\ file' = file /\ phase' = phase /\ query' = query
        /\ narrowed' = narrowed /\ since' = since
        /\ startedAt' = startedAt /\ finishedAt' = finishedAt
        /\ clock' = clock /\ updated' = updated /\ selectedBy' = selectedBy
        /\ phase = "scanning" /\ visited' = visited \cup {j}
    BY DEF Visit
  <2>2. unread' \subseteq unread /\ (Selected(j) /\ how = "whole" => j \notin unread')
    BY DEF Visit
  <2>3. clean' => clean /\ (Selected(j) => how = "whole")
    <3>1. how # "gapped"
      BY DEF Visit, WideEnough
    <3>2. clean' => clean /\ ~(Selected(j) /\ how = "panicked")
      BY Zenon DEF Visit
    <3> QED BY <3>1, <3>2
  <2>4. TimeInv' /\ PlanInv' /\ WindowCovers'
    BY <2>1, <2>2 DEF IInv, TimeInv, PlanInv, WindowCovers, WindowStart, JqlTimestamp
  <2>5. PassedInv'
    <3> SUFFICES ASSUME clean', NEW i \in unread', query \in selectedBy[i],
                        i \in visited \cup {j}
                 PROVE  updated[i] >= startedAt - JiraLag
      BY <2>1 DEF PassedInv
    <3>1. CASE i \in visited
      BY <2>1, <2>2, <2>3, <3>1 DEF IInv, PassedInv
    <3>2. CASE i = j
      <4>1. ~Selected(i)
        BY <2>2, <2>3, <3>2
      <4>2. narrowed /\ ~(updated[i] >= since)
        BY <4>1 DEF Selected
      <4>3. updated[i] >= WindowStart(file) /\ since = WindowStart(file)
        <5>1. /\ file \in Checkpoint /\ file.query = query
              /\ since = WindowStart(file)
          BY <2>1, <4>2 DEF IInv, PlanInv
        <5>2. file \notin {NoFile, Torn} /\ i \in unread
          BY <2>2, <5>1, NotACheckpoint
        <5> QED BY <5>1, <5>2 DEF IInv, WindowCovers
      <4> QED BY <4>2, <4>3
    <3> QED BY <3>1, <3>2
  <2> QED BY <2>4, <2>5 DEF IInv
<1>5. CASE Cancel
  <2>1. PlanInv' /\ PassedInv'
    BY <1>5 DEF Cancel, IInv, PlanInv, PassedInv, WindowStart, JqlTimestamp
  <2>2. TimeInv' /\ WindowCovers'
    BY <1>5 DEF Cancel, IInv, TimeInv, WindowCovers, WindowStart, JqlTimestamp,
                jiraVars
  <2> QED BY <2>1, <2>2 DEF IInv
<1>6. CASE Finish
  <2> USE <1>6
  <2>1. /\ file' = file /\ phase' = "finished" /\ query' = query
        /\ narrowed' = narrowed /\ since' = since /\ clean' = clean
        /\ startedAt' = startedAt /\ finishedAt' = clock /\ clock' = clock
        /\ updated' = updated /\ selectedBy' = selectedBy /\ unread' = unread
        /\ phase = "scanning"
    BY DEF Finish, jiraVars
  <2>2. TimeInv' /\ PlanInv' /\ WindowCovers'
    BY <2>1 DEF IInv, TimeInv, PlanInv, WindowCovers, WindowStart, JqlTimestamp, TypeOK
  <2>3. clean => visited = Issues
    BY DEF Finish, LimitReached, WideEnough
  <2>4. PassedInv'
    BY <2>1, <2>3 DEF IInv, PassedInv, TypeOK
  <2> QED BY <2>2, <2>4 DEF IInv
<1>7. CASE BeginWrite
  <2> USE <1>7
  <2>1. /\ file' = Torn /\ phase' = "writing" /\ phase = "finished"
        /\ query' = query /\ clean' = clean /\ clean
        /\ startedAt' = startedAt /\ finishedAt' = finishedAt /\ clock' = clock
        /\ updated' = updated /\ selectedBy' = selectedBy /\ unread' = unread
    BY Zenon DEF BeginWrite, MovesBaseline, jiraVars
  <2>2. TimeInv' /\ PlanInv' /\ WindowCovers'
    BY <2>1, NotACheckpoint DEF IInv, TimeInv, PlanInv, WindowCovers
  <2>3. PassedInv'
    BY <2>1 DEF IInv, PassedInv
  <2> QED BY <2>2, <2>3 DEF IInv
<1>8. CASE EndWrite
  <2> USE <1>8
  <2>1. /\ phase = "writing" /\ clean
        /\ file' = [query |-> query, finishedAt |-> finishedAt]
        /\ EndRun
    BY DEF EndWrite, NewCheckpoint, IInv, PlanInv
  <2>2. file' \in Checkpoint
    BY <2>1 DEF TypeOK, Checkpoint
  <2>3. TimeInv' /\ PlanInv' /\ PassedInv'
    BY <2>1, <2>2 DEF EndRun, IInv, TimeInv, PlanInv, PassedInv, TypeOK
  <2>4. WindowCovers'
    <3> SUFFICES ASSUME NEW i \in unread, query \in selectedBy[i]
                 PROVE  updated[i] >= WindowStart(file')
      BY <2>1 DEF WindowCovers, EndRun, jiraVars, WindowStart, JqlTimestamp
    <3>1. updated[i] >= startedAt - JiraLag
      BY <2>1 DEF IInv, PassedInv
    <3>2. finishedAt - startedAt <= MaxScan
      BY <2>1 DEF IInv, TimeInv
    <3>3. WindowStart(file') \in Int /\ WindowStart(file') <= finishedAt - Overlap
      BY <2>1, <2>2, WindowStartBounds
    <3>4. updated[i] \in Int
      BY DEF TypeOK
    <3> QED BY <3>1, <3>2, <3>3, <3>4 DEF WideEnough, TypeOK
  <2> QED BY <2>3, <2>4 DEF IInv
<1>9. CASE file' = file /\ EndRun
  <2> USE <1>9
  <2>1. TimeInv' /\ PlanInv' /\ PassedInv'
    BY DEF EndRun, IInv, TimeInv, PlanInv, PassedInv, TypeOK
  <2>2. WindowCovers'
    BY DEF EndRun, IInv, WindowCovers, WindowStart, JqlTimestamp, jiraVars
  <2> QED BY <2>1, <2>2 DEF IInv
<1>10. CASE UNCHANGED vars
  BY <1>10 DEF vars, IInv, TimeInv, PlanInv, PassedInv, WindowCovers, WindowStart,
               JqlTimestamp
<1>11. KeepBaseline \/ Crash => file' = file /\ EndRun
  BY DEF KeepBaseline, Crash
<1> QED
  BY <1>1, <1>2, <1>3, <1>4, <1>5, <1>6, <1>7, <1>8, <1>9, <1>10, <1>11, Zenon
  DEF Next

\* No update falls out of every later window (checkpoint.rs:321-333), when a
\* scan is shorter than the overlap less Jira's lag and nothing is cut.
THEOREM NoUpdateForgotten ==
    ASSUME WideEnough
    PROVE  Spec => []WindowCovers
<1>1. Init => IInv
  BY InitIInv
<1>2. IInv /\ [Next]_vars => IInv'
  BY NextIInv
<1>3. IInv => WindowCovers
  BY DEF IInv
<1> QED
  BY <1>1, <1>2, <1>3, PTL DEF Spec

\* A narrowed scan that succeeds leaves unread what a full scan would
\* (checkpoint.rs:228-260).
THEOREM NarrowedIsEnough ==
    ASSUME WideEnough
    PROVE  Spec => []NarrowedAsGoodAsFull
<1>1. Init => IInv
  BY InitIInv
<1>2. IInv /\ [Next]_vars => IInv'
  BY NextIInv
<1>3. IInv => NarrowedAsGoodAsFull
  BY DEF IInv, PassedInv, NarrowedAsGoodAsFull
<1> QED
  BY <1>1, <1>2, <1>3, PTL DEF Spec
=============================================================================
