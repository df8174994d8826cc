------------------------ MODULE FindingsStoreProofs ------------------------
(***************************************************************************)
(* Proofs about FindingsStore, for any secrets, issues and fields, any     *)
(* number of scanners and any bound on the clock.                          *)
(***************************************************************************)
EXTENDS FindingsStore, FiniteSetTheorems, WellFoundedInduction, TLAPS

\* A scanner past the start of its reconcile has taken the time.
TimeTaken ==
    /\ clock > 0
    /\ \A p \in Scanners : pc[p] \in {"begun", "read"} => now[p] # 0

\* A scanner found leaks, and read rows, only in the issues it scanned.
ScopeInv ==
    \A p \in Scanners :
        /\ \A leak \in current[p] : leak[2] \in scanned[p]
        /\ \A k \in Sites : stored[p][k] # NoRow => k[2] \in scanned[p]

\* A fresh snapshot shows the table as it is.
FreshInv ==
    \A p \in Scanners : fresh[p] /\ pc[p] = "read" =>
        \A k \in Sites : k[2] \in scanned[p] => stored[p][k] = rows[k]

StoreInv == TypeOK /\ TimeTaken /\ ClosedIffStamped /\ ScopeInv /\ FreshInv

USE StoreAssumption, NoRowAssumption DEF Times

LEMMA StoreInit == Init => StoreInv
BY DEF Init, StoreInv, TypeOK, TimeTaken, ClosedIffStamped, ScopeInv, FreshInv,
       NoRows, NoReport

-----------------------------------------------------------------------------
(* What a commit writes.                                                   *)

\* A site that was found has at least one location, and finitely many.
LEMMA LocationsOfSite ==
    ASSUME TypeOK, NEW p \in Scanners, NEW k \in CurrentSites(p)
    PROVE  Cardinality({leak \in current[p] : SiteOf(leak) = k}) \in Nat \ {0}
<1> DEFINE L == {leak \in current[p] : SiteOf(leak) = k}
<1> DEFINE T == {<<k[1], k[2], g>> : g \in Fields}
<1>1. IsFiniteSet(T)
      <2>1. [g \in Fields |-> <<k[1], k[2], g>>] \in Surjection(Fields, T)
            BY DEF Surjection
      <2>2. QED BY <2>1, FS_Surjection
<1>2. L \subseteq T
      <2> SUFFICES ASSUME NEW leak \in L PROVE leak \in T
          OBVIOUS
      <2>1. leak \in Secrets \X Issues \X Fields /\ k = <<leak[1], leak[2]>>
            BY DEF TypeOK, Leaks, SiteOf
      <2>2. leak = <<leak[1], leak[2], leak[3]>> /\ leak[3] \in Fields
            BY <2>1
      <2>3. leak = <<k[1], k[2], leak[3]>>
            BY <2>1, <2>2
      <2>4. QED BY <2>2, <2>3
<1>3. IsFiniteSet(L)
      BY <1>1, <1>2, FS_Subset
<1>4. L # {}
      BY DEF CurrentSites
<1>5. QED
      BY <1>3, <1>4, FS_CardinalityType, FS_EmptySet

LEMMA FoundSites == ASSUME TypeOK, NEW p \in Scanners PROVE CurrentSites(p) \subseteq Sites
BY DEF TypeOK, CurrentSites, SiteOf, Leaks, Sites

\* An upsert writes a row of the table's type, open, whose history goes on.
LEMMA UpsertRow ==
    ASSUME TypeOK, TimeTaken, NEW p \in Scanners, pc[p] = "read",
           NEW k \in CurrentSites(p)
    PROVE  /\ Upsert(p, k) \in Row
           /\ Upsert(p, k).status # "closed" /\ Upsert(p, k).closedAt = 0
           /\ rows[k] = NoRow => Upsert(p, k).firstSeen = now[p]
           /\ rows[k] # NoRow => /\ Upsert(p, k).firstSeen = rows[k].firstSeen
                                 /\ Upsert(p, k).timesSeen >= rows[k].timesSeen
<1> DEFINE n == Cardinality({leak \in current[p] : SiteOf(leak) = k})
<1>1. n \in Nat \ {0}
      BY LocationsOfSite
<1>2. k \in Sites
      BY FoundSites
<1>3. now[p] \in Times /\ rows[k] \in Row \cup {NoRow}
      BY <1>2 DEF TypeOK
<1> HIDE DEF n
<1>4. CASE rows[k] = NoRow
      <2>1. Upsert(p, k) = [status |-> IF n > 1 THEN "recurring" ELSE "new",
                            firstSeen |-> now[p], lastSeen |-> now[p],
                            closedAt |-> 0, timesSeen |-> n]
            BY <1>4 DEF Upsert, n
      <2>2. QED BY <1>1, <1>3, <1>4, <2>1 DEF Row
<1>5. CASE rows[k] # NoRow
      <2>1. Upsert(p, k) = [rows[k] EXCEPT !.status = "recurring", !.lastSeen = now[p],
                                           !.closedAt = 0, !.timesSeen = @ + n]
            BY <1>5 DEF Upsert, n
      <2>2. rows[k] \in Row
            BY <1>3, <1>5
      <2>3. /\ rows[k].firstSeen \in Times /\ rows[k].timesSeen \in Nat \ {0}
            /\ rows[k].timesSeen + n \in Nat \ {0}
            BY <1>1, <2>2 DEF Row
      <2>4. Upsert(p, k) = [status |-> "recurring", firstSeen |-> rows[k].firstSeen,
                            lastSeen |-> now[p], closedAt |-> 0,
                            timesSeen |-> rows[k].timesSeen + n]
            BY <2>1, <2>2 DEF Row
      <2>5. QED BY <1>1, <1>3, <1>5, <2>3, <2>4 DEF Row
<1>6. QED
      BY <1>4, <1>5

\* Closing keeps the type and the history of a row, and stamps it.
LEMMA CloseRow ==
    ASSUME NEW row \in Row, NEW t \in Times
    PROVE  /\ Close(row, t) \in Row
           /\ Close(row, t).status = "closed" /\ Close(row, t).closedAt = t
           /\ Close(row, t).firstSeen = row.firstSeen
           /\ Close(row, t).timesSeen = row.timesSeen
BY DEF Close, Row

\* The three things a commit can make of a row.
LEMMA WrittenCases ==
    ASSUME NEW p \in Scanners, NEW k \in Sites
    PROVE  /\ k \in CurrentSites(p) => Written(p, k) = Upsert(p, k)
           /\ k \in Closable(p) /\ rows[k] # NoRow =>
                  Written(p, k) = Close(rows[k], now[p])
           /\ k \notin CurrentSites(p) /\ ~(k \in Closable(p) /\ rows[k] # NoRow) =>
                  Written(p, k) = rows[k]
BY DEF Written, Closable

\* Whatever a commit writes is a row of the table's type that says closed
\* exactly when it is stamped, and it never unwrites history.
LEMMA WrittenRow ==
    ASSUME StoreInv, NEW p \in Scanners, pc[p] = "read", NEW k \in Sites
    PROVE  /\ Written(p, k) \in Row \cup {NoRow}
           /\ Written(p, k) # NoRow =>
                 (Written(p, k).status = "closed" <=> Written(p, k).closedAt # 0)
           /\ rows[k] # NoRow => /\ Written(p, k) # NoRow
                                 /\ Written(p, k).firstSeen = rows[k].firstSeen
                                 /\ Written(p, k).timesSeen >= rows[k].timesSeen
<1>1. /\ rows[k] \in Row \cup {NoRow} /\ now[p] \in Times /\ now[p] # 0
      /\ rows[k] # NoRow => (rows[k].status = "closed" <=> rows[k].closedAt # 0)
      /\ rows[k] # NoRow => rows[k].timesSeen \in Nat
      BY DEF StoreInv, TypeOK, TimeTaken, ClosedIffStamped, Row
<1>2. CASE k \in CurrentSites(p)
      <2>1. Written(p, k) = Upsert(p, k)
            BY <1>2, WrittenCases
      <2>2. QED BY <1>2, <2>1, UpsertRow DEF StoreInv
<1>3. CASE k \in Closable(p) /\ rows[k] # NoRow
      <2>1. Written(p, k) = Close(rows[k], now[p])
            BY <1>3, WrittenCases
      <2>2. rows[k] \in Row
            BY <1>1, <1>3
      <2>3. /\ Close(rows[k], now[p]) \in Row
            /\ Close(rows[k], now[p]).status = "closed" <=> Close(rows[k], now[p]).closedAt # 0
            /\ Close(rows[k], now[p]).firstSeen = rows[k].firstSeen
            /\ Close(rows[k], now[p]).timesSeen = rows[k].timesSeen
            BY <1>1, <2>2, CloseRow
      <2>4. Close(rows[k], now[p]) # NoRow /\ rows[k].timesSeen >= rows[k].timesSeen
            BY <1>1, <1>3, <2>3, NoRowAssumption
      <2>5. QED BY <1>3, <2>1, <2>3, <2>4
<1>4. CASE k \notin CurrentSites(p) /\ ~(k \in Closable(p) /\ rows[k] # NoRow)
      <2>1. Written(p, k) = rows[k]
            BY <1>4, WrittenCases
      <2>2. QED BY <1>1, <2>1
<1>5. QED
      BY <1>2, <1>3, <1>4

-----------------------------------------------------------------------------
(* The invariant.                                                          *)

LEMMA CommitStep == ASSUME StoreInv, NEW p \in Scanners, Commit(p) PROVE StoreInv'
<1>1. /\ rows' = [k \in Sites |-> Written(p, k)] /\ pc[p] = "read"
      /\ pc' = [pc EXCEPT ![p] = "done"]
      /\ fresh' = [q \in Scanners |-> FALSE]
      /\ observed' = [issues |-> scanned[p], seen |-> CurrentSites(p)]
      /\ UNCHANGED <<clock, world, started, scanned, current, present, now, stored>>
      BY DEF Commit, scanVars
<1>2. TypeOK'
      <2> DEFINE found == [s \in Secrets |-> IF s \in Found(p) THEN Enriched(p, s) ELSE NoRow]
      <2> HIDE DEF found
      <2>0. DOMAIN report' = Scanners /\ \A q \in Scanners : report'[q].closed \in SUBSET Sites
            <3>1. report' = [report EXCEPT ![p] = [found |-> found, closed |-> Announced(p)]]
                  BY DEF Commit, found
            <3>2. Announced(p) \in SUBSET Sites
                  BY DEF Announced
            <3>3. QED BY <3>1, <3>2 DEF StoreInv, TypeOK
      <2>1. rows' \in [Sites -> Row \cup {NoRow}]
            BY <1>1, WrittenRow
      <2>2. observed' \in [issues : SUBSET Issues, seen : SUBSET Sites]
            BY <1>1, FoundSites DEF StoreInv, TypeOK
      <2>3. QED BY <1>1, <2>0, <2>1, <2>2 DEF StoreInv, TypeOK
<1>3. TimeTaken'
      BY <1>1 DEF StoreInv, TypeOK, TimeTaken
<1>4. ClosedIffStamped'
      BY <1>1, WrittenRow DEF ClosedIffStamped
<1>5. ScopeInv' /\ FreshInv'
      BY <1>1 DEF StoreInv, ScopeInv, FreshInv
<1>6. QED
      BY <1>2, <1>3, <1>4, <1>5 DEF StoreInv

LEMMA StoreStep == StoreInv /\ [Next]_vars => StoreInv'
<1> SUFFICES ASSUME StoreInv, [Next]_vars PROVE StoreInv'
    OBVIOUS
<1> USE DEF StoreInv, TypeOK, TimeTaken, ClosedIffStamped, ScopeInv, FreshInv
<1>1. ASSUME NEW leak \in Leaks, Edit(leak) PROVE StoreInv'
      BY <1>1 DEF Edit, scanVars, txVars
<1>2. ASSUME NEW p \in Scanners, Start(p) PROVE StoreInv'
      <2>1. DOMAIN report' = Scanners /\ \A q \in Scanners : report'[q].closed \in SUBSET Sites
            BY <1>2 DEF Start, NoReport
      <2>2. QED BY <1>2, <2>1 DEF Start, NoRows
<1>3. ASSUME NEW p \in Scanners, NEW issue \in Issues,
             NEW got \in SUBSET LeaksIn(issue), ScanIssue(p, issue, got)
      PROVE  StoreInv'
      <2>1. /\ Merged(p, got) \in SUBSET Leaks /\ LeaksIn(issue) \in SUBSET Leaks
            /\ \A leak \in Merged(p, got) : leak[2] \in scanned[p] \cup {issue}
            BY DEF Merged, LeaksIn
      <2>2. QED BY <1>3, <2>1 DEF ScanIssue, txVars
<1>4. ASSUME NEW p \in Scanners, Begin(p) PROVE StoreInv'
      BY <1>4 DEF Begin, scanVars
<1>5. ASSUME NEW p \in Scanners, Read(p) PROVE StoreInv'
      BY <1>5 DEF Read, scanVars
<1>6. ASSUME NEW p \in Scanners, Commit(p) PROVE StoreInv'
      BY <1>6, CommitStep
<1>7. ASSUME NEW p \in Scanners, Abandon(p) PROVE StoreInv'
      BY <1>7 DEF Abandon, scanVars
<1>8. CASE UNCHANGED vars
      BY <1>8 DEF vars
<1>9. QED
      BY <1>1, <1>2, <1>3, <1>4, <1>5, <1>6, <1>7, <1>8 DEF Next, Scan

THEOREM StoreInvariant == Spec => []StoreInv
BY StoreInit, StoreStep, PTL DEF Spec

\* Every row in the table is a row the scanner could have meant to write.
THEOREM TypeCorrect == Spec => []TypeOK
BY StoreInvariant, PTL DEF StoreInv

\* A row says closed exactly when it is stamped, with any number of scanners
\* racing in either database.
THEOREM StampedWhenClosed == Spec => []ClosedIffStamped
BY StoreInvariant, PTL DEF StoreInv

-----------------------------------------------------------------------------
(* Action properties.                                                      *)

\* Only a commit writes the table.
LEMMA OnlyCommitsWrite ==
    ASSUME [Next]_vars, rows' # rows
    PROVE  \E p \in Scanners : Commit(p)
BY DEF Next, Scan, vars, Edit, Start, ScanIssue, Begin, Read, Abandon

\* A scanner that goes from its read to done has committed.
LEMMA CommitsCommit ==
    ASSUME TypeOK, [Next]_vars, NEW p \in Scanners, Commits(p)
    PROVE  Commit(p)
<1>1. pc[p] = "read" /\ pc'[p] = "done"
      BY DEF Commits
<1>2. ~UNCHANGED vars
      BY <1>1 DEF vars
<1>3. ASSUME NEW leak \in Leaks, Edit(leak) PROVE FALSE
      BY <1>1, <1>3 DEF Edit
<1>4. ASSUME NEW q \in Scanners, Scan(q) PROVE q = p /\ Commit(p)
      <2>1. ASSUME NEW issue \in Issues, NEW got \in SUBSET LeaksIn(issue),
                   ScanIssue(q, issue, got)
            PROVE  FALSE
            BY <1>1, <2>1 DEF ScanIssue
      <2>2. ~Start(q) /\ ~Begin(q) /\ ~Read(q) /\ ~Abandon(q)
            BY <1>1 DEF Start, Begin, Read, Abandon, TypeOK
      <2>3. Commit(q)
            BY <1>4, <2>1, <2>2 DEF Scan
      <2>4. q = p
            BY <1>1, <2>3 DEF Commit, TypeOK
      <2>5. QED BY <2>3, <2>4
<1>5. QED
      BY <1>2, <1>3, <1>4 DEF Next

LEMMA HistoryStep ==
    ASSUME StoreInv, [Next]_vars, NEW k \in Sites, rows[k] # NoRow
    PROVE  /\ rows'[k] # NoRow
           /\ rows'[k].firstSeen = rows[k].firstSeen
           /\ rows'[k].timesSeen >= rows[k].timesSeen
<1>1. CASE rows' = rows
      BY <1>1 DEF StoreInv, TypeOK, Row
<1>2. CASE rows' # rows
      <2>1. PICK p \in Scanners : Commit(p)
            BY <1>2, OnlyCommitsWrite
      <2>2. rows'[k] = Written(p, k) /\ pc[p] = "read"
            BY <2>1 DEF Commit
      <2>3. QED BY <2>2, WrittenRow
<1>3. QED
      BY <1>1, <1>2

\* Rows are never lost, never forget when they were first seen, and never
\* count down: whatever the scanners do, crash or race.
THEOREM HistoryNeverLost == Spec => HistoryKept
<1>1. StoreInv /\ [Next]_vars =>
        [\A k \in Sites : rows[k] # NoRow =>
          /\ rows'[k] # NoRow
          /\ rows'[k].firstSeen = rows[k].firstSeen
          /\ rows'[k].timesSeen >= rows[k].timesSeen]_vars
      BY HistoryStep
<1>2. QED
      BY <1>1, StoreInvariant, PTL DEF Spec, HistoryKept

\* Only sites of issues the scan read are touched by its commit.
LEMMA ScopeStep ==
    ASSUME StoreInv, [Next]_vars, NEW k \in Sites, rows'[k] # rows[k]
    PROVE  \E p \in Scanners : Commits(p) /\ k[2] \in scanned[p]
<1>1. PICK p \in Scanners : Commit(p)
      BY OnlyCommitsWrite
<1>2. Commits(p)
      BY <1>1 DEF Commit, Commits, StoreInv, TypeOK
<1>3. rows'[k] = Written(p, k)
      BY <1>1 DEF Commit
<1>4. CASE k \in CurrentSites(p)
      BY <1>2, <1>4 DEF CurrentSites, SiteOf, StoreInv, ScopeInv
<1>5. CASE k \in Closable(p)
      BY <1>2, <1>5 DEF Closable, StoreInv, ScopeInv
<1>6. k \in CurrentSites(p) \/ k \in Closable(p)
      BY <1>3, WrittenCases
<1>7. QED
      BY <1>4, <1>5, <1>6

\* A row changes only by a scan that read its issue, with any number of
\* scanners in either database: issues out of scope are left untouched.
THEOREM ScopeRespected == Spec => OutOfScopeUntouched
<1>1. StoreInv /\ [Next]_vars =>
        [\A k \in Sites : rows'[k] # rows[k] =>
           \E p \in Scanners : Commits(p) /\ k[2] \in scanned[p]]_vars
      BY ScopeStep
<1>2. QED
      BY <1>1, StoreInvariant, PTL DEF Spec, OutOfScopeUntouched

-----------------------------------------------------------------------------
(* What holds when no transaction commits on a stale snapshot.             *)

\* What a commit makes of an issue's rows, said of the table it finds.
LEMMA SerialCommit ==
    ASSUME StoreInv, Serializable, NEW p \in Scanners, Commit(p), NEW k \in Sites
    PROVE  /\ rows'[k] = Written(p, k) /\ pc[p] = "read"
           /\ k \in Closable(p) <=> /\ k[2] \in scanned[p] /\ k \notin CurrentSites(p)
                                   /\ rows[k] # NoRow /\ rows[k].status # "closed"
           /\ k \in CurrentSites(p) => k[2] \in scanned[p]
<1>1. /\ rows'[k] = Written(p, k) /\ pc[p] = "read" /\ fresh[p]
      BY DEF Commit
<1>2. k[2] \in scanned[p] => stored[p][k] = rows[k]
      BY <1>1 DEF StoreInv, FreshInv
<1>3. stored[p][k] # NoRow => k[2] \in scanned[p]
      BY DEF StoreInv, ScopeInv
<1>4. k \in CurrentSites(p) => k[2] \in scanned[p]
      BY DEF CurrentSites, SiteOf, StoreInv, ScopeInv
<1>5. QED
      BY <1>1, <1>2, <1>3, <1>4 DEF Closable

LEMMA AnnounceStep ==
    ASSUME StoreInv, Serializable, [Next]_vars, NEW p \in Scanners, Commits(p)
    PROVE  report'[p].closed = {k \in Sites : /\ rows[k] # NoRow
                                              /\ rows[k].status # "closed"
                                              /\ rows'[k].status = "closed"}
<1>1. Commit(p)
      BY CommitsCommit DEF StoreInv
<1>2. \A k \in Closable(p) : rows[k] # NoRow /\ rows[k].status # "closed"
                               /\ rows'[k].status = "closed"
      <2> TAKE k \in Closable(p)
      <2>1. k \in Sites
            BY DEF Closable
      <2>2. rows[k] # NoRow /\ rows[k].status # "closed" /\ rows'[k] = Written(p, k)
            BY <1>1, <2>1, SerialCommit
      <2>3. rows'[k] = Close(rows[k], now[p])
            BY <2>1, <2>2, WrittenCases
      <2>4. rows[k] \in Row /\ now[p] \in Times
            BY <2>1, <2>2 DEF StoreInv, TypeOK
      <2>5. QED BY <2>2, <2>3, <2>4, CloseRow
<1>3. ASSUME NEW k \in Sites, rows[k] # NoRow, rows[k].status # "closed",
             rows'[k].status = "closed"
      PROVE  k \in Closable(p)
      <2>1. rows'[k] = Written(p, k) /\ pc[p] = "read"
            BY <1>1, SerialCommit
      <2>2. k \notin CurrentSites(p)
            BY <1>3, <2>1, UpsertRow, WrittenCases DEF StoreInv
      <2>3. QED BY <1>3, <2>1, <2>2, WrittenCases
<1>4. report'[p].closed = Announced(p)
      <2>1. report' = [report EXCEPT ![p] =
              [found |-> [s \in Secrets |-> IF s \in Found(p) THEN Enriched(p, s)
                                            ELSE NoRow],
               closed |-> Announced(p)]]
            BY <1>1 DEF Commit
      <2>2. p \in DOMAIN report
            BY DEF StoreInv, TypeOK
      <2>3. QED BY <2>1, <2>2
<1>5. Announced(p) = Closable(p) /\ Closable(p) \subseteq Sites
      BY DEF Announced, Closable
<1>6. QED
      BY <1>2, <1>3, <1>4, <1>5

\* When no transaction commits on a stale snapshot, the closed findings of a
\* report are the rows its own commit closed: nothing is announced twice or
\* left unsaid.
THEOREM AnnouncedOnce == ASSUME Serializable PROVE Spec => ClosingAnnouncedOnce
<1>1. Serializable
      OBVIOUS
<1>2. StoreInv /\ [Next]_vars =>
        [\A p \in Scanners : Commits(p) =>
          report'[p].closed = {k \in Sites : /\ rows[k] # NoRow
                                             /\ rows[k].status # "closed"
                                             /\ rows'[k].status = "closed"}]_vars
      BY <1>1, AnnounceStep
<1>3. QED
      BY <1>2, StoreInvariant, PTL DEF Spec, ClosingAnnouncedOnce

LEMMA EntryOfRow ==
    ASSUME NEW row \in Row PROVE EntryOf(row) # NoRow /\ row # NoRow
<1>1. row # NoRow
      OBVIOUS
<1>2. [open |-> row.status # "closed", firstSeen |-> row.firstSeen] \in LedgerEntry
      BY DEF Row, LedgerEntry
<1>3. QED
      BY <1>1, <1>2 DEF EntryOf

\* A commit is one observation: of the issues the scan read, the sites it
\* found in them, at the time it took.
LEMMA CommitObserves ==
    ASSUME StoreInv, Serializable, NEW p \in Scanners, Commit(p)
    PROVE  Ledger!Next
<1> DEFINE L == [k \in Sites |-> EntryOf(rows[k])]
<1>1. /\ CurrentSites(p) \subseteq Secrets \X scanned[p] /\ scanned[p] \subseteq Issues
      /\ now[p] \in Times
      <2>1. CurrentSites(p) \subseteq Sites
            BY FoundSites DEF StoreInv
      <2>2. \A k \in CurrentSites(p) : k[2] \in scanned[p]
            BY <2>1, SerialCommit
      <2>3. QED BY <2>1, <2>2 DEF Sites, StoreInv, TypeOK
<1>2. observed' = [issues |-> scanned[p], seen |-> CurrentSites(p)]
      BY DEF Commit
<1>3. ASSUME NEW k \in Sites, k[2] \in scanned[p]
      PROVE  EntryOf(rows'[k]) = Ledger!Observed(k, CurrentSites(p), now[p])
      <2>1. L[k] = EntryOf(rows[k]) /\ rows[k] \in Row \cup {NoRow}
            BY DEF StoreInv, TypeOK
      <2>2. rows'[k] = Written(p, k) /\ pc[p] = "read"
            BY SerialCommit
      <2>3. L[k] = NoRow <=> rows[k] = NoRow
            BY <2>1, EntryOfRow DEF EntryOf
      <2>4. CASE k \in CurrentSites(p)
            <3>1. rows'[k] = Upsert(p, k)
                  BY <2>2, <2>4, WrittenCases
            <3>2. /\ rows'[k] # NoRow /\ rows'[k].status # "closed"
                  /\ rows'[k].firstSeen = IF rows[k] = NoRow THEN now[p]
                                          ELSE rows[k].firstSeen
                  BY <2>2, <2>4, <3>1, UpsertRow DEF StoreInv
            <3>3. EntryOf(rows'[k]) = [open |-> TRUE, firstSeen |-> rows'[k].firstSeen]
                  BY <3>2 DEF EntryOf
            <3>4. rows[k] # NoRow => L[k].firstSeen = rows[k].firstSeen
                  BY <2>1 DEF EntryOf
            <3>5. QED BY <2>3, <2>4, <3>2, <3>3, <3>4 DEF Ledger!Observed
      <2>5. CASE k \notin CurrentSites(p) /\ rows[k] = NoRow
            <3>1. rows'[k] = NoRow
                  BY <2>2, <2>5, WrittenCases
            <3>2. QED BY <2>3, <2>5, <3>1 DEF Ledger!Observed, EntryOf
      <2>6. CASE k \notin CurrentSites(p) /\ rows[k] # NoRow
            <3>1. rows'[k].status = "closed" /\ rows'[k].firstSeen = rows[k].firstSeen
                  /\ rows'[k] # NoRow
                  <4>1. CASE rows[k].status = "closed"
                        <5>1. k \notin Closable(p)
                              BY <4>1, SerialCommit
                        <5>2. QED BY <2>2, <2>6, <4>1, <5>1, WrittenCases
                  <4>2. CASE rows[k].status # "closed"
                        <5>1. k \in Closable(p)
                              BY <1>3, <2>6, <4>2, SerialCommit
                        <5>2. rows'[k] = Close(rows[k], now[p])
                              BY <2>2, <2>6, <5>1, WrittenCases
                        <5>3. QED BY <1>1, <2>1, <2>6, <5>2, CloseRow
                  <4>3. QED BY <4>1, <4>2
            <3>2. L[k] = [open |-> rows[k].status # "closed", firstSeen |-> rows[k].firstSeen]
                  BY <2>1, <2>6 DEF EntryOf
            <3>3. EntryOf(rows'[k]) = [open |-> FALSE, firstSeen |-> rows[k].firstSeen]
                  BY <3>1 DEF EntryOf
            <3>4. L[k] # NoRow /\ L[k].firstSeen = rows[k].firstSeen
                  BY <2>3, <2>6, <3>2
            <3> HIDE DEF L
            <3>5. Ledger!Observed(k, CurrentSites(p), now[p])
                    = [open |-> FALSE, firstSeen |-> L[k].firstSeen]
                  BY <2>6, <3>4 DEF Ledger!Observed, L
            <3>6. QED BY <3>3, <3>4, <3>5
      <2>7. QED
            BY <2>4, <2>5, <2>6
<1>4. ASSUME NEW k \in Sites, k[2] \notin scanned[p] PROVE EntryOf(rows'[k]) = L[k]
      <2>1. rows'[k] = rows[k]
            BY <1>4, SerialCommit, WrittenCases
      <2>2. QED BY <2>1
<1>5. Ledger!Observe(scanned[p], CurrentSites(p), now[p])
      BY <1>2, <1>3, <1>4 DEF Ledger!Observe, Ledger!Sites, Sites
<1>6. QED
      BY <1>1, <1>5 DEF Ledger!Next

LEMMA LedgerStep ==
    ASSUME StoreInv, Serializable, [Next]_vars
    PROVE  [Ledger!Next]_<<[k \in Sites |-> EntryOf(rows[k])], observed>>
<1>1. CASE \E p \in Scanners : Commit(p)
      BY <1>1, CommitObserves
<1>2. CASE ~\E p \in Scanners : Commit(p)
      <2>1. rows' = rows /\ observed' = observed
            BY <1>2 DEF Next, Scan, vars, txVars, Edit, Start, ScanIssue, Begin,
                        Read, Abandon
      <2>2. QED BY <2>1
<1>3. QED
      BY <1>1, <1>2

\* When no transaction commits on a stale snapshot, the table is a ledger:
\* the transactions, snapshots, statements and crashes of any number of
\* scanners amount to one observation at a time.
THEOREM StoreKeepsLedger == ASSUME Serializable PROVE Spec => KeepsLedger
<1>1. Init => Ledger!Init
      BY DEF Init, NoRows, EntryOf, Ledger!Init, Ledger!Sites, Sites
<1>2. Serializable
      OBVIOUS
<1>3. StoreInv /\ [Next]_vars =>
        [Ledger!Next]_<<[k \in Sites |-> EntryOf(rows[k])], observed>>
      BY <1>2, LedgerStep
<1>4. QED
      BY <1>1, <1>3, StoreInvariant, PTL DEF Spec, KeepsLedger, Ledger!Spec

-----------------------------------------------------------------------------
(* What holds when the scans do not overlap.                               *)

OneScanner == \A p, q \in Scanners : p = q

\* The table's past lies before the start of the running scan, which lies
\* before the time its reconcile took.
PastInv ==
    /\ \A k \in Sites : rows[k] # NoRow => rows[k].firstSeen <= clock
    /\ \A p \in Scanners :
        /\ started[p] <= clock /\ now[p] <= clock
        /\ pc[p] = "read" => fresh[p]
        /\ pc[p] \in {"begun", "read"} => started[p] <= now[p]
        /\ pc[p] \in {"scan", "begun", "read"} =>
              \A k \in Sites : rows[k] # NoRow => rows[k].firstSeen < started[p]

LEMMA PastStep ==
    ASSUME OneScanner, StoreInv, PastInv, [Next]_vars PROVE PastInv'
<1> USE DEF StoreInv, TypeOK, PastInv, OneScanner, Row
<1>1. ASSUME NEW leak \in Leaks, Edit(leak) PROVE PastInv'
      BY <1>1 DEF Edit, scanVars, txVars
<1>2. ASSUME NEW p \in Scanners, Start(p) PROVE PastInv'
      BY <1>2 DEF Start
<1>3. ASSUME NEW p \in Scanners, NEW issue \in Issues,
             NEW got \in SUBSET LeaksIn(issue), ScanIssue(p, issue, got)
      PROVE  PastInv'
      BY <1>3 DEF ScanIssue, txVars
<1>4. ASSUME NEW p \in Scanners, Begin(p) PROVE PastInv'
      BY <1>4 DEF Begin, scanVars
<1>5. ASSUME NEW p \in Scanners, Read(p) PROVE PastInv'
      BY <1>5 DEF Read, scanVars
<1>6. ASSUME NEW p \in Scanners, Commit(p) PROVE PastInv'
      <2>1. /\ rows' = [k \in Sites |-> Written(p, k)] /\ pc[p] = "read"
            /\ pc' = [pc EXCEPT ![p] = "done"]
            /\ UNCHANGED <<clock, started, now>>
            BY <1>6 DEF Commit, scanVars
      <2>2. ASSUME NEW k \in Sites, rows'[k] # NoRow PROVE rows'[k].firstSeen <= clock
            <3>1. rows[k] # NoRow => rows'[k].firstSeen = rows[k].firstSeen
                  BY <2>1, WrittenRow
            <3>2. ASSUME rows[k] = NoRow PROVE rows'[k].firstSeen = now[p]
                  <4>1. k \in CurrentSites(p)
                        BY <2>1, <2>2, <3>2, WrittenCases
                  <4>2. QED BY <2>1, <3>2, <4>1, UpsertRow, WrittenCases
            <3>3. QED BY <2>2, <3>1, <3>2
      <2>3. \A q \in Scanners : pc'[q] = "done"
            BY <2>1
      <2>4. QED BY <2>1, <2>2, <2>3
<1>7. ASSUME NEW p \in Scanners, Abandon(p) PROVE PastInv'
      BY <1>7 DEF Abandon, scanVars
<1>8. CASE UNCHANGED vars
      BY <1>8 DEF vars
<1>9. QED
      BY <1>1, <1>2, <1>3, <1>4, <1>5, <1>6, <1>7, <1>8 DEF Next, Scan

LEMMA PastInit == Init => PastInv
BY DEF Init, NoRows, PastInv

\* The minimum of a set of times is one of them and none is smaller.
LEMMA MinOfTimes ==
    ASSUME NEW S \in SUBSET Times, S # {}
    PROVE  Min(S) \in S /\ \A t \in S : Min(S) <= t
<1>1. S \subseteq Nat
      OBVIOUS
<1>2. \E x \in S : \A y \in S : ~ (<<y, x>> \in OpToRel(<, Nat))
      BY <1>1, WFMin, NatLessThanWellFounded
<1>3. OpToRel(<, Nat) = {ss \in Nat \X Nat : ss[1] < ss[2]}
      BY DEF OpToRel
<1> DEFINE R == OpToRel(<, Nat)
<1>4. PICK x \in S : \A y \in S : ~ (<<y, x>> \in R)
      BY <1>2
<1>5. R = {ss \in Nat \X Nat : ss[1] < ss[2]}
      BY <1>3
<1> HIDE DEF R
<1>6. \A y \in S : x <= y
      <2> SUFFICES ASSUME NEW y \in S PROVE x <= y
          OBVIOUS
      <2>1. x \in Nat /\ y \in Nat /\ <<y, x>> \in Nat \X Nat
            BY <1>1
      <2>2. <<y, x>> \notin {ss \in Nat \X Nat : ss[1] < ss[2]}
            BY <1>4, <1>5
      <2>3. ~ (y < x)
            BY <2>1, <2>2
      <2>4. QED BY <2>1, <2>3
<1>7. QED
      BY <1>6 DEF Min

LEMMA NewStep ==
    ASSUME OneScanner, StoreInv, PastInv, [Next]_vars,
           NEW p \in Scanners, NEW s \in Secrets, Commits(p), s \in Found(p)
    PROVE  report'[p].found[s].status = "new" <=>
               \A k \in CurrentSites(p) : k[1] = s => rows[k] = NoRow
<1>1. Commit(p)
      BY CommitsCommit DEF StoreInv
<1>2. pc[p] = "read" /\ fresh[p] /\ now[p] \in Times /\ started[p] \in Times
      /\ started[p] <= now[p]
      BY <1>1 DEF Commit, PastInv, StoreInv, TypeOK
<1> DEFINE D == {FirstSeenAt(p, leak) : leak \in Located(p, s)}
<1>3. \A leak \in Located(p, s) :
         /\ SiteOf(leak) \in Sites /\ SiteOf(leak) \in CurrentSites(p)
         /\ SiteOf(leak)[1] = s
         /\ stored[p][SiteOf(leak)] = rows[SiteOf(leak)]
      <2> TAKE leak \in Located(p, s)
      <2>1. leak \in current[p] /\ leak[1] = s /\ leak \in Secrets \X Issues \X Fields
            BY DEF Located, StoreInv, TypeOK, Leaks
      <2>2. SiteOf(leak) = <<leak[1], leak[2]>> /\ SiteOf(leak) \in Sites
            BY <2>1 DEF SiteOf, Sites
      <2>3. leak[2] \in scanned[p]
            BY <2>1 DEF StoreInv, ScopeInv
      <2>4. stored[p][SiteOf(leak)] = rows[SiteOf(leak)]
            BY <1>2, <2>2, <2>3 DEF StoreInv, FreshInv
      <2>5. QED BY <2>1, <2>2, <2>4 DEF CurrentSites
<1>4. \A leak \in Located(p, s) :
         /\ FirstSeenAt(p, leak) \in Times
         /\ rows[SiteOf(leak)] = NoRow => FirstSeenAt(p, leak) = now[p]
         /\ rows[SiteOf(leak)] # NoRow => FirstSeenAt(p, leak) < started[p]
      BY <1>2, <1>3 DEF FirstSeenAt, StoreInv, TypeOK, PastInv, Row
<1>5. D \in SUBSET Times /\ D # {}
      <2>1. D \subseteq Times
            BY <1>4
      <2>2. PICK leak \in current[p] : leak[1] = s
            BY DEF Found
      <2>3. leak \in Located(p, s)
            BY <2>2 DEF Located
      <2>4. QED BY <2>1, <2>3
<1>6. FirstSeen(p, s) = Min(D)
      BY DEF FirstSeen
<1> HIDE DEF D
<1>7. FirstSeen(p, s) \in D /\ \A t \in D : FirstSeen(p, s) <= t
      BY <1>5, <1>6, MinOfTimes
<1>8. FirstSeen(p, s) < started[p] <=>
         \E leak \in Located(p, s) : rows[SiteOf(leak)] # NoRow
      BY <1>2, <1>4, <1>5, <1>7 DEF D
<1>9. report'[p].found[s] = Enriched(p, s)
      <2>1. report' = [report EXCEPT ![p] =
              [found |-> [r \in Secrets |-> IF r \in Found(p) THEN Enriched(p, r)
                                            ELSE NoRow],
               closed |-> Announced(p)]]
            BY <1>1 DEF Commit
      <2>2. p \in DOMAIN report
            BY DEF StoreInv, TypeOK
      <2>3. QED BY <2>1, <2>2
<1>10. report'[p].found[s].status = "new" <=> ~(FirstSeen(p, s) < started[p])
      BY <1>9 DEF Enriched
<1>11. \A k \in CurrentSites(p) : k[1] = s => \E leak \in Located(p, s) : SiteOf(leak) = k
      BY DEF CurrentSites, Located, SiteOf
<1>12. QED
      BY <1>3, <1>8, <1>10, <1>11

\* With scans that do not overlap, a finding is reported as new exactly when
\* no earlier scan had a row for any of its sites.
THEOREM NewMeansNew == ASSUME OneScanner PROVE Spec => NewMeansNoRowBefore
<1>1. OneScanner
      OBVIOUS
<1>2. StoreInv /\ PastInv /\ [Next]_vars => PastInv'
      BY <1>1, PastStep
<1>3. StoreInv /\ PastInv /\ [Next]_vars =>
        [\A p \in Scanners, s \in Secrets :
          Commits(p) /\ s \in Found(p) =>
             (report'[p].found[s].status = "new" <=>
                 \A k \in CurrentSites(p) : k[1] = s => rows[k] = NoRow)]_vars
      BY <1>1, NewStep
<1>4. QED
      BY <1>2, <1>3, PastInit, StoreInvariant, PTL DEF Spec, NewMeansNoRowBefore

-----------------------------------------------------------------------------
(* Closing only what is gone.                                              *)

\* When no read fails, a scan has found every leak that was there to be read.
AllRead == \A p \in Scanners : present[p] \subseteq current[p]

LEMMA AllReadStep ==
    ASSUME ~ReadsMayFail, StoreInv, AllRead, [Next]_vars
    PROVE  AllRead'
<1> USE DEF AllRead, StoreInv, TypeOK
<1>1. ASSUME NEW p \in Scanners, Start(p) PROVE AllRead'
      BY <1>1 DEF Start
<1>2. ASSUME NEW p \in Scanners, NEW issue \in Issues,
             NEW got \in SUBSET LeaksIn(issue), ScanIssue(p, issue, got)
      PROVE  AllRead'
      BY <1>2 DEF ScanIssue, Merged
<1>3. ASSUME ~\E p \in Scanners :
                 \/ Start(p)
                 \/ \E issue \in Issues : \E got \in SUBSET LeaksIn(issue) :
                        ScanIssue(p, issue, got)
      PROVE  AllRead'
      <2>1. present' = present /\ current' = current
            BY <1>3 DEF Next, Scan, vars, Edit, Begin, Read, Commit, Abandon,
                        scanVars
      <2>2. QED BY <2>1
<1>4. QED
      BY <1>1, <1>2, <1>3

LEMMA ClosedStep ==
    ASSUME StoreInv, AllRead, [Next]_vars, NEW p \in Scanners, Commits(p),
           NEW k \in {SiteOf(leak) : leak \in present[p]},
           rows[k] # NoRow, rows[k].status # "closed"
    PROVE  rows'[k].status # "closed"
<1>1. Commit(p)
      BY CommitsCommit DEF StoreInv
<1>2. k \in CurrentSites(p) /\ k \in Sites
      BY FoundSites DEF AllRead, CurrentSites, StoreInv
<1>3. rows'[k] = Upsert(p, k)
      BY <1>1, <1>2, WrittenCases DEF Commit
<1>4. rows'[k].status # "closed"
      BY <1>1, <1>2, <1>3, UpsertRow DEF Commit, StoreInv
<1>5. QED
      BY <1>4

\* When no part of an issue fails to be read, a row is closed only if its
\* secret was not in the issue when the scan read it (store.rs:314-330), with
\* any number of racing scanners.  The run store_halfread shows what a failed
\* read does.
THEOREM ClosedWhenGone ==
    ASSUME ~ReadsMayFail
    PROVE  Spec => ClosedOnlyWhenAbsent
<1>1. Init => AllRead
      BY DEF Init, AllRead
<1>2. StoreInv /\ AllRead /\ [Next]_vars => AllRead'
      BY AllReadStep
<1>3. StoreInv /\ AllRead /\ [Next]_vars =>
          [\A p \in Scanners : Commits(p) =>
             \A k \in {SiteOf(leak) : leak \in present[p]} :
                 rows[k] # NoRow /\ rows[k].status # "closed" =>
                     rows'[k].status # "closed"]_vars
      BY ClosedStep
<1>4. QED
      BY <1>1, <1>2, <1>3, StoreInvariant, PTL DEF Spec, ClosedOnlyWhenAbsent
=============================================================================
