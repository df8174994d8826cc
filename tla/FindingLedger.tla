---------------------------- MODULE FindingLedger ----------------------------
(***************************************************************************)
(* What the findings table means across scans, with no transactions,       *)
(* snapshots or statements in sight.  A site is one secret in one issue.   *)
(* Each completed scan is one observation: it names the issues it read and *)
(* the sites it saw in them.  An observed site is open and keeps the time  *)
(* it was first seen; a known site of a read issue that was not seen is    *)
(* closed; the sites of every other issue keep what is known of them.      *)
(***************************************************************************)
CONSTANTS Secrets, Issues,
          Times,            \* the instants a scan may carry
          Unseen            \* a site no scan has seen yet

Sites == Secrets \X Issues

VARIABLES ledger,           \* per site: Unseen, or whether it is open and
                            \* when it was first seen
          observed          \* the latest observation: issues read, sites seen

Entry == [open : BOOLEAN, firstSeen : Times]

LedgerTypeOK ==
    /\ ledger \in [Sites -> Entry \cup {Unseen}]
    /\ observed \in [issues : SUBSET Issues, seen : SUBSET Sites]

Init ==
    /\ ledger = [k \in Sites |-> Unseen]
    /\ observed = [issues |-> {}, seen |-> {}]

\* What one observation at time t makes of a site.
Observed(k, seen, t) ==
    IF k \in seen
    THEN [open |-> TRUE,
          firstSeen |-> IF ledger[k] = Unseen THEN t ELSE ledger[k].firstSeen]
    ELSE IF ledger[k] = Unseen THEN Unseen
         ELSE [open |-> FALSE, firstSeen |-> ledger[k].firstSeen]

Observe(issues, seen, t) ==
    /\ observed' = [issues |-> issues, seen |-> seen]
    /\ ledger' = [k \in Sites |-> IF k[2] \in issues THEN Observed(k, seen, t)
                                                      ELSE ledger[k]]

Next == \E issues \in SUBSET Issues :
            \E seen \in SUBSET (Secrets \X issues), t \in Times : Observe(issues, seen, t)

Spec == Init /\ [][Next]_<<ledger, observed>>
=============================================================================
