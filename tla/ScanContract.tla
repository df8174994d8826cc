---------------------------- MODULE ScanContract ----------------------------
(***************************************************************************)
(* What one scan promises about the issues its query selects, with no      *)
(* tasks, channel or pages in sight.  Every selected issue gets at most    *)
(* one verdict.  A scan may be reported Success only when every selected   *)
(* issue was scanned, and Partial only when it was cancelled or an issue   *)
(* failed; a scan that was never cancelled has a verdict for every         *)
(* selected issue even when it is Partial.  A scan may also end in an      *)
(* error, and then it promises nothing about the issues.                   *)
(***************************************************************************)
CONSTANT Selection      \* the issues the scan has to read

VARIABLES verdict,      \* per issue: "pending", "scanned" or "failed"
          cancelled,    \* TRUE once a signal asked the scan to stop
          outcome       \* "Running", "Success", "Partial" or "Error"

contractVars == <<verdict, cancelled, outcome>>

ContractTypeOK ==
    /\ verdict \in [Selection -> {"pending", "scanned", "failed"}]
    /\ cancelled \in BOOLEAN
    /\ outcome \in {"Running", "Success", "Partial", "Error"}

Init ==
    /\ verdict = [i \in Selection |-> "pending"]
    /\ cancelled = FALSE
    /\ outcome = "Running"

\* An issue receives its one verdict; later verdicts never overwrite it.
Settle(i, v) ==
    /\ outcome = "Running"
    /\ verdict[i] = "pending"
    /\ verdict' = [verdict EXCEPT ![i] = v]
    /\ UNCHANGED <<cancelled, outcome>>

Cancel ==
    /\ outcome = "Running"
    /\ cancelled' = TRUE
    /\ UNCHANGED <<verdict, outcome>>

Succeed ==
    /\ outcome = "Running"
    /\ ~cancelled
    /\ \A i \in Selection : verdict[i] = "scanned"
    /\ outcome' = "Success"
    /\ UNCHANGED <<verdict, cancelled>>

EndPartial ==
    /\ outcome = "Running"
    /\ cancelled \/ \E i \in Selection : verdict[i] = "failed"
    /\ cancelled \/ \A i \in Selection : verdict[i] # "pending"
    /\ outcome' = "Partial"
    /\ UNCHANGED <<verdict, cancelled>>

Abort ==
    /\ outcome = "Running"
    /\ outcome' = "Error"
    /\ UNCHANGED <<verdict, cancelled>>

Next ==
    \/ \E i \in Selection, v \in {"scanned", "failed"} : Settle(i, v)
    \/ Cancel
    \/ Succeed
    \/ EndPartial
    \/ Abort

Spec == Init /\ [][Next]_contractVars
=============================================================================
