------------------------------ MODULE Configuration ------------------------------
(***************************************************************************)
(* The configuration of a run (src/src/config.rs): what can be set, where  *)
(* a setting comes from, and which configurations are refused before       *)
(* anything is done.                                                       *)
(***************************************************************************)
EXTENDS Reports, Alerts

SizeNames == {"pageSize", "concurrency", "maxFindingsPerIssue", "maxTextSizeKb",
              "maxAttachmentSizeMb"}

\* The settings a run goes by.  A URL stands for its scheme; the token is what its
\* three sources hold; `alerts` is the file the option names.
Config ==
    [jiraUrl : STRING, auth : STRING,
     pat : STRING \cup {Unset}, envPat : STRING \cup {Unset}, envApiToken : STRING \cup {Unset},
     email : STRING \cup {Unset},
     jql : [operator : {"equals", "in", "other"}, tokens : Seq(DOMAIN Kept)] \cup {Unset},
     size : [SizeNames -> Nat], maxIssues : Nat,
     minConfidence : STRING,
     format : Seq(STRING), reportLayout : STRING, dryRun : BOOLEAN,
     incremental : BOOLEAN, stateDir : STRING, dbUrl : STRING \cup {Unset},
     metricsPath : STRING \cup {Unset}, metricsFormat : STRING,
     alerts : AlertsFile \cup {Unset}]

\* Config::default
Default ==
    [jiraUrl |-> "", auth |-> "bearer",
     pat |-> Unset, envPat |-> Unset, envApiToken |-> Unset, email |-> Unset,
     jql |-> Unset,
     size |-> [pageSize |-> 50, concurrency |-> 2, maxFindingsPerIssue |-> 1000,
               maxTextSizeKb |-> 2048, maxAttachmentSizeMb |-> 10],
     maxIssues |-> 0,
     minConfidence |-> "low",
     format |-> <<"json">>, reportLayout |-> "flat", dryRun |-> FALSE,
     incremental |-> FALSE, stateDir |-> "./.jiraleaks-state", dbUrl |-> Unset,
     metricsPath |-> Unset, metricsFormat |-> "json", alerts |-> Unset]

\* resolve_pat: the first source that is set; an empty one does not count.
Present(source) == source \notin {Unset, ""}
ResolvePat(c) ==
    IF Present(c.pat) THEN c.pat
    ELSE IF Present(c.envPat) THEN c.envPat
    ELSE IF Present(c.envApiToken) THEN c.envApiToken ELSE ""

\* MetricsFormat::parse_opt, on the command line.
Parsed(c) == c.metricsFormat \in {"json", "prom", "prometheus"}

\* Config::validate.  The alerts file is not looked at.
Valid(c) ==
    /\ c.jiraUrl \in {"http", "https"}
    /\ c.jql # Unset
    /\ c.auth # "none" => ResolvePat(c) # ""
    /\ c.auth = "basic" => c.email # Unset
    /\ c.auth \in {"bearer", "basic", "none"}
    /\ \A s \in SizeNames : c.size[s] > 0
    /\ c.reportLayout \in {"flat", "nested"}
    /\ c.minConfidence \in Confidences
    /\ Accepted(c.format)

\* Config::db_url: an empty URL, or none and no state directory, disables the store.
UsesStore(c) == IF c.dbUrl = Unset THEN c.stateDir # "" ELSE c.dbUrl # ""

UsesMetrics(c) == c.metricsPath # Unset
UsesAlerts(c) == c.alerts # Unset
================================================================================
