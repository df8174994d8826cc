---------------------------- MODULE MCRunEmission ----------------------------
(* RunEmission for TLC.  Issues are interchangeable: no definition and no     *)
(* property names one of them, and all may contain the same secret.           *)
EXTENDS RunEmission, TLC

Symmetry == Permutations(Issues)

MCLeak == [i \in Issues |-> [rule |-> "r", severity |-> "high", confidence |-> "medium"]]

\* A token of the query that may name a directory, and one that may not.
MCKept == [SEC |-> "SEC", dots |-> ""]

\* Slack and Teams list fewer findings than the webhook.
MCTopFindings == [slack |-> 1, teams |-> 1, webhook |-> 2]

Alerting == [parses |-> TRUE, named |-> {"slack", "webhook"}, blank |-> {},
             minConfidence |-> "medium"]

\* The default page_size is served in full.
MCServerLimit == 50

\* What a run needs at least.
Usable == [Default EXCEPT !.jiraUrl = "https", !.envPat = "", !.envApiToken = "t",
                          !.jql = [operator |-> "in", tokens |-> <<"dots", "SEC">>],
                          !.stateDir = "", !.reportLayout = "nested",
                          !.format = <<"sarif", "json", "sarif">>]

\* With and without a store and a baseline, with all consumers and with the fewest,
\* with a search that may end early, and configurations that are refused early or late.
MCConfigs ==
    {[Usable EXCEPT !.dbUrl = "sqlite", !.incremental = n] : n \in BOOLEAN}
    \cup {[Usable EXCEPT !.metricsPath = "m", !.alerts = Alerting, !.dbUrl = c.db,
                         !.incremental = c.incremental, !.format = c.format] :
            c \in {[db |-> "sqlite", incremental |-> TRUE, format |-> <<"defectdojo", "sarif">>],
                   [db |-> Unset, incremental |-> FALSE, format |-> <<"csv", "all", "json">>]}}
    \cup {[Usable EXCEPT !.dryRun = TRUE, !.dbUrl = "sqlite", !.incremental = TRUE],
          [Usable EXCEPT !.incremental = TRUE, !.maxIssues = 1],
          [Usable EXCEPT !.incremental = TRUE, !.size["pageSize"] = MCServerLimit + 1,
                         !.format = <<"sarif">>],
          [Usable EXCEPT !.alerts = [Alerting EXCEPT !.blank = {"slack"}],
                         !.format = <<"json">>],
          [Usable EXCEPT !.envApiToken = Unset],
          [Usable EXCEPT !.format = <<"json", "pdf">>]}
=============================================================================
