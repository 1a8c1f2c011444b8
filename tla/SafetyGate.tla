---------------------------- MODULE SafetyGate ----------------------------
(***************************************************************************)
(* agent/safety_gate.py: the tier of every tool, and what the gate answers *)
(* for an action and for an external write with a merge policy.            *)
(***************************************************************************)

ReadTools ==
    {"search_organization", "search_slack", "search_docs", "search_drive",
     "search_wiki", "search_github", "search_tickets", "search_incidents",
     "search_logs", "find_related", "trace_entity_upstream",
     "trace_entity_downstream", "get_entity_neighbors", "list_repositories",
     "list_files", "read_file", "search_code", "inspect_git_history",
     "inspect_pull_requests", "inspect_diff", "read_ticket"}

SandboxTools ==
    {"edit_file", "create_file", "run_tests", "run_command", "run_linter",
     "reproduce_issue", "run_formatter", "create_branch", "commit_changes",
     "create_test_file", "review_pull_request"}

HighRiskTools ==
    {"deploy_to_production", "delete_database", "rotate_credentials",
     "send_customer_communication"}

\* External writes, and every tool the table does not know, wait for approval.
ClassifyTool(tool) ==
    IF tool \in ReadTools THEN "ALLOWED"
    ELSE IF tool \in SandboxTools THEN "SANDBOX_ONLY"
    ELSE IF tool \in HighRiskTools THEN "DENIED"
    ELSE "APPROVAL_REQUIRED"

EvaluateAction(tool, confined) ==
    LET tier == ClassifyTool(tool) IN
    IF tier = "SANDBOX_ONLY" THEN (IF confined THEN "ALLOWED" ELSE "DENIED") ELSE tier

EvaluateMergeAction(tool, auto_mergeable) ==
    IF ClassifyTool(tool) # "APPROVAL_REQUIRED" THEN EvaluateAction(tool, TRUE)
    ELSE IF auto_mergeable THEN "SAFE_TO_EXECUTE"
    ELSE "APPROVAL_REQUIRED"

=============================================================================
