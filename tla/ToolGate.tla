------------------------------- MODULE ToolGate -------------------------------
(***************************************************************************)
(* The way of one tool call of the model: it is validated                   *)
(* (tool_call_validation.py), decided on (permissions.py), passes the       *)
(* middlewares (tool_guard.py, permission_middleware.py), runs              *)
(* (tool_runner.py), and what came out is normalized (tool_failures.py) and *)
(* told to the session's events (tool_executor.py, sessions/events.py).     *)
(* What a shell command does is what shell_classification.py made of it.    *)
(***************************************************************************)
EXTENDS Naturals, Sequences, ToolCalls

VARIABLES call,       \* the call, see Calls
          policy,     \* mode of the session or subagent, its role, and whether the profile has a preset
          phase,
          decision,   \* permission_decision, prepared with the call
          approved,   \* what the user or the model that stands in answered
          ran,        \* history: the handler was entered
          result,     \* [status, source, hint, intercepted], see KindOf
          events      \* what the event bus was told of the call
vars == <<call, policy, phase, decision, approved, ran, result, events>>

\* Calls, by what validation finds wrong with them, and what a good one would do.
Broken == {"invalid_json", "not_an_object", "unnamed", "unknown_tool", "tool_schema_error",
           "schema_mismatch", "empty", "workspace_escape", "interactive"}
NoShell == [effects |-> {}, scope |-> "workspace", destructive |-> FALSE, unknown |-> FALSE]
ShellOf(effects, scope, destructive, unknown) ==
    [effects |-> effects, scope |-> scope, destructive |-> destructive, unknown |-> unknown]
TargetScopes == {"workspace", "external", "system"}
Shells ==
    {ShellOf(effects, scope, FALSE, unknown) :
        effects \in {{}, {"write"}, {"execute"}}, scope \in TargetScopes, unknown \in BOOLEAN}
    \union {ShellOf(effects, scope, destructive, FALSE) :
        effects \in {{"write"}, {"delete"}, {"git"}, {"git", "network"}, {"execute"}, {"write", "git"}},
        scope \in TargetScopes, destructive \in BOOLEAN}
AskedCall(flaw, permission, shell, inside, broad) ==
    [flaw |-> flaw, permission |-> permission, shell |-> shell, inside |-> inside, broad |-> broad]
Permissions == {"read", "network_read", "edit", "control", "dangerous", "undeclared"}
Calls ==
    {AskedCall(flaw, "read", NoShell, TRUE, FALSE) : flaw \in Broken}
    \union {AskedCall("none", p, NoShell, inside, FALSE) : p \in Permissions, inside \in BOOLEAN}
    \union {AskedCall("none", "shell", shell, TRUE, FALSE) : shell \in Shells}
    \union {AskedCall("none", "shell", NoShell, TRUE, TRUE)}

Modes == {"read-only", "llm-auto", "workspace-write", "danger-full-access", "terminal-eval"}
PolicyOf(mode, role, preset) == [mode |-> mode, role |-> role, preset |-> preset]
Policies ==
    {PolicyOf(mode, "main", preset) : mode \in Modes, preset \in BOOLEAN}
    \union {PolicyOf("read-only", "reader", FALSE), PolicyOf("terminal-eval", "worker", FALSE)}

NoResult == [status |-> "none", source |-> "none", hint |-> "none", intercepted |-> FALSE]

Init ==
    /\ call \in Calls /\ policy \in Policies
    /\ phase = "raw" /\ decision = "none" /\ approved = "none" /\ ran = FALSE
    /\ result = NoResult /\ events = <<>>

(***************************************************************************)
(* Validation and permission.                                               *)
(***************************************************************************)
\* validate_tool_call: kind of the error, and whether it says that the call may be tried again.
ValidationError(flaw) ==
    CASE flaw = "invalid_json" -> <<"invalid_json", TRUE>>
      [] flaw = "unnamed" -> <<"invalid_tool_call", TRUE>>
      [] flaw \in {"unknown_tool", "tool_schema_error"} -> <<flaw, FALSE>>
      [] flaw \in {"not_an_object", "schema_mismatch", "empty"} -> <<"invalid_arguments", TRUE>>
      [] flaw = "workspace_escape" -> <<"workspace_escape", TRUE>>
      [] flaw = "interactive" -> <<"blocked_command", FALSE>>

\* _SHELL_PRESETS, and for_role for a worker: action for writes in the workspace, outside of it and
\* to the system, and for programs of unknown effect.
ShellPreset(p) ==
    CASE p.role = "worker" -> <<"allow", "deny", "deny", "deny">>
      [] p.mode = "read-only" -> <<"deny", "deny", "deny", "deny">>
      [] p.mode = "llm-auto" -> <<"ask", "deny", "deny", "ask">>
      [] p.mode = "workspace-write" -> <<"allow", "deny", "deny", "ask">>
      [] p.mode = "danger-full-access" -> <<"allow", "allow", "allow", "allow">>
      [] p.mode = "terminal-eval" -> <<"allow", "deny", "deny", "allow">>

Writes(shell) == shell.effects \intersect {"write", "delete"} # {}
Catastrophic(shell) ==
    /\ shell.destructive
    /\ \/ "git" \in shell.effects
       \/ shell.scope = "system" /\ (Writes(shell) \/ "execute" \in shell.effects)

\* _decide_shell.
DecideShell(shell, p) ==
    LET preset == ShellPreset(p)
        scope == CASE shell.scope = "system" -> 3 [] shell.scope = "external" -> 2 [] OTHER -> 1
    IN  CASE Catastrophic(shell) -> "deny"
          [] ~Catastrophic(shell) /\ Writes(shell) -> preset[scope]
          [] ~Catastrophic(shell) /\ ~Writes(shell) /\ "git" \in shell.effects ->
                preset[IF "network" \in shell.effects THEN 2 ELSE 1]
          [] OTHER -> IF ~Catastrophic(shell) /\ shell.unknown THEN preset[4] ELSE "allow"

\* _decide_structured_tool and _edit_path_block.
DecideStructured(permission, inside, p) ==
    CASE permission \in {"read", "network_read", "control"} -> "allow"
      [] permission = "edit" ->
            IF p.mode = "read-only" \/ (p.role = "worker" /\ ~inside) THEN "deny" ELSE "allow"
      [] permission \in {"dangerous", "undeclared"} ->
            CASE p.mode \in {"danger-full-access", "terminal-eval"} -> "allow"
              [] p.mode = "read-only" -> "deny"
              [] OTHER -> "ask"

\* is_workspace_write_shell_command.
WritesWorkspace(shell) ==
    \/ "git" \in shell.effects /\ "network" \notin shell.effects
    \/ Writes(shell) /\ shell.scope = "workspace"

SessionDecision(c, p) ==
    IF c.permission = "shell" THEN DecideShell(c.shell, p)
    ELSE DecideStructured(c.permission, c.inside, p)

\* Mutant of Decide: the preset answers for every command it does not deny.
DecideByPreset(c, p) ==
    IF p.preset /\ c.permission = "shell"
    THEN IF WritesWorkspace(c.shell) THEN "deny" ELSE "allow"
    ELSE SessionDecision(c, p)

\* decide_tool_call, through _ProfilePresetPolicy where the profile has a preset.
Decide(c, p) ==
    IF p.preset /\ c.permission = "shell" /\ WritesWorkspace(c.shell) THEN "deny"
    ELSE SessionDecision(c, p)

(***************************************************************************)
(* The steps.                                                               *)
(***************************************************************************)
Failed(source, hint, intercepted) ==
    [status |-> "failed", source |-> source, hint |-> hint, intercepted |-> intercepted]

\* _prepare_calls: the profile may refuse the call (_profile_block_reason).
Prepare ==
    /\ phase = "raw" /\ phase' = "prepared"
    /\ IF call.flaw # "none"
       THEN /\ result' = Failed("validation", ValidationError(call.flaw)[1], TRUE)
            /\ decision' = "none"
       ELSE /\ result' \in {NoResult, Failed("permission", "none", TRUE)}
            /\ decision' = Decide(call, policy)
    /\ UNCHANGED <<call, policy, approved, ran, events>>

Tell(told) == events' = events \o told

\* _execute_group: a cancelled turn takes up no call; one over the budget, or refused, does not run.
TakeUp ==
    /\ phase = "prepared"
    /\ \/ phase' = "aborted" /\ UNCHANGED result
       \/ phase' = "executed" /\ result' = Failed("budget", "none", TRUE)
       \/ result # NoResult /\ phase' = "executed" /\ UNCHANGED result
       \/ result = NoResult /\ phase' = "guarded" /\ UNCHANGED result
    /\ UNCHANGED <<call, policy, decision, approved, ran, events>>

\* ToolGuardMiddleware.before_tool and PermissionMiddleware.before_tool up to the question.
BeforeTool ==
    /\ phase = "guarded"
    /\ CASE call.broad -> phase' = "executed" /\ result' = Failed("tool_policy", "none", TRUE) /\ Tell(<<>>)
         [] ~call.broad /\ decision = "deny" ->
              phase' = "executed" /\ result' = Failed("permission", "none", TRUE) /\ Tell(<<>>)
         [] ~call.broad /\ decision = "ask" ->
              phase' = "asking" /\ UNCHANGED result /\ Tell(<<"approval_requested">>)
         [] ~call.broad /\ decision = "allow" -> phase' = "allowed" /\ UNCHANGED result /\ Tell(<<>>)
    /\ UNCHANGED <<call, policy, decision, approved, ran>>

\* The provider answers; a cancellation of the turn ends the question without an answer, except
\* that LlmAutoApprovalProvider takes it for a refusal.
Approval ==
    /\ phase = "asking"
    /\ \/ /\ approved' = "yes" /\ phase' = "allowed" /\ UNCHANGED result
          /\ Tell(<<"approval_decided">>)
       \/ /\ approved' = "no" /\ phase' = "executed" /\ result' = Failed("approval", "none", TRUE)
          /\ Tell(<<"approval_decided">>)
       \/ /\ policy.mode # "llm-auto" /\ phase' = "aborted"
          /\ UNCHANGED <<approved, result>> /\ Tell(<<>>)
    /\ UNCHANGED <<call, policy, decision, ran>>

\* emit_tool_call_started, and the call is submitted.
Start ==
    /\ phase = "allowed" /\ phase' = "running" /\ Tell(<<"tool_call">>)
    /\ UNCHANGED <<call, policy, decision, approved, ran, result>>

\* What a handler, or the way to it, comes to.
Outcomes ==
    {[status |-> "success", source |-> "native", hint |-> "none", intercepted |-> FALSE],
     [status |-> "unknown", source |-> "unstructured", hint |-> "none", intercepted |-> FALSE]}
    \union {Failed(source, "none", FALSE) :
              source \in {"native", "shell", "mcp", "exception", "workspace_conflict", "validation",
                          "user_question", "agent_policy"}}
    \union {Failed("shell", hint, FALSE) : hint \in {"timed_out", "no_such_command", "no_such_file", "traceback"}}
    \union {Failed("resource", hint, FALSE) : hint \in {"subagent_capacity", "workspace_quota"}}

\* execute_tool_result; the tool may have gone since the call was validated.
Run ==
    /\ phase = "running" /\ phase' = "executed"
    /\ \/ ran' = TRUE /\ result' \in Outcomes
       \/ UNCHANGED ran /\ result' = Failed("registry", "none", FALSE)
    /\ UNCHANGED <<call, policy, decision, approved, events>>

\* The turn is cancelled before the call starts, while it runs, or after it: the model is answered
\* (ToolBatch), the events are not.
Abandon ==
    /\ phase \in {"running", "executed"} /\ phase' = "aborted"
    /\ ran' \in IF phase = "running" THEN BOOLEAN ELSE {ran}
    /\ UNCHANGED <<call, policy, decision, approved, result, events>>

\* ToolFailure.from_result: the kind of a failed result.
KindOf(r) ==
    CASE r.source = "validation" -> IF r.hint = "none" THEN "invalid_arguments" ELSE r.hint
      [] r.hint = "timed_out" -> "timeout"
      [] r.source = "resource" -> IF r.hint = "workspace_quota" THEN "quota_exceeded" ELSE "subagent_capacity"
      [] r.source = "permission" -> "permission_denied"
      [] r.source = "approval" -> "approval_denied"
      [] r.source = "tool_policy" -> "policy_violation"
      [] r.source = "agent_policy" -> "profile_blocked"
      [] r.source = "user_question" -> "user_attention_required"
      [] r.source = "budget" -> "budget_exceeded"
      [] r.source = "registry" -> "unknown_tool"
      [] r.source = "exception" -> "tool_internal_error"
      [] r.source = "shell" /\ r.hint = "no_such_command" -> "command_not_found"
      [] r.source = "shell" /\ r.hint = "no_such_file" -> "file_not_found"
      [] r.source = "shell" /\ r.hint = "traceback" -> "tool_internal_error"
      [] r.source = "shell" /\ r.hint = "none" -> "process_failed"
      [] OTHER -> "execution_failed"

\* classify_tool_failure, once the result carries its kind.
EventCategory(r) ==
    CASE Category(KindOf(r)) = "invalid_call" -> "validation_error"
      [] Category(KindOf(r)) = "policy" ->
            IF KindOf(r) = "approval_denied" THEN "user_cancelled" ELSE "tool_error"
      [] Category(KindOf(r)) \in {"resource", "verification"} -> "runtime_error"
      [] Category(KindOf(r)) = "execution" ->
            IF r.source \in {"runtime", "exception", "shell"} THEN "runtime_error" ELSE "tool_error"

\* Mutant of Record: the call of an intercepted result is not told.
RecordAnnounced ==
    /\ phase = "executed" /\ phase' = "recorded"
    /\ Tell(<<"tool_result">> \o (IF result.status = "failed" THEN <<EventCategory(result)>> ELSE <<>>))
    /\ UNCHANGED <<call, policy, decision, approved, ran, result>>

\* _record_executed_result: finalize_intercepted_tool_result or finalize_executed_tool_result.
Record ==
    /\ phase = "executed" /\ phase' = "recorded"
    /\ Tell((IF result.intercepted THEN <<"tool_call">> ELSE <<>>) \o <<"tool_result">>
            \o (IF result.status = "failed" THEN <<EventCategory(result)>> ELSE <<>>))
    /\ UNCHANGED <<call, policy, decision, approved, ran, result>>

Next == Prepare \/ TakeUp \/ BeforeTool \/ Approval \/ Start \/ Run \/ Abandon \/ Record

Spec == Init /\ [][Next]_vars

-----------------------------------------------------------------------------
TypeOK ==
    /\ call \in Calls /\ policy \in Policies /\ ran \in BOOLEAN
    /\ phase \in {"raw", "prepared", "guarded", "asking", "allowed", "running", "executed", "recorded",
                  "aborted"}
    /\ decision \in {"none", "deny", "ask", "allow"} /\ approved \in {"none", "yes", "no"}
    /\ Len(events) <= 5

Rank(action) == CASE action = "deny" -> 0 [] action = "ask" -> 1 [] action = "allow" -> 2
AtMost(c, p, q) == Rank(Decide(c, p)) <= Rank(Decide(c, q))

\* A mode that allows more allows everything that the one before it does, and a preset of the
\* profile "can only tighten a session decision; it never loosens one" (permissions.py).
DecisionsAreOrdered ==
    phase = "raw" =>
        /\ AtMost(call, [policy EXCEPT !.preset = TRUE], policy)
        /\ policy.role = "main" =>
              /\ AtMost(call, [policy EXCEPT !.mode = "read-only"], [policy EXCEPT !.mode = "llm-auto"])
              /\ AtMost(call, [policy EXCEPT !.mode = "llm-auto"], [policy EXCEPT !.mode = "workspace-write"])
              /\ AtMost(call, policy, [policy EXCEPT !.mode = "danger-full-access"])

\* Nothing is written where the mode is read-only, by a worker outside its paths, or by a command
\* under a profile that only reviews; and what had to be asked was granted.
RunsArePermitted ==
    ran =>
        /\ call.flaw = "none" /\ ~call.broad
        /\ policy.mode = "read-only" =>
              call.permission # "edit" /\ ~Writes(call.shell) /\ "git" \notin call.shell.effects
        /\ policy.role = "worker" /\ call.permission = "edit" => call.inside
        /\ policy.preset => ~WritesWorkspace(call.shell)
        /\ decision = "ask" => approved = "yes"

\* What a failure is called is what happened: a call that did not run did not fail in execution, one
\* that ran was not malformed (unless its handler says so), and only the user's refusal is told as
\* one; and the two tables of what may be tried again agree (ToolError, _KIND_SPECS).
FailuresAreTrue ==
    /\ phase = "recorded" /\ result.status = "failed" =>
          /\ ~ran => Category(KindOf(result)) \in {"invalid_call", "policy", "resource"}
          /\ ran => Category(KindOf(result)) # "invalid_call" \/ result.source = "validation"
          /\ EventCategory(result) = "user_cancelled" <=> approved = "no"
    /\ call.flaw # "none" =>
          ValidationError(call.flaw)[2] = Retryable(ValidationError(call.flaw)[1])

\* The events tell each call once and before its result, the question before its answer, and leave
\* one without the other only when the turn is cancelled.
EventsAreWhole ==
    LET told(name) == {i \in DOMAIN events : events[i] = name}
        follows(name, first) == \A i \in told(name) : \E j \in told(first) : j < i
    IN  /\ follows("tool_result", "tool_call") /\ follows("approval_decided", "approval_requested")
        /\ \A i, j \in told("tool_call") : i = j
        /\ phase = "recorded" =>
              /\ told("tool_call") # {} /\ told("tool_result") # {}
              /\ told("approval_requested") # {} => told("approval_decided") # {}
        /\ Len(events) > 0 /\ events[Len(events)] \in {"tool_error", "validation_error", "user_cancelled"} =>
              result.status = "failed"

=============================================================================
