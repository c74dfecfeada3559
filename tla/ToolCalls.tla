------------------------------ MODULE ToolCalls ------------------------------
(***************************************************************************)
(* What is said of single tool calls: the resources they claim and when    *)
(* two claims conflict (runtime/execution_planner.py), and how they fail   *)
(* (runtime/tool_failures.py).                                             *)
(*                                                                         *)
(* A claim names a domain, a key inside it, a scope and an access.  A key  *)
(* is an absolute path, here the sequence of its components, anchor first; *)
(* the key "*" of a claim that names no path is the sequence <<"*">>.      *)
(* The write leases of a project, the resource coordinator of a session    *)
(* and the planner of a batch of tool calls all use this one relation.     *)
(***************************************************************************)
EXTENDS Sequences, SequencesExt, Naturals

Scopes == {"exact", "subtree", "global"}
Accesses == {"read", "write"}

\* Every claim over the given domains and keys.
ClaimsOver(domains, keys) ==
    [domain: domains, key: keys, scope: Scopes, access: Accesses]

\* _is_same_or_child: os.path.commonpath((value, parent)) = parent.  Two paths
\* with no common anchor raise ValueError, which the code reads as FALSE.
SameOrChild(value, parent) == IsPrefix(parent, value)

\* A comparison that looks at nested directories in one direction only.
SameResourceOneWay(left, right) ==
    \/ "global" \in {left.scope, right.scope}
    \/ left.scope = "subtree" /\ SameOrChild(right.key, left.key)
    \/ right.scope = "exact" /\ left.key = right.key

\* The part of claims_conflict that compares scope and key, within one domain.
SameResource(left, right) ==
    \/ "global" \in {left.scope, right.scope}
    \/ /\ left.scope = "exact"
       /\ right.scope = "exact"
       /\ left.key = right.key
    \/ /\ left.scope = "subtree"
       /\ right.scope = "subtree"
       /\ SameOrChild(left.key, right.key) \/ SameOrChild(right.key, left.key)
    \/ /\ left.scope = "subtree"
       /\ right.scope = "exact"
       /\ SameOrChild(right.key, left.key)
    \/ /\ left.scope = "exact"
       /\ right.scope = "subtree"
       /\ SameOrChild(left.key, right.key)

\* claims_conflict
Conflict(left, right) ==
    /\ "write" \in {left.access, right.access}
    /\ \/ "global" \in {left.domain, right.domain}
       \/ left.domain = right.domain /\ SameResource(left, right)

\* The any(... for ... for ...) of every caller: two sets of claims conflict.
SetsConflict(these, those) == \E a \in these, b \in those : Conflict(a, b)

\* What a claim stands for, independently of the comparison above: the claim
\* touches the resource named <<domain, path>>.
Touches(claim, domain, path) ==
    \/ claim.domain = "global"
    \/ /\ claim.domain = domain
       /\ \/ claim.scope = "global"
          \/ claim.scope = "exact" /\ path = claim.key
          \/ claim.scope = "subtree" /\ IsPrefix(claim.key, path)

\* Two claims have a resource in common, and one of them writes it.
SharedWrite(left, right, domains, paths) ==
    /\ left.access = "write" \/ right.access = "write"
    /\ \E d \in domains, p \in paths : Touches(left, d, p) /\ Touches(right, d, p)

-----------------------------------------------------------------------------
(* The taxonomy of failed tool calls.                                      *)

\* Category of a kind, and whether the model may try again.
KindSpec(kind) ==
    CASE kind \in {"invalid_json", "invalid_arguments", "invalid_tool_call"} -> <<"invalid_call", TRUE>>
      [] kind \in {"unknown_tool", "tool_schema_error"} -> <<"invalid_call", FALSE>>
      [] kind = "workspace_escape" -> <<"policy", TRUE>>
      [] kind \in {"blocked_command", "permission_denied", "approval_denied", "policy_violation",
                   "profile_blocked", "user_attention_required"} -> <<"policy", FALSE>>
      [] kind \in {"budget_exceeded", "quota_exceeded"} -> <<"resource", FALSE>>
      [] kind = "subagent_capacity" -> <<"resource", TRUE>>
      [] kind = "verification_failed" -> <<"verification", TRUE>>
      [] OTHER -> <<"execution", TRUE>>

Category(kind) == KindSpec(kind)[1]
Retryable(kind) == KindSpec(kind)[2]

Protocol(kind) == Category(kind) = "invalid_call" /\ kind \notin {"unknown_tool", "tool_schema_error"}
Counted(kind) == kind \notin {"success", "approval_denied", "user_attention_required", "budget_exceeded"}

=============================================================================
