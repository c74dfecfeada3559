---------------------------- MODULE ToolDisclosure ----------------------------
(***************************************************************************)
(* Which tools of the MCP servers the model is shown                        *)
(* (runtime/builtins/discovery.py, agent/tool_executor.py,                  *)
(* core/interactive.py).  They are registered as "deferred" and shown only  *)
(* after search_tools found them; searches are remembered, so that the      *)
(* model does not repeat one; the profile decides which of the tools found  *)
(* may be called; and a change of a server is taken over between turns or   *)
(* by a search, the main agent's or a subagent's.                           *)
(*                                                                         *)
(* A tool has version 0 where it does not exist; version 2 has another      *)
(* schema than 1, and needs a permission that the profile "plan" lacks.  A  *)
(* query is the set of tools whose documents it matches.                    *)
(***************************************************************************)
EXTENDS Naturals

CONSTANTS Tool,
          MaxRevision    \* bound: revisions of the catalog

VARIABLES offered, revision,  \* the manager's bindings, connection_revision
          registry, taken,    \* deferred specs of tool_registry; _mcp_connection_revision
          profile,
          discovered, revealed,  \* discovered_tool_names, revealed_tool_names
          shown,              \* agent.tool_schemas, deferred ones
          queries, signature, \* search_tools_queries, search_tools_signature
          phase,              \* what the main agent and a subagent do
          result,             \* names that the search under way returned
          dropped, overtaken  \* history: queries whose result was dropped, tools that a search
                              \* registered anew after they were found
vars == <<offered, revision, registry, taken, profile, discovered, revealed, shown, queries,
          signature, phase, result, dropped, overtaken>>

Absent == [t \in Tool |-> 0]

Init ==
    /\ offered \in [Tool -> 0..1] /\ revision = 0 /\ registry = offered /\ taken = 0
    /\ profile = "work" /\ discovered = {} /\ revealed = {} /\ shown = Absent
    /\ queries = {} /\ signature = Absent /\ phase = [main |-> "rest", sub |-> "rest"]
    /\ result = {} /\ dropped = {} /\ overtaken = {}

\* tool_schemas_for_profile: the deferred tools among names that the profile allows.
Permits(p, version) == version = 1 \/ (version = 2 /\ p = "work")
CallableOf(names, tools, p) == {t \in names : Permits(p, tools[t])}
\* What search_tools sees, and its fingerprint.
View == CallableOf(Tool, registry, profile)
Signature == [t \in Tool |-> IF t \in View THEN registry[t] ELSE 0]

Existing(tools) == {t \in Tool : tools[t] # 0}
Goes(agent, place) == phase' = [phase EXCEPT ![agent] = place]
Resting == phase.main = "rest"

\* _tool_schemas_for_agent_config and update_tool_schemas: what may be called and is shown.
RefreshAgentToolSchemas(found, tools, p) ==
    LET callable == CallableOf(found, tools, p) IN
    /\ discovered' = found /\ revealed' = callable
    /\ shown' = [t \in Tool |-> IF t \in callable THEN tools[t] ELSE 0]
    /\ overtaken' = {}

\* A worker of a server ends, or comes up with other tools.
ConnectionChanges ==
    /\ revision < MaxRevision /\ revision' = revision + 1
    /\ \E tools \in [Tool -> 0..2] : offered' = tools /\ tools # offered
    /\ UNCHANGED <<registry, taken, profile, discovered, revealed, shown, queries, signature, phase,
                   result, dropped, overtaken>>

\* Mutant of RebuildMcpState: the memory of the searches is kept.
RebuildKeepingMemory ==
    /\ registry' = offered /\ taken' = revision
    /\ RefreshAgentToolSchemas(discovered \intersect Existing(offered), offered, profile)
    /\ UNCHANGED <<queries, dropped>>

\* _rebuild_mcp_state; tools that are gone take the memory of the searches with them.
RebuildMcpState ==
    LET gone == discovered \ Existing(offered) IN
    /\ registry' = offered /\ taken' = revision
    /\ RefreshAgentToolSchemas(discovered \ gone, offered, profile)
    /\ queries' = IF gone = {} THEN queries ELSE {}
    /\ dropped' = dropped \intersect queries'

\* reload_mcp_server, register_mcp_server, remove_mcp_server: between turns.
ServerCommand ==
    /\ Resting /\ RebuildMcpState
    /\ UNCHANGED <<offered, revision, profile, signature, phase, result>>

\* reload_mcp: a new manager and a new registry.
ReloadMcp ==
    /\ Resting /\ revision < MaxRevision /\ revision' = revision + 1
    /\ offered' \in [Tool -> 0..2] /\ registry' = offered' /\ taken' = revision'
    /\ RefreshAgentToolSchemas(discovered, registry', profile)
    /\ UNCHANGED <<profile, queries, signature, phase, result, dropped>>

\* _activate_profile: an agent is built anew.
ActivateProfile ==
    /\ Resting /\ profile' \in {"work", "plan"} \ {profile}
    /\ RefreshAgentToolSchemas(discovered, registry, profile')
    /\ UNCHANGED <<offered, revision, registry, taken, queries, signature, phase, result, dropped>>

\* _submit_prepared: _sync_mcp_connections, and the turn.
TurnStarts ==
    /\ Resting /\ Goes("main", "turn")
    /\ \/ taken # revision /\ RebuildMcpState
       \/ /\ taken = revision
          /\ UNCHANGED <<registry, taken, discovered, revealed, shown, queries, dropped, overtaken>>
    /\ UNCHANGED <<offered, revision, profile, signature, result>>

TurnEnds ==
    /\ phase.main = "turn" /\ Goes("main", "rest")
    /\ UNCHANGED <<offered, revision, registry, taken, profile, discovered, revealed, shown, queries,
                   signature, result, dropped, overtaken>>

\* _discover_mcp_tools: the tools are registered over those that are, and then the revision is read.
Discover(agent) ==
    /\ phase[agent] = (IF agent = "main" THEN "turn" ELSE "rest") /\ Goes(agent, "registered")
    /\ registry' = [t \in Tool |-> IF offered[t] = 0 THEN registry[t] ELSE offered[t]]
    /\ overtaken' = overtaken \union {t \in discovered : registry'[t] # registry[t]}
    /\ UNCHANGED <<offered, revision, taken, profile, discovered, revealed, shown, queries, signature,
                   result, dropped>>

ReadRevision(agent) ==
    /\ phase[agent] = "registered" /\ taken' = revision
    /\ Goes(agent, IF agent = "main" THEN "search" ELSE "rest")
    /\ UNCHANGED <<offered, revision, registry, profile, discovered, revealed, shown, queries,
                   signature, result, dropped, overtaken>>

\* search_tools from there: a catalog that changed clears the memory, a query known is refused.
Search(query) ==
    LET current == Signature
        known == IF signature = current THEN queries ELSE {}
    IN
    /\ phase.main = "search" /\ Goes("main", "found")
    /\ signature' = current /\ queries' = known \union {query}
    /\ result' = IF query \in known THEN {} ELSE (query \intersect View) \ revealed
    /\ dropped' = dropped \intersect known
    /\ UNCHANGED <<offered, revision, registry, taken, profile, discovered, revealed, shown, overtaken>>

\* The scope is a server without deferred tools: answered before anything is remembered.
SearchUnknownServer ==
    /\ phase.main = "search" /\ Goes("main", "turn")
    /\ UNCHANGED <<offered, revision, registry, taken, profile, discovered, revealed, shown, queries,
                   signature, result, dropped, overtaken>>

\* _reveal_tool_schemas_from_result.
Reveal ==
    LET named == CallableOf(result \ revealed, registry, profile) IN
    /\ phase.main = "found" /\ Goes("main", "turn") /\ result' = {}
    /\ revealed' = revealed \union named /\ discovered' = discovered \union named
    /\ shown' = [t \in Tool |-> IF t \in named /\ shown[t] = 0 THEN registry[t] ELSE shown[t]]
    /\ overtaken' = overtaken \ named
    /\ dropped' = dropped \union {q \in queries : q \intersect (result \ revealed') # {}}
    /\ UNCHANGED <<offered, revision, registry, taken, profile, queries, signature>>

\* _execute_group notices the cancellation of the turn: the result is recorded, nothing is revealed.
ResultDropped ==
    /\ phase.main = "found" /\ Goes("main", "turn") /\ result' = {}
    /\ dropped' = dropped \union {q \in queries : q \intersect result # {}}
    /\ UNCHANGED <<offered, revision, registry, taken, profile, discovered, revealed, shown, queries,
                   signature, overtaken>>

Next ==
    \/ ConnectionChanges \/ ServerCommand \/ ReloadMcp \/ ActivateProfile \/ TurnStarts \/ TurnEnds
    \/ \E agent \in {"main", "sub"} : Discover(agent) \/ ReadRevision(agent)
    \/ \E query \in SUBSET Tool \ {{}} : Search(query)
    \/ SearchUnknownServer \/ Reveal \/ ResultDropped

Spec == Init /\ [][Next]_vars

-----------------------------------------------------------------------------
TypeOK ==
    /\ offered \in [Tool -> 0..2] /\ registry \in [Tool -> 0..2] /\ shown \in [Tool -> 0..2]
    /\ signature \in [Tool -> 0..2] /\ revision \in 0..MaxRevision /\ taken \in 0..revision
    /\ profile \in {"work", "plan"}
    /\ discovered \subseteq Tool /\ revealed \subseteq Tool /\ result \subseteq Tool
    /\ overtaken \subseteq Tool
    /\ dropped \subseteq queries /\ queries \subseteq SUBSET Tool
    /\ phase.main \in {"rest", "turn", "registered", "search", "found"}
    /\ phase.sub \in {"rest", "registered"}

\* What the model is shown is exactly what may be called: found by a search, registered in that
\* version and allowed by the profile; but for tools that a search has registered anew since, which
\* nothing shows again until the next command or change of a connection.
ShownIsCallable ==
    /\ {t \in Tool : shown[t] # 0} = revealed /\ revealed \subseteq discovered
    /\ \A t \in revealed \ overtaken : shown[t] = registry[t] /\ Permits(profile, registry[t])

\* Discovery survives a change of the profile: a tool found before is shown again where it exists
\* and may be called.
DiscoverySurvives == CallableOf(discovered, registry, profile) \ overtaken \subseteq revealed

\* A search is refused as a repetition only when what it would find is shown already, unless its
\* result was dropped or a search brought back a tool that reload_mcp had taken away.
RepetitionIsMounted ==
    phase.main = "search" /\ signature = Signature =>
        \A query \in queries \ dropped : query \intersect View \subseteq revealed \union overtaken

=============================================================================
