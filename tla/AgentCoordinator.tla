--------------------------- MODULE AgentCoordinator ---------------------------
(***************************************************************************)
(* The subagents of a session (agent/coordinator.py): they are spawned,     *)
(* steered, followed up, interrupted and closed by tools of the main agent, *)
(* while each runs its turns in a thread of the agents' pool.  What a       *)
(* worker changed in its sandbox becomes a proposal, which the main agent   *)
(* applies.  Calls about one agent are kept apart by their claims.  Of a    *)
(* message it matters only whether a turn has seen it: it is a count.       *)
(***************************************************************************)
EXTENDS Naturals, Sequences, FiniteSets

CONSTANTS Agent, Worker,   \* the agents, and those with the role "worker" (of one path)
          MaxOpen,         \* MAX_OPEN_AGENTS
          Threads,         \* threads of the pool of agents
          MaxMessages      \* bound: messages and follow-ups to one agent

VARIABLES record,     \* fields of each AgentRecord that steer it
          open,       \* agents in _records
          pool,       \* queue of submitted runs
          at,         \* where the run of each agent stands; "none" without a thread
          sandboxes, proposals,   \* agents with a sandbox; with a proposal that is "ready"
          closed, awaited, retired, \* _closed; futures close() waits for; whether it is through
          sent        \* messages each agent was given

vars == <<record, open, pool, at, sandboxes, proposals, closed, awaited, retired, sent>>

Active == {"queued", "running"}
Terminal == {"completed", "blocked", "failed", "interrupted", "closed"}

\* An agent that was never spawned, and one of an earlier runtime (import_state): it is finished,
\* its conversation is made anew from the saved messages when it is followed up.
Unborn == [state |-> "none", token |-> "none", talks |-> FALSE, saved |-> FALSE,
           followups |-> 0, inbox |-> 0, last |-> "user"]
Restored == [Unborn EXCEPT !.state = "completed", !.saved = TRUE]

Init ==
    /\ open \in SUBSET Agent /\ Cardinality(open) <= 1
    /\ record = [a \in Agent |-> IF a \in open THEN Restored ELSE Unborn]
    /\ pool = <<>> /\ at = [a \in Agent |-> "none"]
    /\ sandboxes = {} /\ proposals = {} /\ closed = FALSE /\ awaited = {} /\ retired = FALSE
    /\ sent = [a \in Agent |-> 0]

Set(a, fields) ==
    record' = [record EXCEPT ![a] =
                  [f \in DOMAIN record[a] |-> IF f \in DOMAIN fields THEN fields[f] ELSE record[a][f]]]

(***************************************************************************)
(* Operations of the main agent's tools.                                    *)
(***************************************************************************)
Spawn(a) ==
    /\ record[a].state = "none" /\ ~closed /\ ~retired
    /\ Cardinality(open) < MaxOpen
    /\ a \in Worker => open \intersect Worker = {}
    /\ open' = open \union {a} /\ pool' = Append(pool, a)
    /\ Set(a, [state |-> "queued", token |-> "live"])
    /\ UNCHANGED <<at, sandboxes, proposals, closed, awaited, retired, sent>>

Message(a) == a \in open /\ ~retired /\ sent[a] < MaxMessages /\ sent' = [sent EXCEPT ![a] = @ + 1]

\* A steering message: it waits for the conversation, joins its inbox, or is refused.
Send(a) ==
    /\ Message(a)
    /\ \/ /\ record[a].state = "queued" \/ ~record[a].talks
          /\ Set(a, [followups |-> record[a].followups + 1])
       \/ /\ record[a].state = "running" /\ record[a].talks
          /\ Set(a, [inbox |-> record[a].inbox + 1])
    /\ UNCHANGED <<open, pool, at, sandboxes, proposals, closed, awaited, retired>>

\* A follow-up: for a finished agent it is the next user turn, of a new run.
Followup(a) ==
    /\ Message(a)
    /\ \/ /\ record[a].state = "running" /\ record[a].talks
          /\ Set(a, [inbox |-> record[a].inbox + 1]) /\ UNCHANGED pool
       \/ /\ record[a].state = "queued"
          /\ Set(a, [followups |-> record[a].followups + 1]) /\ UNCHANGED pool
       \/ /\ record[a].state \in Terminal /\ pool' = Append(pool, a)
          /\ Set(a, IF record[a].talks
                      THEN [state |-> "queued", token |-> "live", last |-> "user"]
                      ELSE [state |-> "queued", token |-> "live", followups |-> record[a].followups + 1])
    /\ UNCHANGED <<open, at, sandboxes, proposals, closed, awaited, retired>>

Waits(a) == \E i \in DOMAIN pool : pool[i] = a

\* The queue without a run that waits in it.
Without(a) ==
    LET i == CHOOSE i \in DOMAIN pool : pool[i] = a
    IN SubSeq(pool, 1, i - 1) \o SubSeq(pool, i + 1, Len(pool))

\* _finish: what the run ended with, or "failed" when its outputs cannot be kept.
Ended(a, state) == \E end \in {state, "failed"} : Set(a, [state |-> end, token |-> "none"])

\* An interrupt that takes a waiting run out of the pool and leaves its record as it is.
InterruptUnsaid(a) ==
    /\ a \in open /\ ~retired /\ record[a].token = "live"
    /\ pool' = (IF Waits(a) THEN Without(a) ELSE pool) /\ Set(a, [token |-> "cancelled"])
    /\ UNCHANGED <<open, at, sandboxes, proposals, closed, awaited, retired, sent>>

\* interrupt: a run that still waits for a thread ends here, any other at its next check.
Interrupt(a) ==
    /\ a \in open /\ ~retired /\ record[a].token = "live"
    /\ IF Waits(a)
         THEN pool' = Without(a) /\ Ended(a, "interrupted")
         ELSE UNCHANGED pool /\ Set(a, [token |-> "cancelled"])
    /\ UNCHANGED <<open, at, sandboxes, proposals, closed, awaited, retired, sent>>

\* close_agent: the record goes first, then what it owns; unapplied changes stop the second step.
CloseAgentAtWork(a) ==
    /\ a \in open /\ ~retired
    /\ open' = open \ {a} /\ Set(a, [state |-> "closing"])
    /\ UNCHANGED <<pool, at, sandboxes, proposals, closed, awaited, retired, sent>>

CloseAgent(a) ==
    /\ a \in open /\ ~retired /\ record[a].state \notin Active
    /\ open' = open \ {a} /\ Set(a, [state |-> "closing"])
    /\ UNCHANGED <<pool, at, sandboxes, proposals, closed, awaited, retired, sent>>

ReleaseAgent(a, discard) ==
    /\ record[a].state = "closing" /\ ~retired
    /\ Set(a, [state |-> "closed"])
    /\ IF a \in proposals /\ ~discard THEN UNCHANGED <<sandboxes, proposals>>
       ELSE sandboxes' = sandboxes \ {a} /\ proposals' = proposals \ {a}
    /\ UNCHANGED <<open, pool, at, closed, awaited, retired, sent>>

\* apply_agent_changes, or the resolution of its conflicts: the proposal is settled.
ApplyChanges(a) ==
    /\ a \in proposals /\ ~retired
    /\ proposals' = proposals \ {a}
    /\ UNCHANGED <<record, open, pool, at, sandboxes, closed, awaited, retired, sent>>

(***************************************************************************)
(* The run of an agent, in its thread.                                      *)
(***************************************************************************)
Goes(a, place) == at' = [at EXCEPT ![a] = place]

Finish(a, state) == Goes(a, "none") /\ Ended(a, state)

RunStarts ==
    /\ pool # <<>> /\ at[Head(pool)] = "none" /\ Cardinality({a \in Agent : at[a] # "none"}) < Threads
    /\ pool' = Tail(pool) /\ Goes(Head(pool), "start")
    /\ UNCHANGED <<record, open, sandboxes, proposals, closed, awaited, retired, sent>>

\* The first check of the token, and _ensure_conversation, which may fail.
RunPrepares(a) ==
    /\ at[a] = "start"
    /\ IF record[a].token = "cancelled" THEN Finish(a, "interrupted") /\ UNCHANGED sandboxes
       ELSE IF record[a].talks THEN Goes(a, "loop") /\ UNCHANGED <<record, sandboxes>>
       ELSE \/ Finish(a, "failed") /\ UNCHANGED sandboxes
            \/ /\ Goes(a, "drain")
               /\ sandboxes' = IF a \in Worker THEN sandboxes \union {a} ELSE sandboxes
               /\ Set(a, [talks |-> TRUE, last |-> IF record[a].saved THEN "assistant" ELSE "user"])
    /\ UNCHANGED <<open, pool, proposals, closed, awaited, retired, sent>>

\* A run that hands on what was said and keeps it in its queue.
RunDrainsTwice(a) ==
    /\ at[a] = "drain" /\ Goes(a, "loop")
    /\ Set(a, [inbox |-> record[a].inbox + record[a].followups, saved |-> FALSE])
    /\ UNCHANGED <<open, pool, sandboxes, proposals, closed, awaited, retired, sent>>

\* What was said before there was a conversation.
RunDrains(a) ==
    /\ at[a] = "drain" /\ Goes(a, "loop")
    /\ Set(a, IF record[a].saved
                THEN [followups |-> 0, saved |-> FALSE,
                      last |-> IF record[a].followups > 0 THEN "user" ELSE record[a].last]
                ELSE [followups |-> 0, inbox |-> record[a].inbox + record[a].followups])
    /\ UNCHANGED <<open, pool, sandboxes, proposals, closed, awaited, retired, sent>>

RunLoops(a) ==
    /\ at[a] = "loop"
    /\ CASE closed -> Goes(a, "none") /\ UNCHANGED record
         [] ~closed /\ record[a].token = "cancelled" -> Finish(a, "interrupted")
         [] OTHER -> Goes(a, "turn") /\ Set(a, [state |-> "running"])
    /\ UNCHANGED <<open, pool, sandboxes, proposals, closed, awaited, retired, sent>>

\* _take_followup and add_user_turn.
Taken(a) == [followups |-> record[a].followups - 1, last |-> "user"]

\* run_until_idle, which hears all that is in its inbox before it ends.
RunTurn(a) ==
    /\ at[a] = "turn"
    /\ \/ /\ record[a].last # "user" /\ record[a].followups > 0
          /\ Set(a, Taken(a)) /\ UNCHANGED at
       \/ /\ record[a].last = "user" \/ record[a].followups = 0
          /\ \/ Goes(a, "look") /\ Set(a, [inbox |-> 0, last |-> "assistant"])
             \/ Finish(a, "failed")
             \/ record[a].token = "cancelled" /\ Finish(a, "interrupted")
    /\ UNCHANGED <<open, pool, sandboxes, proposals, closed, awaited, retired, sent>>

RunLooks(a) ==
    /\ at[a] = "look"
    /\ Goes(a, IF record[a].inbox > 0 THEN "loop" ELSE IF a \in Worker THEN "settle" ELSE "take")
    /\ UNCHANGED <<record, open, pool, sandboxes, proposals, closed, awaited, retired, sent>>

\* finalize: a worker's changes become a proposal, unless some of them are not allowed.
RunSettles(a) ==
    /\ at[a] = "settle"
    /\ \/ a \in sandboxes /\ proposals' = proposals \union {a} /\ Goes(a, "take") /\ UNCHANGED record
       \/ Finish(a, "failed") /\ UNCHANGED proposals
    /\ UNCHANGED <<open, pool, sandboxes, closed, awaited, retired, sent>>

RunTakes(a) ==
    /\ at[a] = "take"
    /\ IF record[a].followups > 0 THEN Set(a, Taken(a)) /\ Goes(a, "loop")
       ELSE UNCHANGED record /\ Goes(a, "finish")
    /\ UNCHANGED <<open, pool, sandboxes, proposals, closed, awaited, retired, sent>>

RunEnds(a) ==
    /\ at[a] = "finish" /\ Finish(a, "completed")
    /\ UNCHANGED <<open, pool, sandboxes, proposals, closed, awaited, retired, sent>>

(***************************************************************************)
(* close() of the coordinator, while tools may still be running.            *)
(***************************************************************************)
Close ==
    /\ ~closed /\ closed' = TRUE
    /\ record' = [a \in Agent |-> IF a \in open /\ record[a].token = "live"
                                  THEN [record[a] EXCEPT !.token = "cancelled"] ELSE record[a]]
    /\ pool' = <<>> /\ awaited' = {a \in open : at[a] # "none"}
    /\ UNCHANGED <<open, at, sandboxes, proposals, retired, sent>>

\* The runs it knows of have ended, and no tool is left that could start another.
Retire ==
    /\ closed /\ ~retired /\ \A a \in awaited : at[a] = "none"
    /\ retired' = TRUE /\ sandboxes' = {} /\ proposals' = {}
    /\ UNCHANGED <<record, open, pool, at, closed, awaited, sent>>

RunSteps(a) ==
    RunPrepares(a) \/ RunDrains(a) \/ RunLoops(a) \/ RunTurn(a) \/ RunLooks(a) \/ RunSettles(a)
    \/ RunTakes(a) \/ RunEnds(a)

Next ==
    \/ \E a \in Agent :
          \/ Spawn(a) \/ Send(a) \/ Followup(a) \/ Interrupt(a) \/ CloseAgent(a) \/ ApplyChanges(a)
          \/ (\E discard \in BOOLEAN : ReleaseAgent(a, discard)) \/ RunSteps(a)
    \/ RunStarts \/ Close \/ Retire

\* The threads of the pool go on: a turn ends, whatever it ends with.
Spec == Init /\ [][Next]_vars /\ WF_vars(RunStarts) /\ \A a \in Agent : WF_vars(RunSteps(a))

(***************************************************************************)
(* What must hold.                                                          *)
(***************************************************************************)
TypeOK ==
    /\ \A a \in Agent :
          /\ record[a].state \in Active \union Terminal \union {"none", "closing"}
          /\ record[a].token \in {"none", "live", "cancelled"} /\ record[a].last \in {"user", "assistant"}
          /\ record[a].followups + record[a].inbox <= sent[a]
          /\ at[a] \in {"none", "start", "drain", "loop", "turn", "look", "settle", "take", "finish"}
    /\ pool \in Seq(Agent) /\ open \subseteq Agent

\* An agent that completed has answered every follow-up it had (_take_followup before _finish).
FollowupsAreTaken ==
    \A a \in open : record[a].state = "completed" /\ record[a].talks => record[a].followups = 0

\* An agent at work can be interrupted, and one that is not has no run: closing it, or a second
\* follow-up, never meets a thread of it (interrupt, close_agent, followup).
RunsAreKnown ==
    \A a \in Agent :
        /\ at[a] # "none" \/ Waits(a)
              => record[a].state \in Active /\ record[a].token # "none" /\ a \in open
        /\ \A i, j \in DOMAIN pool : i # j => pool[i] # pool[j]

\* A worker never works without the sandbox its proposal is made from, as long as the session
\* is open, and what it proposed can still be found (create_sandbox, finalize, close_agent).
WorkersAreIsolated ==
    \A a \in Worker : ~retired =>
        /\ record[a].talks /\ record[a].state # "closed" => a \in sandboxes
        /\ a \in proposals => a \in sandboxes

\* Agents of one path are never open together (_check_worker_ownership).
OneOwner == Cardinality(open \intersect Worker) <= 1

\* Every run ends, or the whole session does.
AgentsEnd == \A a \in Agent : record[a].state \in Active ~> record[a].state \notin Active \/ closed

=============================================================================
