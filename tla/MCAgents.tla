------------------------------ MODULE MCAgents ------------------------------
(***************************************************************************)
(* What works beside the turns of a session: its subagents ("agents"), its *)
(* shell jobs ("jobs"), its MCP servers ("mcp"), its language servers            *)
(* ("language") and the extraction of memories ("extraction").  The        *)
(* initial state chooses the part that moves.                              *)
(***************************************************************************)
EXTENDS Naturals, Sequences, FiniteSets

CONSTANTS Agent, Worker, MaxOpen, Threads, MaxMessages,   \* of AgentCoordinator
          Job,                                            \* of ShellJobs
          MaxWorkers, MaxChanges,                         \* of McpConnections
          Process, Home, MaxPieces, MaxOrders,            \* of MemoryExtraction
          Server, MaxEdits, MaxVersion                    \* of LanguageService

ASSUME HelpersAssumption ==
    /\ IsFiniteSet(Agent) /\ Worker \subseteq Agent /\ Home \in Process /\ MaxPieces \in Nat
    /\ Server \subseteq Nat \ {0} /\ MaxEdits \in Nat \ {0} /\ MaxVersion \in Nat

VARIABLES part,
          record, open, pool, at, sandboxes, proposals, closed, awaited, retired, sent,
          starting, status, lease, alive, piped, born, tracked, monitor, closing, closer, toStop,
          jobsClosed,
          doing, lock, tasks, started, live, conn, bound, cached, catalogOnly, revision, calling,
          probe, old, mcpClosed, registry, recorded,
          journal, session, task, checkpoint, found, worker, orders, putBack,
          disk, edits, numbered, entry, state, pending, doc, version, due, published, query, answer,
          cleaning, stray, over

team == <<record, open, pool, at, sandboxes, proposals, closed, awaited, retired, sent>>
shells == <<starting, status, lease, alive, piped, born, tracked, monitor, closing, closer, toStop,
            jobsClosed>>
servers == <<doing, lock, tasks, started, live, conn, bound, cached, catalogOnly, revision, calling,
             probe, old, mcpClosed, registry, recorded>>
queue == <<journal, session, task, checkpoint, found, worker, orders, putBack>>
language == <<disk, edits, numbered, entry, state, pending, doc, version, due, published, query,
              answer, cleaning, stray, over>>

A == INSTANCE AgentCoordinator
J == INSTANCE ShellJobs WITH closed <- jobsClosed
M == INSTANCE McpConnections WITH at <- doing, closed <- mcpClosed
E == INSTANCE MemoryExtraction
L == INSTANCE LanguageService WITH found <- published

MCInit ==
    /\ part \in {"agents", "jobs", "mcp", "extraction", "language"}
    /\ A!Init /\ J!Init /\ M!Init /\ E!Init /\ L!Init
    /\ part # "agents" => open = {}
    /\ part # "language" => numbered

Agents == part = "agents" /\ A!Next /\ UNCHANGED <<part, shells, servers, queue, language>>
Jobs == part = "jobs" /\ J!Next /\ UNCHANGED <<part, team, servers, queue, language>>
Mcp == part = "mcp" /\ M!Next /\ UNCHANGED <<part, team, shells, queue, language>>
Extraction == part = "extraction" /\ E!Next /\ UNCHANGED <<part, team, shells, servers, language>>

Language == part = "language" /\ L!Next /\ UNCHANGED <<part, team, shells, servers, queue>>

MCNext == Agents \/ Jobs \/ Mcp \/ Extraction \/ Language

\* The fairness of each part, while that part is the one that moves.
MCSpec ==
    /\ MCInit /\ [][MCNext]_<<part, team, shells, servers, queue, language>>
    /\ WF_team(part = "agents" /\ A!RunStarts)
    /\ \A a \in Agent : WF_team(part = "agents" /\ A!RunSteps(a))
    /\ WF_shells(part = "jobs" /\ (J!CloseWaits \/ J!CloseEnds))
    /\ \A j \in Job :
          /\ WF_shells(part = "jobs" /\ J!StartSteps(j))
          /\ WF_shells(part = "jobs" /\ J!MonitorSteps(j))
          /\ WF_shells(part = "jobs" /\ J!CloseStops(j))
    /\ \A t \in {"main", "sub", "user"} : SF_servers(part = "mcp" /\ M!LoopSteps(t))
    /\ \A p \in Process : WF_queue(part = "extraction" /\ E!WorkerSteps(p))
    /\ WF_queue(part = "extraction" /\ \E completed \in BOOLEAN : E!FinishTurn(completed))
    /\ WF_queue(part = "extraction" /\ E!ActivityLapses)
    /\ WF_queue(part = "extraction" /\ \E b \in 0..MaxPieces : E!Due(b))
    /\ WF_queue(part = "extraction" /\ \E b \in 0..MaxPieces : E!LeaseExpires(b))

\* The types of the part that moves.
AgentsTypeOK ==
    CASE part = "agents" -> A!TypeOK [] part = "jobs" -> J!TypeOK [] part = "mcp" -> M!TypeOK
      [] part = "extraction" -> E!TypeOK [] part = "language" -> L!TypeOK

\* Agents answer what they were asked, are known while they run, and a worker keeps the sandbox of
\* its work (AgentCoordinator); jobs hold their lease as long as their processes run
\* (ShellJobManager); servers listed as connected are (McpClientManager); the journal is extracted
\* without gaps or repeats, and no task is left without a worker (ExtractionQueue, background); a
\* language server answers of the text it was asked about, and is not lost (LanguageService).
HelpersKeepTheirWord ==
    /\ part = "agents" =>
          A!FollowupsAreTaken /\ A!RunsAreKnown /\ A!WorkersAreIsolated /\ A!OneOwner
    /\ part = "jobs" => J!LeaseCoversProcesses /\ J!NoStrayLease /\ J!ClosedIsEmpty
    /\ part = "mcp" => M!ListedIsConnected /\ M!LockIsHeldToConnect
    /\ part = "extraction" => E!NothingSkipped /\ E!ExtractedOnce /\ E!WorkIsKept
    /\ part = "language" => L!AnswersAreOfText /\ L!ServersAreKnown

\* Agents, jobs, calls of servers and extractions come to their end.
HelpersEnd == A!AgentsEnd /\ J!JobsEnd /\ M!CallsReturn /\ E!TasksSettle

=============================================================================
