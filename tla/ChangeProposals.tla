---------------------------- MODULE ChangeProposals ----------------------------
(***************************************************************************)
(* What a worker changed in its copy of the workspace, on its way back      *)
(* (agent/change_proposal.py): the copy and its baseline, the proposals of  *)
(* its turns, the three-way merge with what the workspace has become, and   *)
(* the conflict sets the main agent resolves.  apply and resolve claim the  *)
(* files of the proposal and close_agent claims the agent: calls of one     *)
(* message that close the worker and apply what it did run side by side.    *)
(***************************************************************************)
EXTENDS ThreeWayMerge, Naturals, Sequences, FiniteSets

CONSTANTS Path,
          MaxProposals, MaxConflicts, MaxEdits   \* bounds: turns of the worker, conflict sets, edits of each side

VARIABLES main,              \* the workspace
          box, baseline, work, \* "none", "made" or "gone"; the two copies of the sandbox
          strays,            \* it deleted a file, or changed one outside allowed_paths or a binary one
          proposals, kept,   \* what each proposed and its status; those still in the store
          conflicts,         \* conflict sets: proposal, what was observed, status
          edits,             \* how often each side edited (bounded)
          call               \* the apply or resolve that is between reading and writing

vars == <<main, box, baseline, work, strays, proposals, kept, conflicts, edits, call>>

Idle == [kind |-> "none"]
Text(t) == [r \in Region |-> t]

\* One file is there, the others may be created.
Init ==
    /\ \E first \in Path : main = [q \in Path |-> IF q = first THEN Text("old") ELSE NoFile]
    /\ box = "none" /\ baseline = main /\ work = main /\ strays = FALSE
    /\ proposals = <<>> /\ kept = {} /\ conflicts = <<>> /\ call = Idle
    /\ edits = [main |-> 0, work |-> 0]

\* A file is created, edited in one region, or (where nothing) deleted.
Edited(file, t) ==
    IF file = NoFile THEN {Text(t)} ELSE {[file EXCEPT ![r] = t] : r \in Region}

(***************************************************************************)
(* The workspace and the sandbox.                                           *)
(***************************************************************************)
\* The main agent, the user or another session changes a file.
Edit(side) == edits[side] < MaxEdits /\ edits' = [edits EXCEPT ![side] = @ + 1]

MainChanges(q) ==
    /\ Edit("main")
    /\ \E file \in Edited(main[q], "main") \union {NoFile} : main' = [main EXCEPT ![q] = file]
    /\ UNCHANGED <<box, baseline, work, strays, proposals, kept, conflicts, call>>

CreateSandbox ==
    /\ box = "none" /\ call = Idle
    /\ box' = "made" /\ baseline' = main /\ work' = main
    /\ UNCHANGED <<main, strays, proposals, kept, conflicts, edits, call>>

WorkerChanges(q) ==
    /\ box = "made" /\ Edit("work")
    /\ \E file \in Edited(work[q], "worker") : work' = [work EXCEPT ![q] = file]
    /\ UNCHANGED <<main, box, baseline, strays, proposals, kept, conflicts, call>>

WorkerStrays ==
    /\ box = "made" /\ strays' = TRUE
    /\ UNCHANGED <<main, box, baseline, work, proposals, kept, conflicts, edits, call>>

\* finalize: the end of a worker's turn.
Finalize ==
    /\ box = "made" /\ Len(proposals) < MaxProposals
    /\ proposals' = Append(proposals, [result |-> work, status |-> IF strays THEN "invalid" ELSE "ready"])
    /\ kept' = kept \union {Len(proposals) + 1}
    /\ UNCHANGED <<main, box, baseline, work, strays, conflicts, edits, call>>

(***************************************************************************)
(* apply.                                                                   *)
(***************************************************************************)
Entries(i) == {q \in Path : proposals[i].result[q] # baseline[q]}

Clashes(i, seen) == {q \in Entries(i) : Conflicts(baseline[q], seen[q], proposals[i].result[q])}

Merge(i, seen) ==
    [q \in Entries(i) \ Clashes(i, seen) |-> Merged(baseline[q], seen[q], proposals[i].result[q])]

\* The change of a proposal's status, which a proposal that left the store keeps to itself.
Status(i, status) == proposals' = [proposals EXCEPT ![i].status = status]

ApplyReads(i) ==
    /\ call = Idle /\ i \in kept /\ proposals[i].status = "ready"
    /\ call' = [kind |-> "apply", proposal |-> i, seen |-> main]
    /\ UNCHANGED <<main, box, baseline, work, strays, proposals, kept, conflicts, edits>>

ApplyConflictsQuietly ==
    /\ call.kind = "apply" /\ Clashes(call.proposal, call.seen) # {} /\ Len(conflicts) < MaxConflicts
    /\ conflicts' = Append(conflicts, [proposal |-> call.proposal, seen |-> call.seen, status |-> "open"])
    /\ call' = Idle
    /\ UNCHANGED <<main, box, baseline, work, strays, proposals, kept, edits>>

ApplyConflicts ==
    /\ call.kind = "apply" /\ Clashes(call.proposal, call.seen) # {} /\ Len(conflicts) < MaxConflicts
    /\ conflicts' = Append(conflicts, [proposal |-> call.proposal, seen |-> call.seen, status |-> "open"])
    /\ Status(call.proposal, "conflict") /\ call' = Idle
    /\ UNCHANGED <<main, box, baseline, work, strays, kept, edits>>

UnchangedOrNot(files) == TRUE

\* write_text_batch compares every file with what was read before it changes any.
Unchanged(files) == \A q \in files : main[q] = call.seen[q]

Written(changes) == [q \in Path |-> IF q \in DOMAIN changes THEN changes[q] ELSE main[q]]

ApplyWrites ==
    /\ call.kind = "apply" /\ Clashes(call.proposal, call.seen) = {} /\ Unchanged(Entries(call.proposal))
    /\ main' = Written(Merge(call.proposal, call.seen))
    /\ Status(call.proposal, "applied") /\ call' = Idle
    /\ UNCHANGED <<box, baseline, work, strays, kept, conflicts, edits>>

(***************************************************************************)
(* resolve: the main agent decides each file that clashed.                  *)
(***************************************************************************)
ConflictStatus(c, status) == conflicts' = [conflicts EXCEPT ![c].status = status]

Resolvable(c) == call = Idle /\ conflicts[c].status = "open"

\* The files are not what the main agent was shown.
ResolveStale(c) ==
    /\ Resolvable(c) /\ \E q \in Entries(conflicts[c].proposal) : main[q] # conflicts[c].seen[q]
    /\ ConflictStatus(c, "stale")
    /\ IF conflicts[c].proposal \in kept THEN Status(conflicts[c].proposal, "ready") ELSE UNCHANGED proposals
    /\ UNCHANGED <<main, box, baseline, work, strays, kept, edits, call>>

ResolveReads(c) ==
    /\ Resolvable(c) /\ \A q \in Entries(conflicts[c].proposal) : main[q] = conflicts[c].seen[q]
    /\ call' = [kind |-> "resolve", proposal |-> conflicts[c].proposal, conflict |-> c, seen |-> main]
    /\ UNCHANGED <<main, box, baseline, work, strays, proposals, kept, conflicts, edits>>

\* Every clash is decided; the files that merged by themselves are written with them.
ResolveWrites ==
    /\ call.kind = "resolve" /\ Unchanged(Entries(call.proposal))
    /\ LET clashes == Clashes(call.proposal, call.seen)
           merged == Merge(call.proposal, call.seen)
       IN main' = [q \in Path |-> IF q \in clashes THEN Text("resolved") ELSE Written(merged)[q]]
    /\ ConflictStatus(call.conflict, "resolved")
    /\ IF call.proposal \in kept THEN Status(call.proposal, "applied") ELSE UNCHANGED proposals
    /\ call' = Idle
    /\ UNCHANGED <<box, baseline, work, strays, kept, edits>>

\* A file changed after it was read, or the batch cannot be written: nothing is.
WriteRefused ==
    /\ call # Idle /\ (call.kind = "apply" => Clashes(call.proposal, call.seen) = {})
    /\ call' = Idle
    /\ UNCHANGED <<main, box, baseline, work, strays, proposals, kept, conflicts, edits>>

(***************************************************************************)
(* close_agent, and close() at the end of the session.                      *)
(***************************************************************************)
Pending == {i \in kept : proposals[i].status \in {"ready", "conflict"}}

CloseAgent(discard) ==
    /\ box = "made" /\ (Pending # {} => discard)
    /\ box' = "gone" /\ kept' = {}
    /\ conflicts' = [c \in DOMAIN conflicts |->
                       IF conflicts[c].proposal \in kept THEN [conflicts[c] EXCEPT !.status = "dropped"]
                       ELSE conflicts[c]]
    /\ UNCHANGED <<main, baseline, work, strays, proposals, edits, call>>

Next ==
    \/ CreateSandbox \/ WorkerStrays \/ Finalize
    \/ \E q \in Path : MainChanges(q) \/ WorkerChanges(q)
    \/ \E i \in DOMAIN proposals : ApplyReads(i)
    \/ ApplyConflicts \/ ApplyWrites \/ WriteRefused
    \/ \E c \in DOMAIN conflicts : ResolveStale(c) \/ ResolveReads(c)
    \/ ResolveWrites
    \/ \E discard \in BOOLEAN : CloseAgent(discard)

Spec == Init /\ [][Next]_vars

(***************************************************************************)
(* What must hold.                                                          *)
(***************************************************************************)
TypeOK ==
    /\ box \in {"none", "made", "gone"} /\ strays \in BOOLEAN /\ kept \subseteq DOMAIN proposals
    /\ \A i \in DOMAIN proposals : proposals[i].status \in {"ready", "invalid", "conflict", "applied"}
    /\ \A c \in DOMAIN conflicts : conflicts[c].status \in {"open", "stale", "resolved", "dropped"}
    /\ call.kind \in {"none", "apply", "resolve"}

Open(i) == {c \in DOMAIN conflicts : conflicts[c].proposal = i /\ conflicts[c].status = "open"}

\* A proposal waits for the resolution of exactly one conflict set, or of none: it is never applied
\* past one, and never stuck behind one that was answered (apply, resolve).
ConflictsAreAnswered ==
    \A i \in kept : Cardinality(Open(i)) = IF proposals[i].status = "conflict" THEN 1 ELSE 0

\* What a writing step does: it changes files only where they are as the merge saw them; in a file
\* that merged by itself a region that was changed since the copy was made stays, and a file that
\* was deleted stays deleted; and all that the worker changed there is in (apply, resolve).
MergesKeepBothSides ==
    call # Idle /\ call'.kind = "none" /\ main' # main =>
        LET i == call.proposal
            clashes == IF call.kind = "resolve" THEN Clashes(i, call.seen) ELSE {}
        IN /\ \A q \in Path : main'[q] # main[q] => main[q] = call.seen[q] /\ q \in Entries(i)
           /\ \A q \in Entries(i) \ clashes :
                 /\ main[q] = NoFile => baseline[q] = NoFile
                 /\ \A r \in Region :
                       /\ main[q] # NoFile /\ baseline[q] # NoFile /\ main[q][r] # baseline[q][r]
                             => main'[q][r] = main[q][r]
                       /\ baseline[q] = NoFile \/ proposals[i].result[q][r] # baseline[q][r]
                             => main'[q][r] = proposals[i].result[q][r]

BothSidesKept == [][MergesKeepBothSides]_vars

=============================================================================
