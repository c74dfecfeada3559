------------------------------- MODULE Worktrees -------------------------------
(***************************************************************************)
(* A session that works in a worktree (workspace/worktrees.py), and the way *)
(* what it did comes back into Local (tui_bridge.py, _apply_worktree): two  *)
(* rounds in which the agent reconciles the files that conflict, then a     *)
(* review that approves the very versions it showed.  create and apply hold *)
(* the leases of both roots, so no session writes during them; their writes *)
(* are one transaction (WorkspaceTransaction).                              *)
(***************************************************************************)
EXTENDS ThreeWayMerge, Naturals

CONSTANTS Path,
          MaxAttempts,   \* 3: two rounds of the agent, then the review
          MaxEdits       \* bound: edits of Local

VARIABLES local, tree, baseline,  \* files of Local, of the worktree; the descriptor's baseline
          made,                   \* whether the worktree was created
          attempt, at,            \* of _apply_worktree: "idle", "apply", "turn", "ask" or "approved"
          clashes, approved,      \* files that conflicted so far; versions the user was shown
          had,                    \* texts the worktree ever had, with their places
          edits

vars == <<local, tree, baseline, made, attempt, at, clashes, approved, had, edits>>

Text(t) == [r \in Region |-> t]
Nothing == [q \in {} |-> NoFile]

TextAt(file, r) == IF file = NoFile THEN "absent" ELSE file[r]

Places == Path \X Region
Texts(files) == {<<place, TextAt(files[place[1]], place[2])>> : place \in Places}

Init ==
    /\ local \in [Path -> {NoFile, Text("old")}]
    /\ tree = local /\ baseline = local /\ made = FALSE
    /\ attempt = 0 /\ at = "idle" /\ clashes = {} /\ approved = Nothing /\ had = {} /\ edits = 0

Edited(file, t) ==
    IF file = NoFile THEN {Text(t)} ELSE {[file EXCEPT ![r] = t] : r \in Region} \union {NoFile}

\* Other sessions and the user go on in Local.
LocalChanges(q) ==
    /\ edits < MaxEdits /\ edits' = edits + 1
    /\ \E file \in Edited(local[q], "local") : local' = [local EXCEPT ![q] = file]
    /\ UNCHANGED <<tree, baseline, made, attempt, at, clashes, approved, had>>

\* create: the worktree starts as Local is, tracked or not.
Create ==
    /\ ~made /\ made' = TRUE
    /\ tree' = local /\ baseline' = local /\ had' = Texts(local)
    /\ UNCHANGED <<local, attempt, at, clashes, approved, edits>>

\* The agent writes in the worktree: of its own, or, in a round that reconciles, what Local has.
TreeChanges(q) ==
    /\ made /\ at \in {"idle", "turn", "ask"}
    /\ \E file \in Edited(tree[q], "tree") \union (IF at = "turn" THEN {local[q]} ELSE {}) :
          tree' = [tree EXCEPT ![q] = file]
    /\ had' = had \union Texts(tree')
    /\ UNCHANGED <<local, baseline, made, attempt, at, clashes, approved, edits>>

(***************************************************************************)
(* apply.                                                                   *)
(***************************************************************************)
Changed == {q \in Path : baseline[q] # tree[q] /\ local[q] # tree[q]}

\* The files of two sides, unless the user approved them; a merged text that does not parse is one.
Clashing(unparsable) ==
    {q \in Changed \ DOMAIN approved :
        /\ local[q] # baseline[q]
        /\ \/ NoFile \in {local[q], baseline[q], tree[q]}
           \/ Overlap(baseline[q], local[q], tree[q]) \/ q \in unparsable}

Desired(q) ==
    IF local[q] = baseline[q] \/ q \in DOMAIN approved THEN tree[q]
    ELSE Joined(baseline[q], local[q], tree[q])

AsApprovedResult == \A q \in DOMAIN approved : approved[q].result = tree[q]

\* The three versions of each approved file are still those that were shown.
AsApproved == \A q \in DOMAIN approved : approved[q] = [base |-> baseline[q], local |-> local[q], result |-> tree[q]]

\* What the next apply compares with: what the worktree is now, not what Local has become.
BaselineOfLocal == [q \in Path |-> IF q \in Changed THEN Desired(q) ELSE local[q]]

NewBaseline == tree

Begin ==
    /\ made /\ at = "idle" /\ at' = "apply" /\ attempt' = 0
    /\ clashes' = {}
    /\ UNCHANGED <<local, tree, baseline, made, approved, had, edits>>

ApplyMerged(unparsable) ==
    /\ at \in {"apply", "approved"} /\ AsApproved /\ Clashing(unparsable) = {}
    /\ local' = [q \in Path |-> IF q \in Changed THEN Desired(q) ELSE local[q]]
    /\ baseline' = NewBaseline /\ at' = "idle" /\ approved' = Nothing
    /\ UNCHANGED <<tree, made, attempt, clashes, had, edits>>

\* A conflict: the agent gets two rounds, then the user is asked; nothing was written.
ApplyClashes(unparsable) ==
    /\ at = "apply" /\ Clashing(unparsable) # {}
    /\ clashes' = clashes \union Clashing(unparsable) /\ attempt' = attempt + 1
    /\ at' = IF attempt + 1 < MaxAttempts THEN "turn" ELSE "ask"
    /\ approved' = IF attempt + 1 < MaxAttempts THEN Nothing
                   ELSE [q \in Clashing(unparsable) |->
                           [base |-> baseline[q], local |-> local[q], result |-> tree[q]]]
    /\ UNCHANGED <<local, tree, baseline, made, had, edits>>

TurnEnds ==
    /\ at = "turn" /\ at' = "apply"
    /\ UNCHANGED <<local, tree, baseline, made, attempt, clashes, approved, had, edits>>

\* The answer: what was shown may be applied, or everything stays.
Answer(applied) ==
    /\ at = "ask"
    /\ IF applied THEN at' = "approved" /\ UNCHANGED approved ELSE at' = "idle" /\ approved' = Nothing
    /\ UNCHANGED <<local, tree, baseline, made, attempt, clashes, had, edits>>

\* What was approved has changed, or another file conflicts: nothing is written.
ApprovedRefused(unparsable) ==
    /\ at = "approved" /\ (~AsApproved \/ Clashing(unparsable) # {}) /\ at' = "idle"
    /\ approved' = Nothing
    /\ UNCHANGED <<local, tree, baseline, made, attempt, clashes, had, edits>>

Next ==
    \/ Create \/ Begin \/ TurnEnds
    \/ \E q \in Path : LocalChanges(q) \/ TreeChanges(q)
    \/ \E unparsable \in SUBSET Path :
          ApplyMerged(unparsable) \/ ApplyClashes(unparsable) \/ ApprovedRefused(unparsable)
    \/ \E applied \in BOOLEAN : Answer(applied)

Spec == Init /\ [][Next]_vars

(***************************************************************************)
(* What must hold.                                                          *)
(***************************************************************************)
TypeOK ==
    /\ made \in BOOLEAN /\ at \in {"idle", "apply", "turn", "ask", "approved"}
    /\ attempt \in 0..MaxAttempts /\ clashes \subseteq Path /\ DOMAIN approved \subseteq Path
    /\ at \in {"turn", "ask"} => clashes # {}

\* A text of Local goes in an apply only if the worktree once had it, and so changed it, or the user
\* approved the result that replaces just this version (baseline, apply, approved).
LocalTextsKept ==
    baseline' # baseline /\ made =>
        \A place \in Places :
            LET q == place[1]
                before == TextAt(local[q], place[2])
            IN TextAt(local'[q], place[2]) # before /\ <<place, before>> \notin had =>
                  at = "approved" /\ q \in DOMAIN approved /\ approved[q].local = local[q]

LocalEditsKept == [][LocalTextsKept]_vars

=============================================================================
