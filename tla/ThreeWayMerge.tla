----------------------------- MODULE ThreeWayMerge -----------------------------
(***************************************************************************)
(* How two changes of one file are put together (agent/change_proposal.py,  *)
(* git merge-file).  A file is its text in each of a few regions, which     *)
(* stand for the line ranges an edit replaces; a file that does not exist   *)
(* is NoFile.                                                               *)
(***************************************************************************)
LOCAL INSTANCE Naturals

CONSTANT Regions   \* how many regions a file has

NoFile == <<>>
Region == 1..Regions

\* Two edits of one region conflict unless they say the same.
Overlap(base, one, other) ==
    \E r \in Region : one[r] # base[r] /\ other[r] # base[r] /\ one[r] # other[r]

Joined(base, one, other) ==
    [r \in Region |-> IF one[r] # base[r] THEN one[r] ELSE other[r]]

\* _merge_entry: the worker's result put onto what is there, or nothing when they conflict.
Conflicts(base, current, result) ==
    IF base = NoFile THEN current \notin {NoFile, result}
    ELSE \/ current = NoFile
         \/ current \notin {base, result} /\ result # base /\ Overlap(base, current, result)

Merged(base, current, result) ==
    CASE current = base \/ base = NoFile -> result
      [] result = base \/ current = result -> current
      [] OTHER -> Joined(base, current, result)

=============================================================================
