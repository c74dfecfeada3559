------------------------------ MODULE MCFiles ------------------------------
(***************************************************************************)
(* What several sides change.  Two sessions with one agent each, in two    *)
(* instances of the file service: "batches" over two files with one        *)
(* content, "updates" over one file with two contents and one write more.  *)
(* A worker's copy and what it proposes ("proposals"), a worktree and what *)
(* is applied from it ("worktrees"), of files with two regions.  A fact    *)
(* the memory of the project keeps ("fact").  The initial state chooses    *)
(* the part that moves; of the two files one exists.                       *)
(***************************************************************************)
EXTENDS FileService, TLC

CONSTANTS A1, A2, SA, SB, F1, F2, C1, C2

MCAgent == {A1, A2}
TwoServices == {SA, SB}
Apart == [a \in MCAgent |-> IF a = A1 THEN SA ELSE SB]
Nobody == {}
OneFile == <<F1>>
TwoFiles == <<F1, F2>>
TwoContents == {Absent, C1, C2}
OneContent == {Absent, C1}
TwoSizes == [c \in TwoContents |-> CASE c = Absent -> 0 [] c = C1 -> 1 [] c = C2 -> 2]
OneSize == [c \in OneContent |-> IF c = Absent THEN 0 ELSE 1]

\* The two sessions, with their agents, are interchangeable when they are apart.
Interchange ==
    {p \in Permutations(MCAgent \cup TwoServices) :
        \A a \in MCAgent : p[a] \in MCAgent /\ p[Apart[a]] = Apart[p[a]]}

VARIABLES instance,
          main, box, baseline, work, strays, proposals, kept, conflicts, edits, call,
          local, tree, origin, made, attempt, at, clashes, approved, had, localEdits,
          fact, suppressed, candidate, holds, known, merge, view, vector

memory == <<fact, suppressed, candidate, holds, known, merge, view, vector>>
proposing == <<main, box, baseline, work, strays, proposals, kept, conflicts, edits, call>>
applying == <<local, tree, origin, made, attempt, at, clashes, approved, had, localEdits>>

U == INSTANCE FileService
         WITH Sorted <- OneFile, Content <- TwoContents, Size <- TwoSizes, Quota <- 2, MaxWrites <- 3
C == INSTANCE ChangeProposals
         WITH Path <- {"p", "q"}, Regions <- 2, MaxProposals <- 1, MaxConflicts <- 2, MaxEdits <- 2
W == INSTANCE Worktrees
         WITH Path <- {"p"}, Regions <- 2, MaxAttempts <- 3, MaxEdits <- 3,
              baseline <- origin, edits <- localEdits
Q == INSTANCE MemoryFacts
         WITH Source <- {1, 2}, Body <- {"x", "y"}, MaxVersion <- 3,
              Says <- <<{"x"}, {"x", "y"}>>

MCInit ==
    /\ instance \in {"batches", "updates", "proposals", "worktrees", "fact"}
    /\ IF instance = "updates" THEN U!Init ELSE Init
    /\ C!Init /\ W!Init /\ Q!Init
    /\ instance # "updates" => disk = [f \in File |-> IF f = F1 THEN C1 ELSE Absent]
    /\ instance # "proposals" => main["q"] = C!NoFile
    /\ instance # "worktrees" => local["p"] = C!NoFile

files == <<vars, proposing, applying>>

MCNext ==
    \/ instance = "batches" /\ Next /\ UNCHANGED <<instance, proposing, applying, memory>>
    \/ instance = "updates" /\ U!Next /\ UNCHANGED <<instance, proposing, applying, memory>>
    \/ instance = "proposals" /\ C!Next /\ UNCHANGED <<instance, vars, applying, memory>>
    \/ instance = "worktrees" /\ W!Next /\ UNCHANGED <<instance, vars, proposing, memory>>
    \/ instance = "fact" /\ Q!Next /\ UNCHANGED <<instance, files>>

MCSpec == MCInit /\ [][MCNext]_<<instance, files, memory>>

\* One file alone.
DeletedSpec == MCInit /\ instance = "updates" /\ [][MCNext]_<<instance, files, memory>>

\* The types of each part, in the part that is explored.
FilesTypeOK ==
    CASE instance = "batches" -> TypeOK
      [] instance = "updates" -> U!TypeOK
      [] instance = "proposals" -> C!TypeOK
      [] instance = "worktrees" -> W!TypeOK
      [] instance = "fact" -> Q!TypeOK

\* The bytes a session wrote stay within its quota.
QuotasHold ==
    /\ instance = "batches" => QuotaHolds
    /\ instance = "updates" => U!QuotaHolds

\* Neither side of a merge is lost (proposals of a worker, changes of a worktree), and a proposal that
\* conflicts waits for one answer only.
BothSidesKept ==
    C!BothSidesKept /\ W!LocalEditsKept /\ [](instance = "proposals" => C!ConflictsAreAnswered)

\* What was forgotten stays so, doubts are open questions, and the view, the index and the history
\* tell the fact as it is (MemoryDatabase, ConsolidationQueue, VectorIndex).
MemoryIsTrue ==
    instance = "fact" =>
        /\ Q!ForgottenStays /\ Q!HoldsAreOpen /\ Q!ViewIsTrue
        /\ Q!VectorIsCurrent /\ Q!HistoryIsComplete

\* No value of a fact is replaced unseen (_check_version, the revision in ConsolidationQueue._commit).
FactsAreNotOverwritten == Q!NoBlindOverwrite

=============================================================================
