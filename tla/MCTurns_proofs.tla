--------------------------- MODULE MCTurns_proofs ---------------------------
(***************************************************************************)
(* What holds in every state of the instance that the run "turns" explores *)
(* and, of the comparison of claims, for every instance.  The components   *)
(* have their proofs in modules of their own, for every value of their     *)
(* constants; here each keeps its invariant while another part moves.      *)
(***************************************************************************)
EXTENDS MCTurns, FiniteSetTheorems, SequenceTheorems, WellFoundedInduction, TLAPS

\* Everything that the parts of the instance change.
parts == <<part, vars, loop, window, batch, failing, tree, shared, eval, tools, gate>>

-----------------------------------------------------------------------------
(* The comparison of claims (runtime/execution_planner.py).                *)

\* Two prefixes of one path are prefixes of one another.
LEMMA PrefixesOfOnePath ==
    ASSUME NEW S, NEW a \in Seq(S), NEW b \in Seq(S), NEW p \in Seq(S),
           IsPrefix(a, p), IsPrefix(b, p)
    PROVE  IsPrefix(a, b) \/ IsPrefix(b, a)
  <1>1. ASSUME NEW x \in Seq(S), NEW y \in Seq(S), IsPrefix(x, p), IsPrefix(y, p),
               Len(x) <= Len(y)
        PROVE  IsPrefix(x, y)
    <2>1. Len(x) \in Nat /\ Len(y) \in Nat /\ Len(p) \in Nat
      OBVIOUS
    <2>2. Len(x) <= Len(p) /\ Len(y) <= Len(p)
      BY <1>1 DEF IsPrefix
    <2>3. \A i \in 1..Len(x) : x[i] = p[i]
      <3>1. SubSeq(x, 1, Len(x)) = SubSeq(p, 1, Len(x))
        BY <1>1 DEF IsPrefix
      <3> QED  BY <2>1, <2>2, <3>1
    <2>4. \A i \in 1..Len(y) : y[i] = p[i]
      <3>1. SubSeq(y, 1, Len(y)) = SubSeq(p, 1, Len(y))
        BY <1>1 DEF IsPrefix
      <3> QED  BY <2>1, <2>2, <3>1
    <2>5. \A i \in 1..Len(x) : x[i] = y[i]
      BY <1>1, <2>1, <2>3, <2>4
    <2>6. SubSeq(x, 1, Len(x)) = SubSeq(y, 1, Len(x))
      BY <1>1, <2>1, <2>5
    <2> QED  BY <1>1, <2>6 DEF IsPrefix
  <1>2. Len(a) <= Len(b) \/ Len(b) <= Len(a)
    OBVIOUS
  <1> QED  BY <1>1, <1>2

\* A path is a prefix of itself.
LEMMA PrefixOfItself ==
    ASSUME NEW S, NEW a \in Seq(S)
    PROVE  IsPrefix(a, a)
  BY DEF IsPrefix

\* claims_conflict answers TRUE exactly when the two claims touch a common
\* resource and one of them writes it.  Nothing is assumed of the domains and
\* paths but that they include those of the two claims.
THEOREM ConflictIsSharedWrite ==
    ASSUME NEW S, NEW Keys \in SUBSET Seq(S), NEW Areas,
           NEW mine \in ClaimsOver(Areas, Keys), NEW theirs \in ClaimsOver(Areas, Keys)
    PROVE  Conflict(mine, theirs) <=> SharedWrite(mine, theirs, Areas, Keys)
  <1>1. /\ mine.domain \in Areas /\ mine.key \in Keys /\ mine.key \in Seq(S)
        /\ mine.scope \in Scopes /\ mine.access \in Accesses
        /\ theirs.domain \in Areas /\ theirs.key \in Keys /\ theirs.key \in Seq(S)
        /\ theirs.scope \in Scopes /\ theirs.access \in Accesses
    BY DEF ClaimsOver
  <1>2. IsPrefix(mine.key, mine.key) /\ IsPrefix(theirs.key, theirs.key)
    BY <1>1, PrefixOfItself
  <1>3. ASSUME Conflict(mine, theirs) PROVE SharedWrite(mine, theirs, Areas, Keys)
    <2>1. CASE mine.domain = "global"
      BY <1>1, <1>2, <1>3, <2>1 DEF Conflict, SharedWrite, Touches, Scopes
    <2>2. CASE theirs.domain = "global"
      BY <1>1, <1>2, <1>3, <2>2 DEF Conflict, SharedWrite, Touches, Scopes
    <2>3. CASE mine.domain # "global" /\ theirs.domain # "global"
      <3>1. mine.domain = theirs.domain /\ SameResource(mine, theirs)
        BY <1>3, <2>3 DEF Conflict
      <3>2. \E p \in {mine.key, theirs.key} :
                Touches(mine, mine.domain, p) /\ Touches(theirs, mine.domain, p)
        BY <1>1, <1>2, <3>1 DEF SameResource, SameOrChild, Touches, Scopes
      <3> QED  BY <1>1, <1>3, <3>2 DEF SharedWrite, Conflict
    <2> QED  BY <2>1, <2>2, <2>3
  <1>4. ASSUME SharedWrite(mine, theirs, Areas, Keys) PROVE Conflict(mine, theirs)
    <2>1. PICK d \in Areas, p \in Keys : Touches(mine, d, p) /\ Touches(theirs, d, p)
      BY <1>4 DEF SharedWrite
    <2>2. CASE mine.domain = "global" \/ theirs.domain = "global"
      BY <1>4, <2>2 DEF Conflict, SharedWrite
    <2>3. CASE mine.domain # "global" /\ theirs.domain # "global"
      <3>1. IsPrefix(mine.key, p) /\ IsPrefix(theirs.key, p) =>
                IsPrefix(mine.key, theirs.key) \/ IsPrefix(theirs.key, mine.key)
        BY <1>1, PrefixesOfOnePath
      <3>2. SameResource(mine, theirs)
        BY <1>1, <2>1, <2>3, <3>1 DEF Touches, SameResource, SameOrChild, Scopes
      <3>3. mine.domain = theirs.domain
        BY <2>1, <2>3 DEF Touches
      <3> QED  BY <1>4, <3>2, <3>3 DEF Conflict, SharedWrite
    <2> QED  BY <2>2, <2>3
  <1> QED  BY <1>3, <1>4

\* The claims that are compared, and the answer that was given.
Answered ==
    /\ left \in AllClaims /\ right \in AllClaims
    /\ verdict # "none" => ((verdict = "conflict") <=> Conflict(left, right))

\* claims_conflict, on every pair of claims over a small tree of paths.
THEOREM VerdictIsRight == MCSpec => []VerdictIsOverlap
  <1> DEFINE Names == {Root, Dir, Leaf, Other, "*"}
  <1>1. Paths \in SUBSET Seq(Names)
    BY DEF Paths
  <1>2. MCInit => Answered
    BY DEF MCInit, Init, Answered, AllClaims, ClaimsOver, Domains, Paths, Scopes, Accesses
  <1>3. Answered /\ [MCNext]_parts => Answered'
    BY DEF Answered, MCNext, Turn, Context, Batch, Failures, Tokens, Budget, Claims, Decide, Tools,
           Gate, Results, vars, parts
  <1>4. Answered => VerdictIsOverlap
    BY <1>1, ConflictIsSharedWrite DEF Answered, VerdictIsOverlap, AllClaims
  <1> QED  BY <1>2, <1>3, <1>4, PTL DEF MCSpec, parts

-----------------------------------------------------------------------------
(* The loop of a turn (ConversationTurn).                                  *)

\* The constants of the instance are of the kind the proofs are about.
LEMMA TurnLimits == T!Limits
  BY DEF T!Limits

\* A turn stays within its budgets, shows one answer, uses an open client and tells the model of
\* each limit once, whatever else moves (AgentConversation.run_until_idle, LlmChannel).
THEOREM TurnsAreKept == MCSpec => []TurnsKeepBudget
  <1>1. MCInit => T!IInv
    BY TurnLimits, T!Initially DEF MCInit
  <1>2. T!IInv /\ [MCNext]_parts => T!IInv'
    <2>1. [MCNext]_parts => [T!Next]_(T!vars)
      BY DEF MCNext, Turn, Context, Batch, Failures, Tokens, Budget, Claims, Tools, Gate,
             Results, loop, parts, T!vars
    <2> QED  BY <2>1, TurnLimits, T!Inductive
  <1>3. T!IInv => TurnsKeepBudget
    BY TurnLimits, T!Followed DEF TurnsKeepBudget
  <1> QED  BY <1>1, <1>2, <1>3, PTL DEF MCSpec, parts

-----------------------------------------------------------------------------
(* Tokens (CancellationTree), for every tree of tokens and every            *)
(* interleaving of the threads that create, cancel and close them.          *)

\* Every token but the root has a parent.
Tree == TopToken \in Token /\ ParentOf \in [K!Child -> Token]

\* The types; the root is there from the beginning and carries no future.
TokenTypes ==
    /\ created \in [Token -> {"none", "late", "whole", "closed"}] /\ set \subseteq Token
    /\ callbacks \in [Token -> SUBSET K!Child] /\ toRun \in [Token -> SUBSET K!Child]
    /\ future \in [Token -> {"none", "queued", "running", "done"}]
    /\ tracked \subseteq K!Child /\ toCancel \subseteq K!Child
    /\ shut \in BOOLEAN /\ draining \in BOOLEAN
    /\ created[TopToken] = "whole" /\ future[TopToken] = "none"

\* What is tracked is not over.
TrackedIsOpen == \A t \in tracked : future[t] \in {"queued", "running"}

\* A child of a token that is not set yet is on its list.
Registered ==
    \A t \in K!Child : created[t] = "whole" /\ ParentOf[t] \notin set => t \in callbacks[ParentOf[t]]

\* Only children that are there are on a list, and on that of their parent only.
ListedOnce == \A p \in Token : \A t \in callbacks[p] : ParentOf[t] = p /\ created[t] = "whole"

\* A child learns that it is born late from its parent.
LateIsSet == \A t \in K!Child : created[t] = "late" => ParentOf[t] \in set

\* What a closed supervisor tracks was told to stop, or is still to be.
TrackedIsCancelled ==
    /\ shut => tracked \subseteq set \union toCancel
    /\ shut /\ ~draining => toCancel = {}

TreeInv == Registered /\ ListedOnce /\ LateIsSet /\ K!NoChildEscapes
TokensInv == TokenTypes /\ TrackedIsOpen /\ TreeInv /\ TrackedIsCancelled

\* SetToken sets the token, and a child that counted on its parent's list is taken over.
LEMMA SettingKeepsTree ==
    ASSUME Tree, TokenTypes, TreeInv, NEW t \in Token, K!SetToken(t), created' = created
    PROVE  TreeInv'
  <1>1. CASE t \in set
    BY <1>1 DEF K!SetToken, TreeInv, Registered, ListedOnce, LateIsSet,
          K!NoChildEscapes
  <1>2. CASE t \notin set
    <2>1. /\ set' = set \union {t} /\ toRun' = [toRun EXCEPT ![t] = callbacks[t]]
          /\ callbacks' = [callbacks EXCEPT ![t] = {}]
      BY <1>2 DEF K!SetToken
    <2>2. Registered' /\ ListedOnce' /\ LateIsSet'
      BY <2>1 DEF Tree, TokenTypes, TreeInv, Registered, ListedOnce, LateIsSet
    <2>3. K!NoChildEscapes'
      BY <1>2, <2>1 DEF Tree, TokenTypes, TreeInv, Registered, K!NoChildEscapes, K!Child
    <2> QED  BY <2>2, <2>3 DEF TreeInv
  <1> QED  BY <1>1, <1>2

\* The types hold in every state (agent/cancellation.py, runtime/task_supervisor.py).
LEMMA TokenTypesStep ==
    ASSUME Tree, TokensInv, [K!Next]_(K!vars)
    PROVE  TokenTypes'
  <1> USE DEF Tree, TokensInv, TokenTypes, K!Child, K!futures
  <1>1. ASSUME NEW t \in Token, K!CreateChild(t) PROVE TokenTypes'
    BY <1>1 DEF K!CreateChild
  <1>2. ASSUME NEW t \in Token, K!BornCancelled(t) PROVE TokenTypes'
    BY <1>2 DEF K!BornCancelled, K!SetToken
  <1>3. ASSUME NEW t \in Token, K!Cancel(t) PROVE TokenTypes'
    BY <1>3 DEF K!Cancel, K!SetToken
  <1>4. ASSUME NEW t \in Token, K!Close(t) PROVE TokenTypes'
    BY <1>4 DEF K!Close
  <1>5. ASSUME NEW t \in Token, K!Submit(t) PROVE TokenTypes'
    BY <1>5 DEF K!Submit
  <1>6. ASSUME NEW t \in Token, K!Track(t) PROVE TokenTypes'
    BY <1>6 DEF K!Track
  <1>7. ASSUME NEW t \in Token, K!Run(t) \/ K!Finish(t) PROVE TokenTypes'
    BY <1>7 DEF K!Run, K!Finish
  <1>8. ASSUME NEW t \in Token, K!CancelFuture(t) PROVE TokenTypes'
    BY <1>8 DEF K!CancelFuture, K!SetToken
  <1>9. ASSUME NEW t \in Token, NEW child \in Token, K!RunCallback(t, child) PROVE TokenTypes'
    BY <1>9 DEF K!RunCallback
  <1>10. ASSUME K!CloseSupervisor \/ K!Drained \/ UNCHANGED K!vars PROVE TokenTypes'
    BY <1>10 DEF K!CloseSupervisor, K!Drained, K!vars
  <1> QED  BY <1>1, <1>2, <1>3, <1>4, <1>5, <1>6, <1>7, <1>8, <1>9, <1>10 DEF K!Next

\* The lists of children keep what a cancellation needs.
LEMMA TreeStep ==
    ASSUME Tree, TokensInv, [K!Next]_(K!vars)
    PROVE  TreeInv'
  <1> USE DEF TokensInv
  <1>1. ASSUME NEW t \in Token, K!CreateChild(t) PROVE TreeInv'
    <2>1. t \in K!Child /\ ParentOf[t] \in Token
      BY <1>1 DEF K!CreateChild, Tree, TokenTypes, K!Child
    <2>2. CASE ParentOf[t] \in set
      BY <1>1, <2>1, <2>2
      DEF K!CreateChild, Tree, TokenTypes, TreeInv, Registered, ListedOnce, LateIsSet,
          K!NoChildEscapes, K!Child
    <2>3. CASE ParentOf[t] \notin set
      BY <1>1, <2>1, <2>3
      DEF K!CreateChild, Tree, TokenTypes, TreeInv, Registered, ListedOnce, LateIsSet,
          K!NoChildEscapes, K!Child
    <2> QED  BY <2>2, <2>3
  <1>2. ASSUME NEW t \in Token, K!BornCancelled(t) PROVE TreeInv'
    <2>1. t \in K!Child /\ ParentOf[t] \in set /\ created' = [created EXCEPT ![t] = "whole"]
      BY <1>2 DEF K!BornCancelled, Tree, TokenTypes, TreeInv, LateIsSet, K!Child
    <2>2. CASE t \in set
      BY <1>2, <2>1, <2>2
      DEF K!BornCancelled, K!SetToken, Tree, TokenTypes, TreeInv, Registered, ListedOnce, LateIsSet,
          K!NoChildEscapes
    <2>3. CASE t \notin set
      <3>1. /\ set' = set \union {t} /\ toRun' = [toRun EXCEPT ![t] = callbacks[t]]
            /\ callbacks' = [callbacks EXCEPT ![t] = {}]
        BY <1>2, <2>3 DEF K!BornCancelled, K!SetToken
      <3>2. Registered' /\ ListedOnce' /\ LateIsSet'
        BY <2>1, <3>1 DEF Tree, TokenTypes, TreeInv, Registered, ListedOnce, LateIsSet
      <3>3. K!NoChildEscapes'
        BY <2>1, <2>3, <3>1 DEF Tree, TokenTypes, TreeInv, Registered, K!NoChildEscapes, K!Child
      <3> QED  BY <3>2, <3>3 DEF TreeInv
    <2> QED  BY <2>2, <2>3
  <1>3. ASSUME NEW t \in Token, K!Cancel(t) PROVE TreeInv'
    BY <1>3, SettingKeepsTree DEF K!Cancel
  <1>4. ASSUME NEW t \in Token, K!Close(t) PROVE TreeInv'
    <2>1. t \in K!Child /\ ParentOf[t] \in Token
      BY <1>4 DEF K!Close, Tree, K!Child
    <2>2. ListedOnce'
      BY <1>4, <2>1 DEF K!Close, Tree, TokenTypes, TreeInv, ListedOnce
    <2>3. Registered' /\ LateIsSet' /\ K!NoChildEscapes'
      BY <1>4, <2>1 DEF K!Close, Tree, TokenTypes, TreeInv, Registered, LateIsSet, K!NoChildEscapes
    <2> QED  BY <2>2, <2>3 DEF TreeInv
  <1>5. ASSUME NEW t \in Token, K!CancelFuture(t) PROVE TreeInv'
    BY <1>5, SettingKeepsTree DEF K!CancelFuture
  <1>6. ASSUME NEW t \in Token, NEW child \in Token, K!RunCallback(t, child) PROVE TreeInv'
    <2>1. CASE child \in set
      BY <1>6, <2>1
      DEF K!RunCallback, Tree, TokenTypes, TreeInv, Registered, ListedOnce, LateIsSet,
          K!NoChildEscapes
    <2>2. CASE child \notin set
      <3>1. /\ set' = set \union {child} /\ created' = created
            /\ toRun' = [toRun EXCEPT ![t] = @ \ {child}, ![child] = callbacks[child]]
            /\ callbacks' = [callbacks EXCEPT ![child] = {}]
        BY <1>6, <2>2 DEF K!RunCallback
      <3>2. Registered' /\ ListedOnce' /\ LateIsSet'
        BY <3>1 DEF Tree, TokenTypes, TreeInv, Registered, ListedOnce, LateIsSet
      <3>3. ASSUME NEW c \in K!Child, created'[c] = "whole", ParentOf[c] \in set'
            PROVE  c \in set' \/ c \in toRun'[ParentOf[c]]
        <4>1. CASE ParentOf[c] = child
          <5>1. c \in callbacks[child]
            BY <2>2, <3>1, <3>3, <4>1 DEF TreeInv, Registered
          <5> QED  BY <3>1, <4>1, <5>1 DEF TokenTypes
        <4>2. CASE ParentOf[c] # child
          <5>1. c \in set \/ c \in toRun[ParentOf[c]]
            BY <3>1, <3>3, <4>2 DEF TreeInv, K!NoChildEscapes
          <5> QED  BY <3>1, <4>2, <5>1 DEF Tree, TokenTypes
        <4> QED  BY <4>1, <4>2
      <3>4. K!NoChildEscapes'
        BY <3>3 DEF K!NoChildEscapes
      <3> QED  BY <3>2, <3>4 DEF TreeInv
    <2> QED  BY <2>1, <2>2
  <1>7. ASSUME UNCHANGED <<created, set, callbacks, toRun>> PROVE TreeInv'
    BY <1>7 DEF TreeInv, Registered, ListedOnce, LateIsSet,
          K!NoChildEscapes
  <1>8. ASSUME NEW t \in Token, K!Submit(t) \/ K!Track(t) \/ K!Run(t) \/ K!Finish(t) PROVE TreeInv'
    BY <1>7, <1>8 DEF K!Submit, K!Track, K!Run, K!Finish
  <1>9. ASSUME K!CloseSupervisor \/ K!Drained \/ UNCHANGED K!vars PROVE TreeInv'
    BY <1>7, <1>9 DEF K!CloseSupervisor, K!Drained, K!vars
  <1> QED  BY <1>1, <1>2, <1>3, <1>4, <1>5, <1>6, <1>8, <1>9 DEF K!Next

\* The futures of a supervisor that closes.
LEMMA FuturesStep ==
    ASSUME Tree, TokensInv, [K!Next]_(K!vars)
    PROVE  TrackedIsOpen' /\ TrackedIsCancelled'
  <1> USE DEF TokensInv, TrackedIsOpen, TrackedIsCancelled
  <1>1. ASSUME UNCHANGED K!futures, set \subseteq set' PROVE TrackedIsOpen' /\ TrackedIsCancelled'
    BY <1>1 DEF K!futures
  <1>2. ASSUME NEW t \in Token, K!CreateChild(t) \/ K!BornCancelled(t) \/ K!Cancel(t) \/ K!Close(t)
        PROVE  TrackedIsOpen' /\ TrackedIsCancelled'
    BY <1>1, <1>2 DEF K!CreateChild, K!BornCancelled, K!Cancel, K!Close, K!SetToken
  <1>3. ASSUME NEW t \in Token, NEW child \in Token, K!RunCallback(t, child)
        PROVE  TrackedIsOpen' /\ TrackedIsCancelled'
    BY <1>1, <1>3 DEF K!RunCallback
  <1>4. ASSUME NEW t \in Token, K!Submit(t) PROVE TrackedIsOpen' /\ TrackedIsCancelled'
    BY <1>4 DEF K!Submit, TokenTypes, K!Child
  <1>5. ASSUME NEW t \in Token, K!Track(t) PROVE TrackedIsOpen' /\ TrackedIsCancelled'
    BY <1>5 DEF K!Track, TokenTypes, K!Child
  <1>6. ASSUME NEW t \in Token, K!Run(t) \/ K!Finish(t) PROVE TrackedIsOpen' /\ TrackedIsCancelled'
    BY <1>6 DEF K!Run, K!Finish, TokenTypes, K!Child
  <1>7. ASSUME NEW t \in Token, K!CancelFuture(t) PROVE TrackedIsOpen' /\ TrackedIsCancelled'
    BY <1>7 DEF K!CancelFuture, K!SetToken, TokenTypes, K!Child
  <1>8. ASSUME K!CloseSupervisor \/ K!Drained \/ UNCHANGED K!vars
        PROVE  TrackedIsOpen' /\ TrackedIsCancelled'
    BY <1>8 DEF K!CloseSupervisor, K!Drained, K!vars
  <1> QED  BY <1>2, <1>3, <1>4, <1>5, <1>6, <1>7, <1>8 DEF K!Next

LEMMA TokensInitially == ASSUME Tree, K!Init PROVE TokensInv
  BY DEF K!Init, TokensInv, Tree, TokenTypes, TrackedIsOpen, TreeInv, Registered, ListedOnce, LateIsSet,
         K!NoChildEscapes, TrackedIsCancelled, K!Child

\* The invariant is inductive.
LEMMA TokensInductive == ASSUME Tree, TokensInv, [K!Next]_(K!vars) PROVE TokensInv'
  BY TokenTypesStep, TreeStep, FuturesStep DEF TokensInv

\* What it says of the invariants of the runs.
LEMMA TokensFollowed ==
    ASSUME Tree, TokensInv
    PROVE  K!TypeOK /\ K!NoChildEscapes /\ K!ClosedAreForgotten /\ K!NoToolEscapes
  <1>1. K!TypeOK
    BY DEF TokensInv, TokenTypes, TrackedIsOpen, K!TypeOK
  <1>2. K!ClosedAreForgotten
    BY DEF TokensInv, TreeInv, ListedOnce, K!ClosedAreForgotten, Tree
  <1> QED  BY <1>1, <1>2 DEF TokensInv, TreeInv, TrackedIsCancelled, K!NoToolEscapes

\* Types are kept: what the supervisor tracks is queued or running, whatever happens to its token.
THEOREM TokensTypeCorrect == ASSUME Tree PROVE K!Spec => []K!TypeOK
  <1>1. K!Init => TokensInv
    BY TokensInitially
  <1>2. TokensInv /\ [K!Next]_(K!vars) => TokensInv'
    BY TokensInductive
  <1>3. TokensInv => K!TypeOK
    BY TokensFollowed
  <1> QED  BY <1>1, <1>2, <1>3, PTL DEF K!Spec

\* A child that create_child makes while its parent is being cancelled is cancelled as well: in
\* every tree, however deep, it is on the list that cancel() takes over, or notices by itself.
THEOREM ChildrenAreReached == ASSUME Tree PROVE K!Spec => []K!NoChildEscapes
  <1>1. K!Init => TokensInv
    BY TokensInitially
  <1>2. TokensInv /\ [K!Next]_(K!vars) => TokensInv'
    BY TokensInductive
  <1>3. TokensInv => K!NoChildEscapes
    BY TokensFollowed
  <1> QED  BY <1>1, <1>2, <1>3, PTL DEF K!Spec

\* close() of a token leaves nothing of it on the list of its parent.
THEOREM ClosedLeaveTheirParent == ASSUME Tree PROVE K!Spec => []K!ClosedAreForgotten
  <1>1. K!Init => TokensInv
    BY TokensInitially
  <1>2. TokensInv /\ [K!Next]_(K!vars) => TokensInv'
    BY TokensInductive
  <1>3. TokensInv => K!ClosedAreForgotten
    BY TokensFollowed
  <1> QED  BY <1>1, <1>2, <1>3, PTL DEF K!Spec

\* A supervisor that was closed tracks no tool that was not told to stop.
THEOREM ToolsAreReached == ASSUME Tree PROVE K!Spec => []K!NoToolEscapes
  <1>1. K!Init => TokensInv
    BY TokensInitially
  <1>2. TokensInv /\ [K!Next]_(K!vars) => TokensInv'
    BY TokensInductive
  <1>3. TokensInv => K!NoToolEscapes
    BY TokensFollowed
  <1> QED  BY <1>1, <1>2, <1>3, PTL DEF K!Spec

-----------------------------------------------------------------------------
(* The budget of a project (ProjectResources): the sessions of a project    *)
(* never run more than its limit together, and no pool is closed under its  *)
(* users, for any number of sessions, calls and budgets.                    *)

\* There are finitely many sessions and calls, and each call belongs to a session.
Project ==
    /\ IsFiniteSet(Session) /\ IsFiniteSet(Call) /\ CallOf \in [Call -> Session]
    /\ Limit \in Nat /\ MaxBudgets \in Nat

\* Who owns a budget: its sessions, and the calls that wait or run in it.
Holders(b) == {s \in Session : state[s] = "holding" /\ budget[s] = b}
Users(b) == {c \in Call : waiting[c] \in {"waiting", "active"} /\ used[c] = b}

BudgetTypes ==
    /\ made \in 0 .. MaxBudgets /\ current \in 0 .. made
    /\ owners \in [P!Budget -> Nat] /\ closed \subseteq 1 .. made
    /\ state \in [Session -> {"none", "looked", "holding", "refused", "left"}]
    /\ waiting \in [Call -> {"idle", "waiting", "active", "over"}]
    /\ budget \in [Session -> 0 .. made] /\ used \in [Call -> 0 .. made] /\ stopped \subseteq Call

\* Whoever looked a budget up, or uses one, has one.
Provided ==
    /\ \A s \in Session : state[s] \in {"looked", "holding"} => budget[s] \in 1 .. made
    /\ \A c \in Call : waiting[c] \in {"waiting", "active"} => used[c] \in 1 .. made

\* The counter of a budget is the number of its owners.
OwnersCounted == \A b \in P!Budget : owners[b] = Cardinality(Holders(b)) + Cardinality(Users(b))

\* No owner of a budget is left in it when it is closed.
NobodyIn == \A b \in closed : Holders(b) = {} /\ Users(b) = {}

\* Every budget but the current one is closed.
OneBudgetOpen == \A b \in 1 .. made : b = current \/ b \in closed

\* No budget has more calls running than slots.
Slots == \A b \in P!Budget : Cardinality(P!Active(b)) <= Limit

BudgetInv == BudgetTypes /\ Provided /\ OwnersCounted /\ NobodyIn /\ OneBudgetOpen /\ Slots

\* The sets of owners are finite.
LEMMA OwnersAreFinite ==
    ASSUME Project, NEW b
    PROVE  /\ IsFiniteSet(Holders(b)) /\ IsFiniteSet(Users(b)) /\ IsFiniteSet(P!Active(b))
           /\ Cardinality(Holders(b)) \in Nat /\ Cardinality(Users(b)) \in Nat
           /\ Cardinality(P!Active(b)) \in Nat
  <1>1. Holders(b) \subseteq Session /\ Users(b) \subseteq Call /\ P!Active(b) \subseteq Call
    BY DEF Holders, Users, P!Active
  <1>2. IsFiniteSet(Holders(b)) /\ IsFiniteSet(Users(b)) /\ IsFiniteSet(P!Active(b))
    BY <1>1, FS_Subset DEF Project
  <1> QED  BY <1>2, FS_CardinalityType

\* A budget that somebody owns counts at least that one.
LEMMA OwnedIsPositive ==
    ASSUME Project, OwnersCounted, NEW b \in P!Budget, Holders(b) # {} \/ Users(b) # {}
    PROVE  owners[b] - 1 \in Nat
  <1>1. /\ IsFiniteSet(Holders(b)) /\ IsFiniteSet(Users(b))
        /\ Cardinality(Holders(b)) \in Nat /\ Cardinality(Users(b)) \in Nat
    BY OwnersAreFinite
  <1>2. Cardinality(Holders(b)) # 0 \/ Cardinality(Users(b)) # 0
    BY <1>1, FS_EmptySet
  <1>3. owners[b] = Cardinality(Holders(b)) + Cardinality(Users(b))
    BY DEF OwnersCounted
  <1>4. ASSUME NEW h \in Nat, NEW u \in Nat, h # 0 \/ u # 0 PROVE h + u - 1 \in Nat
    BY <1>4
  <1> QED  BY <1>1, <1>2, <1>3, <1>4

LEMMA SameCounts == ASSUME NEW S PROVE P!Cardinality(S) = Cardinality(S)
  BY DEF P!Cardinality, Cardinality

LEMMA BudgetInitially == ASSUME Project, P!Init PROVE BudgetInv
  <1>1. BudgetTypes /\ Provided /\ OneBudgetOpen /\ NobodyIn
    BY DEF Project, P!Init, BudgetTypes, Provided, OneBudgetOpen, NobodyIn, P!Budget
  <1>2. ASSUME NEW b PROVE Holders(b) = {} /\ Users(b) = {} /\ P!Active(b) = {}
    BY DEF P!Init, Holders, Users, P!Active
  <1>3. Cardinality({}) = 0
    BY FS_EmptySet
  <1>4. ASSUME NEW b \in P!Budget
        PROVE  /\ owners[b] = Cardinality(Holders(b)) + Cardinality(Users(b))
               /\ Cardinality(P!Active(b)) <= Limit
    <2>1. owners[b] = 0 /\ Limit \in Nat
      BY <1>4 DEF P!Init, Project
    <2>2. Cardinality(Holders(b)) = 0 /\ Cardinality(Users(b)) = 0 /\ Cardinality(P!Active(b)) = 0
      BY <1>2, <1>3
    <2> QED  BY <2>1, <2>2
  <1>5. OwnersCounted /\ Slots
    BY <1>4 DEF OwnersCounted, Slots
  <1> QED  BY <1>1, <1>5 DEF BudgetInv

\* The steps of sessions and calls keep the types, and a user of a budget keeps it.
LEMMA BudgetTypesStep ==
    ASSUME Project, BudgetInv, [P!Next]_(P!vars)
    PROVE  BudgetTypes' /\ Provided'
  <1> USE DEF Project, BudgetInv, BudgetTypes, Provided, P!Budget
  <1>1. ASSUME NEW s \in Session, P!Look(s) PROVE BudgetTypes' /\ Provided'
    <2>1. CASE current = 0 \/ current \in closed
      <3>1. made' = made + 1 /\ current' = made + 1 /\ made' \in 1 .. MaxBudgets
        BY <1>1, <2>1 DEF P!Look
      <3> QED  BY <1>1, <3>1 DEF P!Look
    <2>2. CASE ~(current = 0 \/ current \in closed)
      <3>1. made' = made /\ current' = current /\ current \in 1 .. made
        BY <1>1, <2>2 DEF P!Look
      <3> QED  BY <1>1, <3>1 DEF P!Look
    <2> QED  BY <2>1, <2>2
  <1>2. ASSUME NEW s \in Session, P!Hold(s) PROVE BudgetTypes' /\ Provided'
    <2>1. budget[s] \in P!Budget
      BY <1>2 DEF P!Hold
    <2>2. CASE budget[s] \in closed
      BY <1>2, <2>2 DEF P!Hold
    <2>3. CASE budget[s] \notin closed
      <3>0. /\ owners[budget[s]] + 1 \in Nat
            /\ owners' = [owners EXCEPT ![budget[s]] = owners[budget[s]] + 1]
        BY <1>2, <2>1, <2>3 DEF P!Hold
      <3>1. owners' \in [P!Budget -> Nat]
        BY <2>1, <3>0
      <3>2. /\ UNCHANGED <<current, made, closed, budget, waiting, used, stopped>>
            /\ state' = [state EXCEPT ![s] = "holding"]
        BY <1>2, <2>3 DEF P!Hold
      <3>3. state' \in [Session -> {"none", "looked", "holding", "refused", "left"}]
        BY <3>2
      <3>4. Provided'
        BY <1>2, <3>2 DEF P!Hold
      <3> QED  BY <3>1, <3>2, <3>3, <3>4
    <2> QED  BY <2>2, <2>3
  <1>3. ASSUME NEW s \in Session, P!Leave(s) PROVE BudgetTypes' /\ Provided'
    <2>1. PICK b \in P!Budget : b = budget[s] /\ s \in Holders(b)
      BY <1>3 DEF P!Leave, Holders
    <2>2. owners[b] - 1 \in Nat
      BY <2>1, OwnedIsPositive
    <2>3. owners' \in [P!Budget -> Nat] /\ closed' \subseteq 1 .. made
      BY <1>3, <2>1, <2>2 DEF P!Leave, P!Released
    <2>4. /\ UNCHANGED <<current, made, budget, waiting, used, stopped>>
          /\ state' = [state EXCEPT ![s] = "left"]
      BY <1>3 DEF P!Leave
    <2>5. Provided'
      BY <2>4
    <2> QED  BY <2>3, <2>4, <2>5
  <1>4. ASSUME NEW s \in Session, P!Return(s) PROVE BudgetTypes' /\ Provided'
    BY <1>4 DEF P!Return
  <1>5. ASSUME NEW c \in Call, P!Ask(c) PROVE BudgetTypes' /\ Provided'
    BY <1>5 DEF P!Ask
  <1>6. ASSUME NEW c \in Call, P!Grant(c) \/ P!StopCall(c) PROVE BudgetTypes' /\ Provided'
    BY <1>6 DEF P!Grant, P!StopCall
  <1>7. ASSUME NEW c \in Call, P!GiveUp(c) \/ P!Done(c) PROVE BudgetTypes' /\ Provided'
    <2>1. PICK b \in P!Budget : b = used[c] /\ c \in Users(b)
      BY <1>7 DEF P!GiveUp, P!Done, Users
    <2>2. owners[b] - 1 \in Nat
      BY <2>1, OwnedIsPositive
    <2>3. owners' \in [P!Budget -> Nat] /\ closed' \subseteq 1 .. made
      BY <1>7, <2>1, <2>2 DEF P!GiveUp, P!Done, P!Released
    <2>4. /\ UNCHANGED <<current, made, budget, state, used, stopped>>
          /\ waiting' = [waiting EXCEPT ![c] = "over"]
      BY <1>7 DEF P!GiveUp, P!Done
    <2>5. Provided'
      BY <2>4
    <2> QED  BY <2>3, <2>4, <2>5
  <1>8. ASSUME UNCHANGED P!vars PROVE BudgetTypes' /\ Provided'
    BY <1>8 DEF P!vars
  <1> QED  BY <1>1, <1>2, <1>3, <1>4, <1>5, <1>6, <1>7, <1>8 DEF P!Next

\* hold, acquire, release: the counter follows the owners that come and go.
LEMMA CountStep ==
    ASSUME Project, BudgetInv, [P!Next]_(P!vars)
    PROVE  OwnersCounted'
  <1> USE DEF Project, BudgetInv, BudgetTypes, Provided, P!Budget
  <1> USE OwnersAreFinite
  <1> SUFFICES ASSUME NEW b \in P!Budget
               PROVE  owners'[b] = Cardinality(Holders(b)') + Cardinality(Users(b)')
    BY DEF OwnersCounted
  <1>0. owners[b] = Cardinality(Holders(b)) + Cardinality(Users(b))
    BY DEF OwnersCounted
  <1>1. ASSUME NEW s \in Session, P!Look(s) \/ P!Return(s)
        PROVE  Holders(b)' = Holders(b) /\ Users(b)' = Users(b) /\ owners'[b] = owners[b]
    BY <1>1 DEF P!Look, P!Return, Holders, Users
  <1>2. ASSUME NEW s \in Session, P!Hold(s)
        PROVE  owners'[b] = Cardinality(Holders(b)') + Cardinality(Users(b)')
    <2>1. Users(b)' = Users(b)
      BY <1>2 DEF P!Hold, Users
    <2>2. CASE budget[s] \in closed \/ budget[s] # b
      <3>1. Holders(b)' = Holders(b) /\ owners'[b] = owners[b]
        BY <1>2, <2>2 DEF P!Hold, Holders
      <3> QED  BY <1>0, <2>1, <3>1
    <2>3. CASE budget[s] \notin closed /\ budget[s] = b
      <3>1. s \notin Holders(b) /\ Holders(b)' = Holders(b) \union {s} /\ owners'[b] = owners[b] + 1
        BY <1>2, <2>3 DEF P!Hold, Holders
      <3>2. Cardinality(Holders(b)') = Cardinality(Holders(b)) + 1
        BY <3>1, FS_AddElement
      <3> QED  BY <1>0, <2>1, <3>1, <3>2
    <2> QED  BY <2>2, <2>3
  <1>3. ASSUME NEW s \in Session, P!Leave(s)
        PROVE  owners'[b] = Cardinality(Holders(b)') + Cardinality(Users(b)')
    <2>1. Users(b)' = Users(b)
      BY <1>3 DEF P!Leave, Users
    <2>2. CASE budget[s] # b
      <3>1. Holders(b)' = Holders(b) /\ owners'[b] = owners[b]
        BY <1>3, <2>2 DEF P!Leave, P!Released, Holders
      <3> QED  BY <1>0, <2>1, <3>1
    <2>3. CASE budget[s] = b
      <3>1. s \in Holders(b) /\ Holders(b)' = Holders(b) \ {s} /\ owners'[b] = owners[b] - 1
        BY <1>3, <2>3 DEF P!Leave, P!Released, Holders
      <3>2. Cardinality(Holders(b)') = Cardinality(Holders(b)) - 1
        BY <3>1, FS_RemoveElement
      <3> QED  BY <1>0, <2>1, <3>1, <3>2
    <2> QED  BY <2>2, <2>3
  <1>4. ASSUME NEW c \in Call, P!Ask(c)
        PROVE  owners'[b] = Cardinality(Holders(b)') + Cardinality(Users(b)')
    <2>1. Holders(b)' = Holders(b) /\ CallOf[c] \in Session
      BY <1>4 DEF P!Ask, Holders
    <2>2. CASE budget[CallOf[c]] # b
      <3>1. Users(b)' = Users(b) /\ owners'[b] = owners[b]
        BY <1>4, <2>1, <2>2 DEF P!Ask, Users
      <3> QED  BY <1>0, <2>1, <3>1
    <2>3. CASE budget[CallOf[c]] = b
      <3>1. c \notin Users(b) /\ Users(b)' = Users(b) \union {c} /\ owners'[b] = owners[b] + 1
        BY <1>4, <2>1, <2>3 DEF P!Ask, Users
      <3>2. Cardinality(Users(b)') = Cardinality(Users(b)) + 1
        BY <3>1, FS_AddElement
      <3> QED  BY <1>0, <2>1, <3>1, <3>2
    <2> QED  BY <2>2, <2>3
  <1>5. ASSUME NEW c \in Call, P!GiveUp(c) \/ P!Done(c)
        PROVE  owners'[b] = Cardinality(Holders(b)') + Cardinality(Users(b)')
    <2>1. Holders(b)' = Holders(b)
      BY <1>5 DEF P!GiveUp, P!Done, Holders
    <2>2. CASE used[c] # b
      <3>1. Users(b)' = Users(b) /\ owners'[b] = owners[b]
        BY <1>5, <2>2 DEF P!GiveUp, P!Done, P!Released, Users
      <3> QED  BY <1>0, <2>1, <3>1
    <2>3. CASE used[c] = b
      <3>1. c \in Users(b) /\ Users(b)' = Users(b) \ {c} /\ owners'[b] = owners[b] - 1
        BY <1>5, <2>3 DEF P!GiveUp, P!Done, P!Released, Users
      <3>2. Cardinality(Users(b)') = Cardinality(Users(b)) - 1
        BY <3>1, FS_RemoveElement
      <3> QED  BY <1>0, <2>1, <3>1, <3>2
    <2> QED  BY <2>2, <2>3
  <1>6. ASSUME NEW c \in Call, P!Grant(c) \/ P!StopCall(c)
        PROVE  Holders(b)' = Holders(b) /\ Users(b)' = Users(b) /\ owners'[b] = owners[b]
    BY <1>6 DEF P!Grant, P!StopCall, Holders, Users
  <1>7. ASSUME UNCHANGED P!vars
        PROVE  Holders(b)' = Holders(b) /\ Users(b)' = Users(b) /\ owners'[b] = owners[b]
    BY <1>7 DEF P!vars, Holders, Users
  <1> QED  BY <1>0, <1>1, <1>2, <1>3, <1>4, <1>5, <1>6, <1>7 DEF P!Next

\* Owners counted to zero are none.
LEMMA NobodyLeft ==
    ASSUME Project, NEW H \in SUBSET Session, NEW U \in SUBSET Call, Cardinality(H) + Cardinality(U) = 0
    PROVE  H = {} /\ U = {}
  <1>1. IsFiniteSet(H) /\ IsFiniteSet(U)
    BY FS_Subset DEF Project
  <1>2. Cardinality(H) \in Nat /\ Cardinality(U) \in Nat
    BY <1>1, FS_CardinalityType
  <1>3. Cardinality(H) = 0 /\ Cardinality(U) = 0
    BY <1>2
  <1> QED  BY <1>1, <1>3, FS_EmptySet

\* release: a budget closes only when nobody is left in it.  hold and acquire: nobody enters a
\* closed one, since whoever asks for a slot owns the budget already.
LEMMA NobodyInStep ==
    ASSUME Project, BudgetInv, [P!Next]_(P!vars), OwnersCounted'
    PROVE  NobodyIn'
  <1> USE DEF Project, BudgetInv, BudgetTypes, Provided, P!Budget
  <1> SUFFICES ASSUME NEW b \in closed'
               PROVE  Holders(b)' = {} /\ Users(b)' = {}
    BY DEF NobodyIn
  <1>1. CASE b \in closed
    <2>1. Holders(b) = {} /\ Users(b) = {}
      BY <1>1 DEF NobodyIn
    <2>2. ASSUME NEW s \in Session, P!Look(s) \/ P!Leave(s) \/ P!Return(s) \/ P!Hold(s)
          PROVE  Holders(b)' = {}
      BY <1>1, <2>1, <2>2 DEF P!Look, P!Leave, P!Return, P!Hold, Holders
    <2>3. ASSUME NEW s \in Session, P!Look(s) \/ P!Leave(s) \/ P!Return(s) \/ P!Hold(s)
          PROVE  Users(b)' = {}
      BY <1>1, <2>1, <2>3 DEF P!Look, P!Leave, P!Return, P!Hold, Users
    <2>4. ASSUME NEW c \in Call, P!Ask(c) PROVE Holders(b)' = {} /\ Users(b)' = {}
      <3>1. CallOf[c] \in Holders(budget[CallOf[c]])
        BY <2>4 DEF P!Ask, Holders
      <3>2. budget[CallOf[c]] # b
        BY <2>1, <3>1
      <3> QED  BY <2>1, <2>4, <3>2 DEF P!Ask, Holders, Users
    <2>5. ASSUME NEW c \in Call, P!Grant(c) \/ P!GiveUp(c) \/ P!Done(c) \/ P!StopCall(c)
          PROVE  Holders(b)' = {} /\ Users(b)' = {}
      BY <2>1, <2>5 DEF P!Grant, P!GiveUp, P!Done, P!StopCall, Holders, Users
    <2>6. ASSUME UNCHANGED P!vars PROVE Holders(b)' = {} /\ Users(b)' = {}
      BY <2>1, <2>6 DEF P!vars, Holders, Users
    <2> QED  BY <2>2, <2>3, <2>4, <2>5, <2>6 DEF P!Next
  <1>2. CASE b \notin closed
    <2>1. b \in P!Budget /\ owners'[b] = 0
      <3>1. ASSUME NEW s \in Session, P!Leave(s) PROVE b \in P!Budget /\ owners'[b] = 0
        BY <1>2, <3>1 DEF P!Leave, P!Released
      <3>2. ASSUME NEW c \in Call, P!GiveUp(c) \/ P!Done(c) PROVE b \in P!Budget /\ owners'[b] = 0
        BY <1>2, <3>2 DEF P!GiveUp, P!Done, P!Released
      <3>3. ASSUME NEW s \in Session, P!Look(s) \/ P!Hold(s) \/ P!Return(s) PROVE FALSE
        BY <1>2, <3>3 DEF P!Look, P!Hold, P!Return
      <3>4. ASSUME NEW c \in Call, P!Ask(c) \/ P!Grant(c) \/ P!StopCall(c) PROVE FALSE
        BY <1>2, <3>4 DEF P!Ask, P!Grant, P!StopCall
      <3>5. ASSUME UNCHANGED P!vars PROVE FALSE
        BY <1>2, <3>5 DEF P!vars
      <3> QED  BY <3>1, <3>2, <3>3, <3>4, <3>5 DEF P!Next
    <2>2. Cardinality(Holders(b)') + Cardinality(Users(b)') = 0
      BY <2>1 DEF OwnersCounted
    <2>3. Holders(b)' \in SUBSET Session /\ Users(b)' \in SUBSET Call
      BY DEF Holders, Users
    <2> QED  BY <2>2, <2>3, NobodyLeft
  <1> QED  BY <1>1, <1>2

\* for_project: a new budget is made only when the current one is closed.
LEMMA OneBudgetOpenStep ==
    ASSUME Project, BudgetInv, [P!Next]_(P!vars)
    PROVE  OneBudgetOpen'
  <1> USE DEF Project, BudgetInv, BudgetTypes, OneBudgetOpen
  <1>1. ASSUME NEW s \in Session, P!Look(s) PROVE OneBudgetOpen'
    <2>1. CASE current = 0 \/ current \in closed
      <3>1. made' = made + 1 /\ current' = made + 1 /\ closed' = closed
        BY <1>1, <2>1 DEF P!Look
      <3>2. \A b \in 1 .. made : b \in closed
        BY <2>1
      <3> QED  BY <3>1, <3>2
    <2>2. CASE ~(current = 0 \/ current \in closed)
      BY <1>1, <2>2 DEF P!Look
    <2> QED  BY <2>1, <2>2
  <1>2. ASSUME NEW s \in Session, P!Hold(s) \/ P!Leave(s) \/ P!Return(s) PROVE OneBudgetOpen'
    BY <1>2 DEF P!Hold, P!Leave, P!Return, P!Released
  <1>3. ASSUME NEW c \in Call, P!Ask(c) \/ P!Grant(c) \/ P!GiveUp(c) \/ P!Done(c) \/ P!StopCall(c)
        PROVE  OneBudgetOpen'
    BY <1>3 DEF P!Ask, P!Grant, P!GiveUp, P!Done, P!StopCall, P!Released
  <1>4. ASSUME UNCHANGED P!vars PROVE OneBudgetOpen'
    BY <1>4 DEF P!vars
  <1> QED  BY <1>1, <1>2, <1>3, <1>4 DEF P!Next

\* acquire: a call runs only in a slot that is free.
LEMMA SlotsStep ==
    ASSUME Project, BudgetInv, [P!Next]_(P!vars)
    PROVE  Slots'
  <1> USE DEF Project, BudgetInv, BudgetTypes, P!Budget
  <1> SUFFICES ASSUME NEW b \in P!Budget
               PROVE  Cardinality(P!Active(b)') <= Limit
    BY DEF Slots
  <1>0. IsFiniteSet(P!Active(b)) /\ Cardinality(P!Active(b)) \in Nat /\ Cardinality(P!Active(b)) <= Limit
    BY OwnersAreFinite DEF Slots
  <1>1. ASSUME P!Active(b)' \subseteq P!Active(b) PROVE Cardinality(P!Active(b)') <= Limit
    <2>1. IsFiniteSet(P!Active(b)') /\ Cardinality(P!Active(b)') <= Cardinality(P!Active(b))
      BY <1>0, <1>1, FS_Subset
    <2>2. Cardinality(P!Active(b)') \in Nat
      BY <2>1, FS_CardinalityType
    <2> QED  BY <1>0, <2>1, <2>2
  <1>2. ASSUME NEW s \in Session, P!Look(s) \/ P!Hold(s) \/ P!Leave(s) \/ P!Return(s)
        PROVE  P!Active(b)' \subseteq P!Active(b)
    BY <1>2 DEF P!Look, P!Hold, P!Leave, P!Return, P!Active
  <1>3. ASSUME NEW c \in Call, P!Ask(c) \/ P!GiveUp(c) \/ P!Done(c) \/ P!StopCall(c)
        PROVE  P!Active(b)' \subseteq P!Active(b)
    BY <1>3 DEF P!Ask, P!GiveUp, P!Done, P!StopCall, P!Active
  <1>4. ASSUME NEW c \in Call, P!Grant(c) PROVE Cardinality(P!Active(b)') <= Limit
    <2>1. CASE used[c] # b
      <3>1. P!Active(b)' \subseteq P!Active(b)
        BY <1>4, <2>1 DEF P!Grant, P!Active
      <3> QED  BY <1>1, <3>1
    <2>2. CASE used[c] = b
      <3>1. c \notin P!Active(b) /\ P!Active(b)' = P!Active(b) \union {c}
        BY <1>4, <2>2 DEF P!Grant, P!Active
      <3>2. Cardinality(P!Active(b)') = Cardinality(P!Active(b)) + 1
        BY <1>0, <3>1, FS_AddElement
      <3>3. Cardinality(P!Active(b)) < Limit
        BY <1>4, <2>2, SameCounts DEF P!Grant, P!HasSlot
      <3> QED  BY <1>0, <3>2, <3>3
    <2> QED  BY <2>1, <2>2
  <1>5. ASSUME UNCHANGED P!vars PROVE P!Active(b)' \subseteq P!Active(b)
    BY <1>5 DEF P!vars, P!Active
  <1> QED  BY <1>1, <1>2, <1>3, <1>4, <1>5 DEF P!Next

\* The invariant is inductive.
LEMMA BudgetInductive == ASSUME Project, BudgetInv, [P!Next]_(P!vars) PROVE BudgetInv'
  <1>1. BudgetTypes' /\ Provided'
    BY BudgetTypesStep
  <1>2. OwnersCounted'
    BY CountStep
  <1> QED  BY <1>1, <1>2, NobodyInStep, OneBudgetOpenStep, SlotsStep DEF BudgetInv

\* What it says of the invariants of the runs.
LEMMA BudgetFollowed ==
    ASSUME Project, BudgetInv
    PROVE  P!TypeOK /\ P!ProjectWithinLimit /\ P!OpenWhileOwned
  <1> USE DEF BudgetInv, BudgetTypes, Provided, P!Budget
  <1>1. P!TypeOK
    <2>1. ASSUME NEW b \in P!Budget PROVE owners[b] = P!Owning(b)
      <3>1. P!Owning(b) = Cardinality(Holders(b)) + Cardinality(Users(b))
        BY SameCounts DEF P!Owning, Holders, Users
      <3> QED  BY <3>1 DEF OwnersCounted
    <2> QED  BY <2>1 DEF P!TypeOK
  <1>2. P!ProjectWithinLimit
    <2> DEFINE Run == {c \in Call : waiting[c] = "active"}
    <2>1. CASE Run = {}
      <3>1. Cardinality(Run) = 0
        <4> HIDE DEF Run
        <4> QED  BY <2>1, FS_EmptySet
      <3>2. Limit \in Nat
        BY DEF Project
      <3> QED  BY <3>1, <3>2, SameCounts DEF P!ProjectWithinLimit
    <2>2. CASE Run # {}
      <3>1. ASSUME NEW c \in Run PROVE used[c] = current
        <4>1. c \in Users(used[c]) /\ used[c] \in 1 .. made
          BY DEF Users
        <4>2. used[c] \notin closed
          BY <4>1 DEF NobodyIn
        <4> QED  BY <4>1, <4>2 DEF OneBudgetOpen
      <3>2. Run = P!Active(current) /\ current \in P!Budget
        <4>1. Run = P!Active(current)
          BY <3>1 DEF P!Active
        <4>2. PICK c \in Run : used[c] = current /\ used[c] \in 1 .. made
          BY <2>2, <3>1
        <4>3. 1 .. made \subseteq P!Budget
          BY DEF Project
        <4> QED  BY <4>1, <4>2, <4>3
      <3> QED  BY <3>2, SameCounts DEF Slots, P!ProjectWithinLimit
    <2> QED  BY <2>1, <2>2
  <1>3. P!OpenWhileOwned
    <2>1. ASSUME NEW b \in closed PROVE P!Owning(b) = 0
      <3>1. P!Owning(b) = Cardinality(Holders(b)) + Cardinality(Users(b))
        BY SameCounts DEF P!Owning, Holders, Users
      <3>2. Cardinality(Holders(b)) = 0 /\ Cardinality(Users(b)) = 0
        BY FS_EmptySet DEF NobodyIn
      <3> QED  BY <3>1, <3>2
    <2> QED  BY <2>1 DEF P!OpenWhileOwned
  <1> QED  BY <1>1, <1>2, <1>3

\* At all times the budgets, their owners and their calls are what their fields say, and
\* every counter of owners is exact.
THEOREM BudgetTypeCorrect == ASSUME Project PROVE P!Spec => []P!TypeOK
  <1>1. P!Init => BudgetInv
    BY BudgetInitially
  <1>2. BudgetInv /\ [P!Next]_(P!vars) => BudgetInv'
    BY BudgetInductive
  <1>3. BudgetInv => P!TypeOK
    BY BudgetFollowed
  <1> QED  BY <1>1, <1>2, <1>3, PTL DEF P!Spec

\* However sessions come and go, the project as a whole runs at most Limit calls.
THEOREM WithinLimit == ASSUME Project PROVE P!Spec => []P!ProjectWithinLimit
  <1>1. P!Init => BudgetInv
    BY BudgetInitially
  <1>2. BudgetInv /\ [P!Next]_(P!vars) => BudgetInv'
    BY BudgetInductive
  <1>3. BudgetInv => P!ProjectWithinLimit
    BY BudgetFollowed
  <1> QED  BY <1>1, <1>2, <1>3, PTL DEF P!Spec

\* The pools are never shut down under a session or a call that owns them.
THEOREM StaysOpen == ASSUME Project PROVE P!Spec => []P!OpenWhileOwned
  <1>1. P!Init => BudgetInv
    BY BudgetInitially
  <1>2. BudgetInv /\ [P!Next]_(P!vars) => BudgetInv'
    BY BudgetInductive
  <1>3. BudgetInv => P!OpenWhileOwned
    BY BudgetFollowed
  <1> QED  BY <1>1, <1>2, <1>3, PTL DEF P!Spec

-----------------------------------------------------------------------------
(* Tokens and budget in the run "turns".                                    *)

\* No token or tool escapes a cancellation, and no call the limit of the project or an open pool
\* (CancellationToken, ToolTaskSupervisor, ProjectExecutionBudget).
THEOREM NothingGetsAway == ASSUME Tree, Project PROVE MCSpec => []NothingEscapes
  <1>1. MCInit => TokensInv /\ BudgetInv
    BY TokensInitially, BudgetInitially DEF MCInit
  <1>2. TokensInv /\ [MCNext]_parts => TokensInv'
    <2>1. [MCNext]_parts => [K!Next]_(K!vars)
      BY DEF MCNext, Turn, Context, Batch, Failures, Tokens, Budget, Claims, Tools, Gate,
             Results, tree, parts, K!vars
    <2> QED  BY <2>1, TokensInductive
  <1>3. BudgetInv /\ [MCNext]_parts => BudgetInv'
    <2>1. [MCNext]_parts => [P!Next]_(P!vars)
      BY DEF MCNext, Turn, Context, Batch, Failures, Tokens, Budget, Claims, Tools, Gate,
             Results, shared, parts, P!vars
    <2> QED  BY <2>1, BudgetInductive
  <1>4. TokensInv => K!NoChildEscapes /\ K!ClosedAreForgotten /\ K!NoToolEscapes
    BY TokensFollowed
  <1>5. BudgetInv => P!ProjectWithinLimit /\ P!OpenWhileOwned
    BY BudgetFollowed
  <1> QED  BY <1>1, <1>2, <1>3, <1>4, <1>5, PTL DEF MCSpec, parts, NothingEscapes

-----------------------------------------------------------------------------
(* The calls of one message (ToolBatch): those that conflict run one after  *)
(* the other, whatever the numbers of messages, of calls and of calls       *)
(* allowed are.                                                             *)

CallsTyped ==
    /\ phase \in {"idle", "plan", "check", "start", "wait", "record", "settle", "repair"}
    /\ number \in Nat /\ effects \in Seq(X!Effects) /\ recorded \in 0 .. Len(effects)
    /\ call \in [X!Calls -> {"pending", "chosen", "allowed", "queued", "active", "returned",
                             "raised", "gone", "over"}]
    /\ result \in [X!Calls -> {"none", "own", "error", "blocked"}]
    /\ ran \subseteq X!Calls

\* Where the calls can be while the executor is at a point of its work.
CallsFit ==
    \A i \in X!Calls :
        /\ phase = "idle" => call[i] = "over"
        /\ phase \in {"plan", "record"} => call[i] \in {"pending", "over"}
        /\ phase = "check" => call[i] \in {"pending", "chosen", "allowed", "over"}
        /\ phase = "start" =>
              call[i] \in {"pending", "allowed", "queued", "active", "returned", "raised", "over"}
        /\ phase = "wait" => call[i] \in {"pending", "queued", "active", "returned", "raised", "over"}
        /\ phase \in {"settle", "repair"} => call[i] # "queued"
        /\ i <= recorded => call[i] = "over"

\* What a result says of its call is so.
ResultsTrue ==
    \A i \in X!Calls :
        /\ i \in ran => call[i] \in {"active", "returned", "raised", "over"}
        /\ call[i] \in {"active", "returned"} => i \in ran
        /\ result[i] = "blocked" => call[i] = "over" /\ i \notin ran
        /\ result[i] = "own" => i \in ran

\* What a call depends on is over before it is chosen, and stays so.
Ordered ==
    \A j \in X!Calls :
        call[j] \in {"chosen", "allowed", "queued"} \/ j \in ran =>
            \A i \in X!Dependencies(j) : call[i] = "over"

\* Calls that run together do not conflict.
Apart ==
    \A i \in X!Calls : call[i] = "active" =>
        /\ \A old \in running : ~X!SetsConflict(X!ClaimsOf(effects[i]), X!ClaimsOf(old[3]))
        /\ \A j \in X!Calls \ {i} : call[j] = "active" =>
              ~X!SetsConflict(X!ClaimsOf(effects[i]), X!ClaimsOf(effects[j]))

BatchInv == CallsTyped /\ CallsFit /\ ResultsTrue /\ Ordered /\ Apart

\* Calls are numbered from one.
LEMMA CallsAreNumbers ==
    ASSUME CallsTyped
    PROVE  /\ X!Calls = 1 .. Len(effects) /\ Len(effects) \in Nat /\ X!Calls \subseteq Nat
           /\ \A i \in X!Calls : X!Dependencies(i) \subseteq X!Calls /\ i \notin X!Dependencies(i)
  <1>1. X!Calls = 1 .. Len(effects) /\ Len(effects) \in Nat
    BY DEF CallsTyped, X!Calls
  <1>2. ASSUME NEW i \in 1 .. Len(effects), NEW j \in X!Dependencies(i)
        PROVE  j \in 1 .. Len(effects) /\ j # i
    <2>1. j \in 1 .. i - 1
      BY <1>2 DEF X!Dependencies
    <2> QED  BY <1>1, <2>1
  <1> QED  BY <1>1, <1>2

\* Conflicts go both ways.
LEMMA ConflictsAreMutual ==
    ASSUME NEW these, NEW those
    PROVE  X!SetsConflict(these, those) <=> X!SetsConflict(those, these)
  <1>1. ASSUME NEW a, NEW b
        PROVE  X!Conflict(a, b) => X!Conflict(b, a)
    BY DEF X!Conflict, X!SameResource
  <1> QED  BY <1>1 DEF X!SetsConflict

\* A set of calls that is not empty has a first one.
LEMMA FirstCall ==
    ASSUME CallsTyped, NEW S \in SUBSET X!Calls, S # {}
    PROVE  X!Min(S) \in S /\ \A i \in S : X!Min(S) <= i
  <1> DEFINE Below == OpToRel(<, Nat)
  <1>1. IsWellFoundedOn(Below, Nat)
    BY NatLessThanWellFounded
  <1> HIDE DEF Below
  <1>2. S \subseteq Nat
    BY CallsAreNumbers
  <1>3. PICK x \in S : \A y \in S : ~(<<y, x>> \in Below)
    BY <1>1, <1>2, WFMin
  <1>4. Below = {pair \in Nat \X Nat : pair[1] < pair[2]}
    BY Zenon DEF Below, OpToRel
  <1>5. ASSUME NEW y \in S, y < x PROVE FALSE
    <2>1. <<y, x>> \in Nat \X Nat /\ <<y, x>>[1] < <<y, x>>[2]
      BY <1>2, <1>5
    <2>2. <<y, x>> \in {pair \in Nat \X Nat : pair[1] < pair[2]}
      BY <2>1, Zenon
    <2> QED  BY <1>3, <1>4, <2>2, Zenon
  <1>6. \A y \in S : x <= y
    BY <1>2, <1>5
  <1> QED  BY <1>3, <1>6 DEF X!Min

LEMMA BatchInitially == X!Init => BatchInv
  BY DEF X!Init, BatchInv, CallsTyped, CallsFit, ResultsTrue, Ordered, Apart, X!Calls

\* Within one message the calls and what they depend on stay the same; fewer calls run apart, and
\* what is over stays over.
LEMMA SameMessage ==
    ASSUME effects' = effects
    PROVE  /\ X!Calls' = X!Calls
           /\ \A i : X!Dependencies(i)' = X!Dependencies(i)
  BY DEF X!Calls, X!Dependencies

LEMMA FewerApart ==
    ASSUME Apart, effects' = effects, running' \subseteq running,
           \A i \in X!Calls : call'[i] = "active" => call[i] = "active"
    PROVE  Apart'
  <1>1. X!Calls' = X!Calls
    BY SameMessage
  <1> QED  BY <1>1 DEF Apart

LEMMA OrderKept ==
    ASSUME CallsTyped, Ordered, effects' = effects,
           \A i \in X!Calls : call[i] = "over" => call'[i] = "over",
           \A j \in X!Calls : call'[j] \in {"chosen", "allowed", "queued"} \/ j \in ran' =>
               call[j] \in {"chosen", "allowed", "queued"} \/ j \in ran
    PROVE  Ordered'
  <1>1. X!Calls' = X!Calls /\ \A i : X!Dependencies(i)' = X!Dependencies(i)
    BY SameMessage
  <1>2. \A j \in X!Calls : X!Dependencies(j) \subseteq X!Calls
    BY CallsAreNumbers
  <1> QED  BY <1>1, <1>2 DEF Ordered

\* The invariant when calls only move: nothing of the message, its results or the runs changes.
LEMMA BatchMoves ==
    ASSUME BatchInv, X!Broken,
           UNCHANGED <<number, effects, result, recorded, ran, running>>
    PROVE  BatchInv'
  <1>1. X!Calls' = X!Calls
    BY SameMessage
  <1>2. CallsTyped /\ CallsFit /\ ResultsTrue /\ Ordered /\ Apart
    BY DEF BatchInv
  <1>3. \A i \in X!Calls : call'[i] = IF call[i] = "queued" THEN "gone" ELSE call[i]
    BY DEF X!Broken
  <1>4. CallsTyped'
    BY <1>1, <1>2 DEF CallsTyped, X!Broken
  <1>5. CallsFit'
    BY <1>1, <1>2, <1>3 DEF CallsFit, X!Broken
  <1>6. ResultsTrue'
    BY <1>1, <1>2, <1>3 DEF ResultsTrue
  <1>7. Ordered'
    BY <1>2, <1>3, OrderKept
  <1>8. Apart'
    BY <1>2, <1>3, FewerApart
  <1> QED  BY <1>4, <1>5, <1>6, <1>7, <1>8 DEF BatchInv

\* A message begins where all calls of the one before are over.
LEMMA BeginKeepsBatch ==
    ASSUME BatchInv, NEW n \in 1 .. 3, NEW chosen \in [1 .. n -> X!Effects], X!Begin(chosen)
    PROVE  BatchInv'
  <1>1. chosen \in Seq(X!Effects) /\ DOMAIN chosen = 1 .. n /\ Len(chosen) = n
    OBVIOUS
  <1>2. X!Calls' = 1 .. n /\ effects' = chosen /\ ran' = {} /\ recorded' = 0 /\ phase' = "plan"
    BY <1>1 DEF X!Begin, X!Calls
  <1>3. /\ call' = [i \in 1 .. n |-> "pending"] /\ result' = [i \in 1 .. n |-> "none"]
        /\ number' = number + 1
    BY <1>1 DEF X!Begin
  <1>4. CallsTyped'
    BY <1>1, <1>2, <1>3 DEF CallsTyped, BatchInv
  <1> QED  BY <1>2, <1>3, <1>4 DEF BatchInv, CallsFit, ResultsTrue, Ordered, Apart

\* The calls chosen are those that depend on nothing unfinished.
LEMMA ChooseKeepsBatch ==
    ASSUME BatchInv, X!Choose PROVE BatchInv'
  <1>1. CASE token
    BY <1>1, BatchMoves DEF X!Choose
  <1>2. CASE ~token
    <2>1. /\ CallsTyped /\ CallsFit /\ ResultsTrue /\ Ordered /\ Apart
          /\ phase = "plan" /\ X!In({"pending"}) # {} /\ phase' = "check"
          /\ UNCHANGED <<number, effects, result, recorded, ran, running>>
      BY <1>2 DEF X!Choose, BatchInv
    <2>2. X!Calls' = X!Calls /\ \A i : X!Dependencies(i)' = X!Dependencies(i)
      BY <2>1, SameMessage
    <2>3. X!Ready # {}
      <3>1. X!In({"pending"}) \subseteq X!Calls
        BY DEF X!In
      <3>2. X!Min(X!In({"pending"})) \in X!In({"pending"})
            /\ \A i \in X!In({"pending"}) : X!Min(X!In({"pending"})) <= i
        BY <2>1, <3>1, FirstCall
      <3>3. PICK first \in X!In({"pending"}) : \A i \in X!In({"pending"}) : first <= i
        BY <3>2
      <3>4. \A i \in X!Dependencies(first) : i \in X!Calls /\ i < first
        <4>1. first \in X!Calls /\ X!Calls \subseteq Nat /\ X!Dependencies(first) \subseteq X!Calls
          BY <2>1, <3>1, <3>3, CallsAreNumbers
        <4>2. X!Dependencies(first) \subseteq 1 .. first - 1
          BY DEF X!Dependencies
        <4> QED  BY <4>1, <4>2
      <3>5. X!Calls \subseteq Nat
        BY <2>1, CallsAreNumbers
      <3>6. \A i \in X!Dependencies(first) : call[i] = "over"
        <4>1. \A i \in X!Calls : call[i] \in {"pending", "over"}
          BY <2>1 DEF CallsFit
        <4>2. \A i \in X!Calls : call[i] = "pending" => first <= i
          BY <3>3 DEF X!In
        <4>3. first \in Nat /\ \A i \in X!Dependencies(first) : i \in Nat
          BY <3>1, <3>3, <3>4, <3>5
        <4> QED  BY <3>4, <4>1, <4>2, <4>3
      <3>7. first \in X!Ready
        BY <3>3, <3>4, <3>6 DEF X!Ready, X!In
      <3> QED  BY <3>7
    <2>4. PICK group \in SUBSET X!Ready : call' = [i \in X!Calls |-> IF i \in group THEN "chosen" ELSE call[i]]
      <3>1. X!Ready \subseteq X!Calls /\ X!Safe \subseteq X!Ready
        BY DEF X!Ready, X!In, X!Safe
      <3>2. X!Min(X!Ready) \in X!Ready
        BY <2>1, <2>3, <3>1, FirstCall
      <3>3. (IF X!Safe # {} THEN X!Safe ELSE {X!Min(X!Ready)}) \in SUBSET X!Ready
        BY <3>1, <3>2
      <3> QED  BY <1>2, <3>3 DEF X!Choose
    <2>5. \A i \in group : i \in X!Calls /\ call[i] = "pending"
                           /\ \A k \in X!Dependencies(i) : call[k] = "over"
      BY <2>4 DEF X!Ready, X!In
    <2>6. \A i \in X!Calls : call'[i] = IF i \in group THEN "chosen" ELSE call[i]
      BY <2>4
    <2>7. CallsTyped'
      BY <2>1, <2>2, <2>4 DEF CallsTyped
    <2>8. CallsFit'
      BY <2>1, <2>2, <2>5, <2>6 DEF CallsFit
    <2>9. ResultsTrue'
      BY <2>1, <2>2, <2>5, <2>6 DEF ResultsTrue
    <2>10. Ordered'
      <3>1. \A j \in X!Calls : X!Dependencies(j) \subseteq X!Calls
        BY <2>1, CallsAreNumbers
      <3>2. \A i \in X!Calls : call[i] = "over" => call'[i] = "over"
        BY <2>5, <2>6
      <3> QED  BY <2>1, <2>2, <2>5, <2>6, <3>1, <3>2 DEF Ordered
    <2>11. Apart'
      BY <2>1, <2>6, FewerApart
    <2> QED  BY <2>7, <2>8, <2>9, <2>10, <2>11 DEF BatchInv
  <1> QED  BY <1>1, <1>2

\* A call chosen is over, or allowed, or chosen again later; what is looked at was not started.
LEMMA CheckKeepsBatch ==
    ASSUME BatchInv, X!Check PROVE BatchInv'
  <1>1. CASE token
    BY <1>1, BatchMoves DEF X!Check
  <1>2. CASE ~token
    <2>1. /\ CallsTyped /\ CallsFit /\ ResultsTrue /\ Ordered /\ Apart
          /\ phase = "check" /\ phase' = "check" /\ X!In({"chosen"}) # {}
          /\ UNCHANGED <<number, effects, recorded, ran, running>>
      BY <1>2 DEF X!Check, BatchInv
    <2>2. X!Calls' = X!Calls
      BY <2>1, SameMessage
    <2>3. X!In({"chosen"}) \in SUBSET X!Calls
      BY DEF X!In
    <2>4. X!Min(X!In({"chosen"})) \in X!In({"chosen"})
      BY <2>1, <2>3, FirstCall
    <2>5. PICK i : i = X!Min(X!In({"chosen"}))
      OBVIOUS
    <2>6. i \in X!Calls /\ call[i] = "chosen"
      BY <2>4, <2>5 DEF X!In
    <2>7. \/ X!RefuseForBudget(i) \/ X!Reject(i) \/ X!Intercept(i) \/ X!Allow(i)
      BY <1>2, <2>5 DEF X!Check
    <2>8. /\ call' \in [X!Calls -> {"pending", "chosen", "allowed", "over"}]
          /\ call'[i] \in {"over", "allowed"}
          /\ \A j \in X!Calls \ {i} : call'[j] \in {call[j], "pending"}
                                      /\ (call'[j] # call[j] => call[j] = "chosen")
          /\ \/ result' = result
             \/ result' = [result EXCEPT ![i] = "blocked"] /\ call'[i] = "over"
      <3>1. \A j \in X!Calls : call[j] \in {"pending", "chosen", "allowed", "over"}
        BY <2>1 DEF CallsFit
      <3>2. call \in [X!Calls -> {"pending", "chosen", "allowed", "over"}]
        BY <2>1, <3>1 DEF CallsTyped
      <3>3. CASE X!RefuseForBudget(i)
        BY <2>6, <3>2, <3>3 DEF X!RefuseForBudget
      <3>4. CASE X!Reject(i)
        BY <2>6, <3>2, <3>4 DEF X!Reject, X!Over
      <3>5. CASE X!Intercept(i)
        BY <2>6, <3>2, <3>5 DEF X!Intercept, X!Over
      <3>6. CASE X!Allow(i)
        BY <2>6, <3>2, <3>6 DEF X!Allow
      <3> QED  BY <2>7, <3>3, <3>4, <3>5, <3>6
    <2>9. \A j \in X!Calls : result'[j] = result[j] \/ (j = i /\ result'[j] = "blocked" /\ call'[j] = "over")
      BY <2>1, <2>8 DEF CallsTyped
    <2>10. CallsTyped'
      <3>1. result' \in [X!Calls -> {"none", "own", "error", "blocked"}]
        BY <2>1, <2>8 DEF CallsTyped
      <3> QED  BY <2>1, <2>2, <2>8, <3>1 DEF CallsTyped
    <2>11. CallsFit'
      BY <2>1, <2>2, <2>6, <2>8 DEF CallsFit
    <2>12. i \notin ran
      BY <2>1, <2>6 DEF ResultsTrue
    <2>13. ResultsTrue'
      BY <2>1, <2>2, <2>6, <2>8, <2>9, <2>12 DEF ResultsTrue
    <2>14. Ordered'
      BY <2>1, <2>6, <2>8, OrderKept
    <2>15. Apart'
      BY <2>1, <2>8, FewerApart
    <2> QED  BY <2>10, <2>11, <2>13, <2>14, <2>15 DEF BatchInv
  <1> QED  BY <1>1, <1>2

\* A control tool runs in the thread of the executor, the others are queued.
LEMMA StartKeepsBatch ==
    ASSUME BatchInv, X!Start PROVE BatchInv'
  <1>1. /\ CallsTyped /\ CallsFit /\ ResultsTrue /\ Ordered /\ Apart
        /\ phase = "start" /\ X!In({"allowed"}) # {}
        /\ UNCHANGED <<number, effects, result, recorded, running>>
    BY DEF X!Start, BatchInv
  <1>2. X!In({"allowed"}) \in SUBSET X!Calls
    BY DEF X!In
  <1>3. X!Min(X!In({"allowed"})) \in X!In({"allowed"})
    BY <1>1, <1>2, FirstCall
  <1>4. PICK i : i = X!Min(X!In({"allowed"}))
    OBVIOUS
  <1>5. i \in X!Calls /\ call[i] = "allowed"
    BY <1>3, <1>4 DEF X!In
  <1>6. \/ call' = [call EXCEPT ![i] = "queued"] /\ UNCHANGED <<ran, phase>>
        \/ /\ \E end \in {"returned", "raised"} : call' = [call EXCEPT ![i] = end]
           /\ ran' = ran \union {i} /\ UNCHANGED phase
        \/ X!Broken /\ UNCHANGED ran
    BY <1>4 DEF X!Start
  <1>7. CASE X!Broken /\ UNCHANGED ran
    BY <1>1, <1>7, BatchMoves
  <1>8. CASE \/ call' = [call EXCEPT ![i] = "queued"] /\ UNCHANGED <<ran, phase>>
             \/ /\ \E end \in {"returned", "raised"} : call' = [call EXCEPT ![i] = end]
                /\ ran' = ran \union {i} /\ UNCHANGED phase
    <2>1. X!Calls' = X!Calls
      BY <1>1, SameMessage
    <2>2. PICK end \in {"queued", "returned", "raised"} :
             /\ call' = [call EXCEPT ![i] = end] /\ UNCHANGED phase
             /\ IF end = "queued" THEN ran' = ran ELSE ran' = ran \union {i}
      BY <1>8
    <2>3. \A j \in X!Calls : call'[j] = IF j = i THEN end ELSE call[j]
      BY <1>1, <2>2 DEF CallsTyped
    <2>4. CallsTyped'
      BY <1>1, <1>5, <2>1, <2>2 DEF CallsTyped
    <2>5. CallsFit'
      BY <1>1, <1>5, <2>1, <2>2, <2>3 DEF CallsFit
    <2>6. ResultsTrue'
      BY <1>1, <1>5, <2>1, <2>2, <2>3 DEF ResultsTrue
    <2>7. Ordered'
      BY <1>1, <1>5, <2>2, <2>3, OrderKept
    <2>8. Apart'
      BY <1>1, <1>5, <2>2, <2>3, FewerApart
    <2> QED  BY <2>4, <2>5, <2>6, <2>7, <2>8 DEF BatchInv
  <1> QED  BY <1>6, <1>7, <1>8

\* A call starts when nothing that runs conflicts with it.
LEMMA AcquireKeepsBatch ==
    ASSUME BatchInv, NEW i \in X!Calls, X!Acquire(i) PROVE BatchInv'
  <1>1. /\ CallsTyped /\ CallsFit /\ ResultsTrue /\ Ordered /\ Apart
        /\ call[i] = "queued"
        /\ UNCHANGED <<phase, number, effects, result, recorded, running>>
    BY DEF X!Acquire, BatchInv, X!In
  <1>2. X!Calls' = X!Calls
    BY <1>1, SameMessage
  <1>3. PICK end \in {"active", "raised"} :
           /\ call' = [call EXCEPT ![i] = end]
           /\ IF end = "active" THEN ran' = ran \union {i} ELSE ran' = ran
           /\ end = "active" =>
                 \A e \in X!Held : ~X!SetsConflict(X!ClaimsOf(effects[i]), X!ClaimsOf(e))
    BY DEF X!Acquire
  <1>4. \A j \in X!Calls : call'[j] = IF j = i THEN end ELSE call[j]
    BY <1>1, <1>3 DEF CallsTyped
  <1>5. CallsTyped'
    BY <1>1, <1>2, <1>3 DEF CallsTyped
  <1>6. CallsFit'
    <2>1. phase \in {"start", "wait"} /\ phase' = phase
      BY <1>1 DEF CallsFit, CallsTyped
    <2> QED  BY <1>1, <1>2, <1>3, <1>4, <2>1 DEF CallsFit
  <1>7. ResultsTrue'
    BY <1>1, <1>2, <1>3, <1>4 DEF ResultsTrue
  <1>8. Ordered'
    BY <1>1, <1>3, <1>4, OrderKept
  <1>9. Apart'
    <2>1. CASE end = "raised"
      BY <1>1, <1>4, <2>1, FewerApart
    <2>2. CASE end = "active"
      <3>1. \A old \in running : ~X!SetsConflict(X!ClaimsOf(effects[i]), X!ClaimsOf(old[3]))
        BY <1>3, <2>2 DEF X!Held
      <3>2. \A j \in X!Calls : call[j] = "active" =>
               /\ ~X!SetsConflict(X!ClaimsOf(effects[i]), X!ClaimsOf(effects[j]))
               /\ ~X!SetsConflict(X!ClaimsOf(effects[j]), X!ClaimsOf(effects[i]))
        BY <1>3, <2>2, ConflictsAreMutual DEF X!Held, X!In
      <3> QED  BY <1>1, <1>2, <1>4, <3>1, <3>2 DEF Apart
    <2> QED  BY <2>1, <2>2
  <1> QED  BY <1>5, <1>6, <1>7, <1>8, <1>9 DEF BatchInv

\* A tool ends, and the executor takes what it brought.
LEMMA FinishKeepsBatch ==
    ASSUME BatchInv, NEW i \in X!Calls, X!Finish(i) \/ X!Collect(i) PROVE BatchInv'
  <1>1. /\ CallsTyped /\ CallsFit /\ ResultsTrue /\ Ordered /\ Apart
        /\ call[i] \in {"active", "returned", "raised"}
        /\ UNCHANGED <<phase, number, effects, recorded, ran, running>>
    BY DEF X!Finish, X!Collect, BatchInv, X!In
  <1>2. X!Calls' = X!Calls
    BY <1>1, SameMessage
  <1>3. PICK end \in {"returned", "raised", "over"} :
           /\ call' = [call EXCEPT ![i] = end]
           /\ end = "over" => phase = "wait" /\ call[i] # "active"
           /\ end # "over" => call[i] = "active"
    <2>1. CASE X!Finish(i)
      BY <2>1 DEF X!Finish, X!In
    <2>2. CASE X!Collect(i)
      BY <2>2 DEF X!Collect, X!Over, X!In
    <2> QED  BY <2>1, <2>2
  <1>4. \A j \in X!Calls : call'[j] = IF j = i THEN end ELSE call[j]
    BY <1>1, <1>3 DEF CallsTyped
  <1>5. \/ result' = result
        \/ /\ end = "over"
           /\ \/ result' = [result EXCEPT ![i] = "own"] /\ call[i] = "returned"
              \/ result' = [result EXCEPT ![i] = "error"]
    <2>1. CASE X!Finish(i)
      BY <2>1 DEF X!Finish
    <2>2. CASE X!Collect(i)
      <3>1. call'[i] = "over"
        BY <1>1, <2>2 DEF X!Collect, X!Over, CallsTyped
      <3>2. end = "over"
        BY <1>4, <3>1
      <3> QED  BY <2>2, <3>2 DEF X!Collect, X!Over
    <2> QED  BY <2>1, <2>2
  <1>6. \A j \in X!Calls : \/ result'[j] = result[j]
                           \/ j = i /\ result'[j] = "error"
                           \/ j = i /\ result'[j] = "own" /\ call[i] = "returned"
    BY <1>1, <1>5 DEF CallsTyped
  <1>7. CallsTyped'
    BY <1>1, <1>2, <1>3, <1>5 DEF CallsTyped
  <1>8. CallsFit'
    <2>1. phase \in {"start", "wait", "settle", "repair"} /\ phase' = phase
      BY <1>1 DEF CallsFit, CallsTyped
    <2> QED  BY <1>1, <1>2, <1>3, <1>4, <2>1 DEF CallsFit
  <1>9. ResultsTrue'
    BY <1>1, <1>2, <1>3, <1>4, <1>6 DEF ResultsTrue
  <1>10. Ordered'
    BY <1>1, <1>3, <1>4, OrderKept
  <1>11. Apart'
    BY <1>1, <1>3, <1>4, FewerApart
  <1> QED  BY <1>7, <1>8, <1>9, <1>10, <1>11 DEF BatchInv

\* Recording, and what only moves the executor.
LEMMA RecordKeepsBatch ==
    ASSUME BatchInv, X!Record PROVE BatchInv'
  <1>1. CASE X!Broken /\ UNCHANGED recorded
    BY <1>1, BatchMoves DEF X!Record
  <1>2. CASE ~(X!Broken /\ UNCHANGED recorded)
    <2>1. /\ X!Buffered /\ recorded' = recorded + 1
          /\ UNCHANGED <<phase, call, number, effects, result, ran, running>>
      BY <1>2 DEF X!Record
    <2>2. CallsTyped /\ CallsFit /\ ResultsTrue /\ Ordered /\ Apart
      BY DEF BatchInv
    <2>3. X!Calls' = X!Calls
      BY <2>1, SameMessage
    <2>4. CallsTyped'
      BY <2>1, <2>2, <2>3 DEF CallsTyped, X!Buffered
    <2>5. CallsFit'
      <3>1. X!Calls \subseteq Nat /\ recorded \in Nat
        BY <2>2, CallsAreNumbers DEF CallsTyped
      <3>2. \A i \in X!Calls : i <= recorded + 1 => call[i] = "over"
        BY <2>1, <2>2, <3>1 DEF CallsFit, X!Buffered
      <3> QED  BY <2>1, <2>2, <2>3, <3>2 DEF CallsFit
    <2>6. ResultsTrue'
      BY <2>1, <2>2, <2>3 DEF ResultsTrue
    <2>7. Ordered'
      BY <2>1, <2>2, OrderKept
    <2>8. Apart'
      BY <2>1, <2>2, FewerApart
    <2> QED  BY <2>4, <2>5, <2>6, <2>7, <2>8 DEF BatchInv
  <1> QED  BY <1>1, <1>2

\* The calls that will not run are answered.
LEMMA RecordedKeepsBatch ==
    ASSUME BatchInv, X!Recorded PROVE BatchInv'
  <1>1. /\ CallsTyped /\ CallsFit /\ ResultsTrue /\ Ordered /\ Apart
        /\ phase = "record" /\ phase' \in {"plan", "record"}
        /\ UNCHANGED <<number, effects, recorded, ran, running>>
    BY DEF X!Recorded, BatchInv
  <1>2. X!Calls' = X!Calls
    BY <1>1, SameMessage
  <1>3. \/ UNCHANGED <<call, result>>
        \/ /\ call' = [i \in X!Calls |-> IF call[i] = "pending" THEN "over" ELSE call[i]]
           /\ result' = [i \in X!Calls |-> IF call[i] = "pending" THEN "blocked" ELSE result[i]]
    BY DEF X!Recorded
  <1>4. \A i \in X!Calls :
           \/ call'[i] = call[i] /\ result'[i] = result[i]
           \/ call[i] = "pending" /\ call'[i] = "over" /\ result'[i] = "blocked"
    BY <1>3
  <1>5. CallsTyped'
    BY <1>1, <1>2, <1>3 DEF CallsTyped
  <1>6. CallsFit'
    BY <1>1, <1>2, <1>4 DEF CallsFit
  <1>7. ResultsTrue'
    BY <1>1, <1>2, <1>4 DEF ResultsTrue
  <1>8. Ordered'
    BY <1>1, <1>4, OrderKept
  <1>9. Apart'
    BY <1>1, <1>4, FewerApart
  <1> QED  BY <1>5, <1>6, <1>7, <1>8, <1>9 DEF BatchInv

\* What finished before the message was given up keeps its result.
LEMMA SalvageKeepsBatch ==
    ASSUME BatchInv, X!Salvage PROVE BatchInv'
  <1>1. /\ CallsTyped /\ CallsFit /\ ResultsTrue /\ Ordered /\ Apart
        /\ phase = "settle" /\ phase' = "repair"
        /\ UNCHANGED <<number, effects, call, recorded, ran, running>>
    BY DEF X!Salvage, BatchInv
  <1>2. X!Calls' = X!Calls
    BY <1>1, SameMessage
  <1>3. PICK raised \in SUBSET (X!In({"raised"}) \intersect ran) :
           result' = [i \in X!Calls |-> IF result[i] = "none" /\ (call[i] = "returned" \/ i \in raised)
                                         THEN "own" ELSE result[i]]
    BY DEF X!Salvage
  <1>4. \A i \in X!Calls :
           \/ result'[i] = result[i]
           \/ result'[i] = "own" /\ (call[i] = "returned" \/ i \in ran)
    BY <1>3
  <1>5. CallsTyped'
    BY <1>1, <1>2, <1>3 DEF CallsTyped
  <1>6. CallsFit'
    BY <1>1, <1>2 DEF CallsFit
  <1>7. ResultsTrue'
    BY <1>1, <1>2, <1>4 DEF ResultsTrue
  <1>8. Ordered'
    BY <1>1, OrderKept
  <1>9. Apart'
    BY <1>1, FewerApart
  <1> QED  BY <1>5, <1>6, <1>7, <1>8, <1>9 DEF BatchInv

\* All calls of a message that was given up are over for the next one; those that run on are
\* kept apart from its calls by the resources they hold.
LEMMA RepairKeepsBatch ==
    ASSUME BatchInv, X!Repair PROVE BatchInv'
  <1>1. /\ CallsTyped /\ CallsFit /\ ResultsTrue /\ Ordered /\ Apart
        /\ phase' = "idle" /\ call' = [i \in X!Calls |-> "over"]
        /\ UNCHANGED <<number, effects, result, recorded, ran>>
    BY DEF X!Repair, X!GiveUp, BatchInv
  <1>2. X!Calls' = X!Calls
    BY <1>1, SameMessage
  <1>3. \A i \in X!Calls : call'[i] = "over"
    BY <1>1
  <1>4. CallsTyped'
    BY <1>1, <1>2 DEF CallsTyped
  <1>5. CallsFit'
    BY <1>1, <1>2, <1>3 DEF CallsFit
  <1>6. ResultsTrue'
    BY <1>1, <1>2, <1>3 DEF ResultsTrue
  <1>7. Ordered'
    BY <1>1, <1>3, OrderKept
  <1>8. Apart'
    BY <1>2, <1>3 DEF Apart
  <1> QED  BY <1>4, <1>5, <1>6, <1>7, <1>8 DEF BatchInv

\* Steps that move the executor only, and those of the calls that outlived their message.
LEMMA WaitKeepsBatch ==
    ASSUME BatchInv,
           \/ X!Checked \/ X!Started \/ X!GroupDone \/ X!End \/ X!FinishLeft \/ X!Cancel
           \/ UNCHANGED X!vars
    PROVE  BatchInv'
  <1>1. /\ CallsTyped /\ CallsFit /\ ResultsTrue /\ Ordered /\ Apart
    BY DEF BatchInv
  <1>2. UNCHANGED <<number, effects, call, result, recorded, ran>> /\ running' \subseteq running
    BY DEF X!Checked, X!Started, X!GroupDone, X!End, X!FinishLeft, X!Cancel, X!vars
  <1>3. X!Calls' = X!Calls
    BY <1>2, SameMessage
  <1>4. /\ phase' \in {"idle", "plan", "check", "start", "wait", "record", "settle", "repair"}
        /\ CallsFit'
    <2>1. CASE X!Checked
      <3>1. \A i \in X!Calls : call[i] \in {"pending", "allowed", "over"}
        BY <1>1, <2>1 DEF X!Checked, X!In, CallsFit
      <3>2. phase' = "record" => \A i \in X!Calls : call[i] # "allowed"
        BY <2>1 DEF X!Checked, X!In
      <3>3. phase' \in {"record", "start"}
        BY <2>1 DEF X!Checked
      <3> QED  BY <1>1, <1>2, <1>3, <3>1, <3>2, <3>3 DEF CallsFit
    <2>2. CASE X!Started
      <3>1. /\ phase' = "wait" /\ phase = "start"
            /\ \A i \in X!Calls : call[i] # "allowed"
        BY <2>2 DEF X!Started, X!In
      <3> QED  BY <1>1, <1>2, <1>3, <3>1 DEF CallsFit
    <2>3. CASE X!GroupDone
      <3>1. /\ phase' = "record" /\ phase = "wait"
            /\ \A i \in X!Calls : call[i] \notin {"queued", "active", "returned", "raised"}
        BY <2>3 DEF X!GroupDone, X!In
      <3> QED  BY <1>1, <1>2, <1>3, <3>1 DEF CallsFit
    <2>4. CASE X!End
      <3>1. phase' = "idle" /\ recorded = Len(effects)
        BY <2>4 DEF X!End
      <3>2. \A i \in X!Calls : i <= recorded
        BY <1>1, <3>1, CallsAreNumbers
      <3> QED  BY <1>1, <1>2, <1>3, <3>1, <3>2 DEF CallsFit
    <2>5. CASE X!FinishLeft \/ X!Cancel \/ UNCHANGED X!vars
      <3>1. phase' = phase
        BY <2>5 DEF X!FinishLeft, X!Cancel, X!vars
      <3> QED  BY <1>1, <1>2, <1>3, <3>1 DEF CallsFit, CallsTyped
    <2> QED  BY <2>1, <2>2, <2>3, <2>4, <2>5
  <1>5. CallsTyped'
    BY <1>1, <1>2, <1>3, <1>4 DEF CallsTyped
  <1>6. ResultsTrue'
    BY <1>1, <1>2, <1>3 DEF ResultsTrue
  <1>7. Ordered'
    BY <1>1, <1>2, OrderKept
  <1>8. Apart'
    BY <1>1, <1>2, FewerApart
  <1> QED  BY <1>4, <1>5, <1>6, <1>7, <1>8 DEF BatchInv

LEMMA BatchInductive == BatchInv /\ [X!Next]_(X!vars) => BatchInv'
  <1>1. ASSUME BatchInv, X!ExecutorSteps PROVE BatchInv'
    <2>1. CASE X!Interrupt
      BY <1>1, <2>1, BatchMoves DEF X!Interrupt
    <2>2. CASE \E i \in X!Calls : X!Collect(i)
      BY <1>1, <2>2, FinishKeepsBatch
    <2>3. CASE X!Choose \/ X!Check \/ X!Start
      BY <1>1, <2>3, ChooseKeepsBatch, CheckKeepsBatch, StartKeepsBatch
    <2>4. CASE X!Checked \/ X!Started \/ X!GroupDone \/ X!End
      BY <1>1, <2>4, WaitKeepsBatch
    <2>5. CASE X!Record \/ X!Recorded \/ X!Salvage \/ X!Repair
      BY <1>1, <2>5, RecordKeepsBatch, RecordedKeepsBatch, SalvageKeepsBatch, RepairKeepsBatch
    <2> QED  BY <1>1, <2>1, <2>2, <2>3, <2>4, <2>5 DEF X!ExecutorSteps
  <1>2. ASSUME BatchInv, NEW n \in 1 .. 3, NEW chosen \in [1 .. n -> X!Effects], X!Begin(chosen)
        PROVE  BatchInv'
    BY <1>2, BeginKeepsBatch
  <1>3. ASSUME BatchInv, NEW i \in X!Calls, X!Acquire(i) \/ X!Finish(i) PROVE BatchInv'
    BY <1>3, AcquireKeepsBatch, FinishKeepsBatch
  <1>4. ASSUME BatchInv, X!Cancel \/ X!FinishLeft \/ UNCHANGED X!vars PROVE BatchInv'
    BY <1>4, WaitKeepsBatch
  <1> QED  BY <1>1, <1>2, <1>3, <1>4 DEF X!Next

\* Of the invariant: calls that conflict keep their order.
LEMMA BatchFollowed == BatchInv => X!ConflictsKeepOrder
  <1> SUFFICES ASSUME BatchInv, NEW i \in X!In({"active"}) PROVE
           /\ \A old \in running : ~X!SetsConflict(X!ClaimsOf(effects[i]), X!ClaimsOf(old[3]))
           /\ \A j \in X!Calls \ {i} : X!SetsConflict(X!ClaimsOf(effects[i]), X!ClaimsOf(effects[j])) =>
                 call[j] # "active" /\ (j > i => j \notin ran)
    BY DEF X!ConflictsKeepOrder
  <1>1. i \in X!Calls /\ call[i] = "active" /\ CallsTyped /\ Ordered /\ Apart
    BY DEF BatchInv, X!In
  <1>2. ASSUME NEW j \in X!Calls \ {i}, j > i, j \in ran,
               X!SetsConflict(X!ClaimsOf(effects[i]), X!ClaimsOf(effects[j]))
        PROVE  FALSE
    <2>1. X!SetsConflict(X!ClaimsOf(effects[j]), X!ClaimsOf(effects[i]))
      BY <1>2, ConflictsAreMutual
    <2>2. i \in 1 .. j - 1
      BY <1>1, <1>2, CallsAreNumbers
    <2>3. i \in X!Dependencies(j)
      BY <2>1, <2>2 DEF X!Dependencies
    <2> QED  BY <1>1, <1>2, <2>3 DEF Ordered
  <1> QED  BY <1>1, <1>2 DEF Apart

\* Calls that conflict never run together, not even with those of an earlier message that were
\* given up, and within a message they run in its order (ExecutionPlanner, ResourceCoordinator).
THEOREM OrderIsKept == X!Spec => []X!ConflictsKeepOrder
  <1>1. X!Init => BatchInv
    BY BatchInitially
  <1>2. BatchInv /\ [X!Next]_(X!vars) => BatchInv'
    BY BatchInductive
  <1>3. BatchInv => X!ConflictsKeepOrder
    BY BatchFollowed
  <1> QED  BY <1>1, <1>2, <1>3, PTL DEF X!Spec

-----------------------------------------------------------------------------
(* The messages of the calls.                                               *)

\* Ids and messages of the history.
Ids == Nat \X Nat
Entry ==
    {<<"user">>} \union ({"assistant"} \X Seq(Ids))
    \union ({"tool"} \X Ids \X {"none", "own", "error", "blocked", "cancelled"})

\* Up to the k-th message each call has its tool message, and each tool message its call.
Settled(ms, k) ==
    \A p \in 1 .. k :
        /\ ms[p][1] = "assistant" =>
              \A i \in DOMAIN ms[p][2] : p + i <= k /\ ms[p + i][1] = "tool" /\ ms[p + i][2] = ms[p][2][i]
        /\ ms[p][1] = "tool" => \E a \in 1 .. p - 1 : ms[a][1] = "assistant" /\ p - a <= Len(ms[a][2])

\* The tool messages among the first k are of messages before the n-th.
Earlier(ms, k, n) ==
    \A p \in 1 .. k : ms[p][1] = "tool" => \E m \in 1 .. n - 1, i \in Nat : ms[p][2] = <<m, i>>

\* Where the message at hand is in the history while it is worked on, and its answers after it.
Base == Len(messages) - recorded
AtHand ==
    /\ number >= 1
    /\ Base \in 1 .. Len(messages) /\ messages[Base] = <<"assistant", [i \in X!Calls |-> <<number, i>>]>>
    /\ \A i \in 1 .. recorded : messages[Base + i] = <<"tool", <<number, i>>, result[i]>>

HistoryInv ==
    /\ messages \in Seq(Entry)
    /\ phase # "idle" => AtHand /\ Settled(messages, Base - 1) /\ Earlier(messages, Base - 1, number)
    /\ phase = "idle" =>
          /\ Settled(messages, Len(messages)) /\ Earlier(messages, Len(messages), number + 1)
          /\ X!AnswersAreTrue

\* The messages that are there stay as they are.
LEMMA SettledStays ==
    ASSUME NEW ms, NEW new, NEW k \in Nat, Settled(ms, k), ms \in Seq(Entry), k <= Len(ms),
           \A p \in 1 .. k : new[p] = ms[p]
    PROVE  Settled(new, k)
  <1> SUFFICES ASSUME NEW p \in 1 .. k PROVE
           /\ ms[p][1] = "assistant" =>
                 \A i \in DOMAIN ms[p][2] : p + i <= k /\ new[p + i][1] = "tool" /\ new[p + i][2] = ms[p][2][i]
           /\ ms[p][1] = "tool" => \E a \in 1 .. p - 1 : new[a][1] = "assistant" /\ p - a <= Len(new[a][2])
    BY DEF Settled
  <1>1. ASSUME ms[p][1] = "assistant", NEW i \in DOMAIN ms[p][2]
        PROVE  p + i <= k /\ new[p + i][1] = "tool" /\ new[p + i][2] = ms[p][2][i]
    <2>1. p + i <= k /\ ms[p + i][1] = "tool" /\ ms[p + i][2] = ms[p][2][i]
      BY <1>1 DEF Settled
    <2>2. ms[p] \in Entry
      OBVIOUS
    <2>3. ms[p][2] \in Seq(Ids)
      BY <1>1, <2>2 DEF Entry
    <2>4. i \in Nat /\ i >= 1
      BY <2>3
    <2>5. p + i \in 1 .. k
      BY <2>1, <2>4
    <2> QED  BY <2>1, <2>5
  <1>2. ASSUME ms[p][1] = "tool"
        PROVE  \E a \in 1 .. p - 1 : new[a][1] = "assistant" /\ p - a <= Len(new[a][2])
    <2>1. PICK a \in 1 .. p - 1 : ms[a][1] = "assistant" /\ p - a <= Len(ms[a][2])
      BY <1>2 DEF Settled
    <2>2. a \in 1 .. k
      OBVIOUS
    <2> QED  BY <2>1, <2>2
  <1> QED  BY <1>1, <1>2

\* A message with all its answers is settled, and so is a message of the user.
LEMMA SettledGroup ==
    ASSUME NEW ms, NEW b \in Nat \ {0}, NEW ids \in Seq(Ids), Settled(ms, b - 1),
           ms[b] = <<"assistant", ids>>,
           \A i \in 1 .. Len(ids) : ms[b + i][1] = "tool" /\ ms[b + i][2] = ids[i],
           \A p \in 1 .. b - 1 : ms[p] \in Entry
    PROVE  Settled(ms, b + Len(ids))
  <1>1. Len(ids) \in Nat /\ DOMAIN ids = 1 .. Len(ids)
    OBVIOUS
  <1> SUFFICES ASSUME NEW p \in 1 .. b + Len(ids) PROVE
           /\ ms[p][1] = "assistant" =>
                 \A i \in DOMAIN ms[p][2] :
                     p + i <= b + Len(ids) /\ ms[p + i][1] = "tool" /\ ms[p + i][2] = ms[p][2][i]
           /\ ms[p][1] = "tool" => \E a \in 1 .. p - 1 : ms[a][1] = "assistant" /\ p - a <= Len(ms[a][2])
    BY DEF Settled
  <1>2. CASE p < b
    <2>1. p \in 1 .. b - 1
      BY <1>2
    <2>2. ASSUME ms[p][1] = "assistant", NEW i \in DOMAIN ms[p][2]
          PROVE  p + i <= b + Len(ids) /\ ms[p + i][1] = "tool" /\ ms[p + i][2] = ms[p][2][i]
      <3>1. p + i <= b - 1 /\ ms[p + i][1] = "tool" /\ ms[p + i][2] = ms[p][2][i]
        BY <2>1, <2>2 DEF Settled
      <3>2. ms[p][2] \in Seq(Ids)
        BY <2>1, <2>2 DEF Entry
      <3>3. i \in Nat
        BY <2>2, <3>2
      <3> QED  BY <1>1, <3>1, <3>3
    <2>3. ASSUME ms[p][1] = "tool"
          PROVE  \E a \in 1 .. p - 1 : ms[a][1] = "assistant" /\ p - a <= Len(ms[a][2])
      BY <2>1, <2>3 DEF Settled
    <2> QED  BY <2>2, <2>3
  <1>3. CASE p = b
    <2>1. ms[p][1] = "assistant" /\ ms[p][2] = ids
      BY <1>3
    <2> QED  BY <1>1, <1>3, <2>1
  <1>4. CASE p > b
    <2>1. p - b \in 1 .. Len(ids) /\ b + (p - b) = p
      BY <1>1, <1>4
    <2>2. ms[p][1] = "tool"
      BY <2>1
    <2>3. ms[b][1] = "assistant" /\ ms[b][2] = ids /\ b \in 1 .. p - 1
      BY <1>4
    <2> QED  BY <2>1, <2>2, <2>3
  <1> QED  BY <1>2, <1>3, <1>4

LEMMA SettledUser ==
    ASSUME NEW ms, NEW k \in Nat, Settled(ms, k), ms[k + 1] = <<"user">>,
           \A p \in 1 .. k : ms[p] \in Entry
    PROVE  Settled(ms, k + 1)
  <1> SUFFICES ASSUME NEW p \in 1 .. k + 1 PROVE
           /\ ms[p][1] = "assistant" =>
                 \A i \in DOMAIN ms[p][2] : p + i <= k + 1 /\ ms[p + i][1] = "tool" /\ ms[p + i][2] = ms[p][2][i]
           /\ ms[p][1] = "tool" => \E a \in 1 .. p - 1 : ms[a][1] = "assistant" /\ p - a <= Len(ms[a][2])
    BY DEF Settled
  <1>1. CASE p = k + 1
    BY <1>1
  <1>2. CASE p \in 1 .. k
    <2>1. ASSUME ms[p][1] = "assistant", NEW i \in DOMAIN ms[p][2]
          PROVE  p + i <= k + 1 /\ ms[p + i][1] = "tool" /\ ms[p + i][2] = ms[p][2][i]
      <3>1. p + i <= k /\ ms[p + i][1] = "tool" /\ ms[p + i][2] = ms[p][2][i]
        BY <1>2, <2>1 DEF Settled
      <3>2. ms[p][2] \in Seq(Ids)
        BY <1>2, <2>1 DEF Entry
      <3>3. i \in Nat
        BY <2>1, <3>2
      <3> QED  BY <3>1, <3>3
    <2>2. ASSUME ms[p][1] = "tool"
          PROVE  \E a \in 1 .. p - 1 : ms[a][1] = "assistant" /\ p - a <= Len(ms[a][2])
      BY <1>2, <2>2 DEF Settled
    <2> QED  BY <2>1, <2>2
  <1> QED  BY <1>1, <1>2

\* The message at hand is the one before the answers recorded.
LEMMA BaseIsThere ==
    ASSUME CallsTyped, messages \in Seq(Entry), AtHand
    PROVE  Base \in Nat \ {0} /\ Len(messages) = Base + recorded /\ Len(messages) \in Nat
  <1>1. Len(messages) \in Nat /\ recorded \in Nat /\ Base \in 1 .. Len(messages)
    BY CallsAreNumbers DEF AtHand, CallsTyped
  <1> QED  BY <1>1 DEF Base

\* The calls without an answer are those that were not recorded.
LEMMA OrphansAreLast ==
    ASSUME FreshIds, CallsTyped, messages \in Seq(Entry), AtHand, Earlier(messages, Base - 1, number)
    PROVE  X!Orphans = recorded + 1 .. Len(effects)
  <1>1. X!Calls = 1 .. Len(effects) /\ Len(effects) \in Nat /\ recorded \in 0 .. Len(effects) /\ number \in Nat
    BY CallsAreNumbers DEF CallsTyped
  <1>2. PICK b : b = Base
    OBVIOUS
  <1>3. b \in Nat \ {0} /\ Len(messages) = b + recorded /\ Len(messages) \in Nat /\ DOMAIN messages = 1 .. Len(messages)
    BY <1>1, <1>2 DEF AtHand, Base
  <1>4. /\ messages[b] = <<"assistant", [i \in X!Calls |-> <<number, i>>]>>
        /\ \A i \in 1 .. recorded : messages[b + i] = <<"tool", <<number, i>>, result[i]>>
    BY <1>2 DEF AtHand
  <1>5. ASSUME NEW i \in 1 .. recorded PROVE <<number, i>> \in X!AnsweredIds
    <2>1. b + i \in DOMAIN messages /\ messages[b + i][1] = "tool" /\ messages[b + i][2] = <<number, i>>
      BY <1>1, <1>3, <1>4
    <2> QED  BY <2>1 DEF X!AnsweredIds
  <1>6. ASSUME NEW i \in X!Calls, <<number, i>> \in X!AnsweredIds PROVE i <= recorded
    <2>1. PICK p \in DOMAIN messages : messages[p][1] = "tool" /\ messages[p][2] = <<number, i>>
      BY <1>6 DEF X!AnsweredIds
    <2>2. p \in 1 .. b + recorded
      BY <1>3
    <2>3. CASE p < b
      <3>1. p \in 1 .. b - 1
        BY <1>3, <2>2, <2>3
      <3>2. \E m \in 1 .. number - 1, k \in Nat : messages[p][2] = <<m, k>>
        BY <1>2, <2>1, <3>1 DEF Earlier
      <3>3. PICK m \in 1 .. number - 1, k \in Nat : <<number, i>> = <<m, k>>
        BY <2>1, <3>2
      <3> QED  BY <1>1, <3>3
    <2>4. CASE p = b
      BY <1>4, <2>1, <2>4
    <2>5. CASE p > b
      <3>1. PICK k \in 1 .. recorded : p = b + k
        <4>1. p - b \in 1 .. recorded /\ p = b + (p - b)
          BY <1>1, <1>3, <2>2, <2>5
        <4> QED  BY <4>1
      <3>2. <<number, i>> = <<number, k>>
        BY <1>4, <2>1, <3>1
      <3> QED  BY <1>1, <3>1, <3>2
    <2> QED  BY <1>3, <2>2, <2>3, <2>4, <2>5
  <1>7. \A i \in X!Calls : X!Id(number, i) = <<number, i>>
    BY DEF X!Id
  <1>8. \A i \in X!Calls : <<number, i>> \in X!AnsweredIds <=> i \in 1 .. recorded
    BY <1>1, <1>5, <1>6
  <1> QED  BY <1>1, <1>7, <1>8 DEF X!Orphans

\* Counting calls is counting.
LEMMA SameCount ==
    ASSUME NEW S PROVE X!Cardinality(S) = Cardinality(S)
  BY DEF X!Cardinality, Cardinality

\* The k-th of the calls after the r-th.
LEMMA NthOfLast ==
    ASSUME NEW r \in Nat, NEW n \in Nat, r <= n, NEW k \in 1 .. n - r
    PROVE  X!Nth(r + 1 .. n, k) = r + k
  <1>1. ASSUME NEW i \in r + 1 .. n PROVE X!Cardinality({j \in r + 1 .. n : j <= i}) = i - r
    <2>1. {j \in r + 1 .. n : j <= i} = r + 1 .. i
      OBVIOUS
    <2>2. \A c, d \in Int : Cardinality(c .. d) = IF c > d THEN 0 ELSE d - c + 1
      BY FS_Interval
    <2>3. Cardinality(r + 1 .. i) = i - r
      BY <2>2
    <2> QED  BY <2>1, <2>3, SameCount
  <1>2. r + k \in r + 1 .. n
    OBVIOUS
  <1>3. \A i \in r + 1 .. n : X!Cardinality({j \in r + 1 .. n : j <= i}) = k <=> i = r + k
    BY <1>1
  <1> DEFINE Low(i) == X!Cardinality({j \in r + 1 .. n : j <= i})
  <1>4. X!Nth(r + 1 .. n, k) = CHOOSE i \in r + 1 .. n : Low(i) = k
    BY Zenon DEF X!Nth
  <1>5. \A i \in r + 1 .. n : Low(i) = k <=> i = r + k
    BY <1>3, Zenon
  <1> HIDE DEF Low
  <1>6. \E i \in r + 1 .. n : Low(i) = k
    BY <1>2, <1>5
  <1> DEFINE choice == CHOOSE i \in r + 1 .. n : Low(i) = k
  <1>7. choice \in r + 1 .. n /\ Low(choice) = k
    BY <1>6, Zenon
  <1>8. X!Nth(r + 1 .. n, k) = choice
    BY <1>4, Zenon
  <1> HIDE DEF choice
  <1> QED  BY <1>5, <1>7, <1>8

LEMMA CountOfLast ==
    ASSUME NEW r \in Nat, NEW n \in Nat, r <= n
    PROVE  X!Cardinality(r + 1 .. n) = n - r
  <1>1. \A c, d \in Int : Cardinality(c .. d) = IF c > d THEN 0 ELSE d - c + 1
    BY FS_Interval
  <1>2. r + 1 \in Int /\ n \in Int
    OBVIOUS
  <1>3. Cardinality(r + 1 .. n) = IF r + 1 > n THEN 0 ELSE n - (r + 1) + 1
    BY <1>1, <1>2, Zenon
  <1>4. Cardinality(r + 1 .. n) = n - r
    BY <1>3
  <1> QED  BY <1>4, SameCount

\* When every call of the message at hand has its answer after it, the history is settled again.
LEMMA GroupIsAnswered ==
    ASSUME BatchInv, messages \in Seq(Entry), AtHand, Settled(messages, Base - 1),
           Earlier(messages, Base - 1, number),
           NEW new \in Seq(Entry), NEW b, b = Base, b + Len(effects) <= Len(new),
           \A p \in 1 .. b : new[p] = messages[p],
           \A i \in X!Calls : \E answer \in {result[i], "cancelled"} :
               new[b + i] = <<"tool", <<number, i>>, answer>>
    PROVE  /\ Settled(new, b + Len(effects)) /\ Earlier(new, b + Len(effects), number + 1)
           /\ \A p \in 1 .. b + Len(effects) : \A i \in X!Calls :
                 new[p][1] = "tool" /\ new[p][2] = <<number, i>> =>
                     /\ new[p][3] = "blocked" => i \notin ran
                     /\ new[p][3] = "own" => i \in ran
  <1> DEFINE ids == [i \in X!Calls |-> <<number, i>>]
  <1>1. /\ X!Calls = 1 .. Len(effects) /\ Len(effects) \in Nat /\ number \in Nat
        /\ recorded \in 0 .. Len(effects)
    BY CallsAreNumbers DEF BatchInv, CallsTyped
  <1>2. /\ b \in Nat \ {0} /\ b <= Len(messages) /\ Len(messages) \in Nat /\ messages[b] = <<"assistant", ids>>
    BY DEF AtHand, Base
  <1>3. ids \in Seq(Ids) /\ Len(ids) = Len(effects) /\ \A i \in X!Calls : ids[i] = <<number, i>>
    BY <1>1 DEF Ids
  <1> HIDE DEF ids
  <1>4. Settled(new, b + Len(effects))
    <2>1. \A p \in 1 .. b - 1 : new[p] = messages[p]
      BY <1>2
    <2>2. Settled(new, b - 1)
      BY <1>2, <2>1, SettledStays
    <2>3. new[b] = <<"assistant", ids>>
      BY <1>2
    <2>4. ASSUME NEW i \in 1 .. Len(ids) PROVE new[b + i][1] = "tool" /\ new[b + i][2] = ids[i]
      <3>1. i \in X!Calls
        BY <1>1, <1>3
      <3>2. PICK answer \in {result[i], "cancelled"} : new[b + i] = <<"tool", <<number, i>>, answer>>
        BY <3>1
      <3> QED  BY <1>3, <3>1, <3>2
    <2>5. \A p \in 1 .. b - 1 : new[p] \in Entry
      BY <1>1, <1>2
    <2>6. Settled(new, b + Len(ids))
      BY <1>2, <1>3, <2>2, <2>3, <2>4, <2>5, SettledGroup
    <2> QED  BY <1>3, <2>6
  <1>5. ASSUME NEW p \in 1 .. b + Len(effects), new[p][1] = "tool"
        PROVE  \/ \E m \in 1 .. number - 1, i \in Nat : new[p][2] = <<m, i>>
               \/ \E i \in X!Calls : \E answer \in {result[i], "cancelled"} :
                     new[p] = <<"tool", <<number, i>>, answer>>
    <2>1. CASE p < b
      <3>1. p \in 1 .. b - 1 /\ new[p] = messages[p]
        BY <1>2, <2>1
      <3> QED  BY <1>5, <3>1 DEF Earlier
    <2>2. CASE p = b
      BY <1>2, <1>5, <2>2
    <2>3. CASE p > b
      <3>1. p - b \in X!Calls /\ b + (p - b) = p
        BY <1>1, <1>2, <2>3
      <3> QED  BY <3>1
    <2> QED  BY <1>1, <1>2, <2>1, <2>2, <2>3
  <1>6. Earlier(new, b + Len(effects), number + 1)
    <2> SUFFICES ASSUME NEW p \in 1 .. b + Len(effects), new[p][1] = "tool"
                 PROVE  \E m \in 1 .. number, i \in Nat : new[p][2] = <<m, i>>
      BY <1>1 DEF Earlier
    <2>1. CASE \E m \in 1 .. number - 1, i \in Nat : new[p][2] = <<m, i>>
      BY <1>1, <2>1
    <2>2. CASE \E i \in X!Calls : \E answer \in {result[i], "cancelled"} :
                     new[p] = <<"tool", <<number, i>>, answer>>
      <3>1. number >= 1
        BY DEF AtHand
      <3> QED  BY <1>1, <2>2, <3>1
    <2> QED  BY <1>5, <2>1, <2>2
  <1>7. ASSUME NEW p \in 1 .. b + Len(effects), NEW i \in X!Calls,
               new[p][1] = "tool", new[p][2] = <<number, i>>
        PROVE  /\ new[p][3] = "blocked" => i \notin ran
               /\ new[p][3] = "own" => i \in ran
    <2>1. PICK answer \in {result[i], "cancelled"} : new[p] = <<"tool", <<number, i>>, answer>>
      <3>1. ~ \E m \in 1 .. number - 1, k \in Nat : new[p][2] = <<m, k>>
        BY <1>1, <1>7
      <3>2. PICK k \in X!Calls : \E answer \in {result[k], "cancelled"} :
                     new[p] = <<"tool", <<number, k>>, answer>>
        BY <1>5, <1>7, <3>1
      <3>3. k = i
        BY <1>1, <1>7, <3>2
      <3> QED  BY <3>2, <3>3
    <2> QED  BY <2>1 DEF BatchInv, ResultsTrue
  <1> QED  BY <1>4, <1>6, <1>7

LEMMA HistoryInitially == X!Init => HistoryInv
  BY DEF X!Init, HistoryInv, Settled, Earlier, X!AnswersAreTrue, X!Calls

\* A message with calls is appended to a settled history.
LEMMA BeginKeepsHistory ==
    ASSUME FreshIds, BatchInv, HistoryInv, NEW n \in 1 .. 3, NEW chosen \in [1 .. n -> X!Effects],
           X!Begin(chosen)
    PROVE  HistoryInv'
  <1>1. /\ phase = "idle" /\ phase' = "plan" /\ number' = number + 1 /\ effects' = chosen /\ recorded' = 0
        /\ messages' = Append(messages, <<"assistant", [i \in DOMAIN chosen |-> X!Id(number + 1, i)]>>)
    BY DEF X!Begin
  <1>2. X!Calls' = 1 .. n /\ DOMAIN chosen = 1 .. n /\ number \in Nat /\ n \in Nat
    BY <1>1 DEF X!Calls, BatchInv, CallsTyped
  <1>3. PICK ids : ids = [i \in 1 .. n |-> <<number + 1, i>>]
    OBVIOUS
  <1>4. ids \in Seq(Ids) /\ [i \in DOMAIN chosen |-> X!Id(number + 1, i)] = ids
    <2>1. \A i \in 1 .. n : X!Id(number + 1, i) = <<number + 1, i>> /\ <<number + 1, i>> \in Ids
      BY <1>2 DEF X!Id, Ids
    <2> QED  BY <1>2, <1>3, <2>1
  <1>5. /\ messages \in Seq(Entry) /\ Settled(messages, Len(messages))
        /\ Earlier(messages, Len(messages), number + 1)
    BY <1>1 DEF HistoryInv
  <1>6. PICK entry : entry = <<"assistant", ids>>
    OBVIOUS
  <1>7. entry \in Entry
    BY <1>4, <1>6 DEF Entry
  <1>8. /\ messages' \in Seq(Entry) /\ Len(messages') = Len(messages) + 1 /\ Len(messages) \in Nat
        /\ messages'[Len(messages) + 1] = entry
        /\ \A p \in 1 .. Len(messages) : messages'[p] = messages[p]
    <2>1. messages' = Append(messages, entry)
      BY <1>1, <1>4, <1>6, Zenon
    <2> QED  BY <1>5, <1>7, <2>1
  <1>9. Base' = Len(messages) + 1 /\ Base' - 1 = Len(messages)
    BY <1>1, <1>8 DEF Base
  <1>10. AtHand'
    BY <1>1, <1>2, <1>3, <1>6, <1>8, <1>9 DEF AtHand
  <1>11. Settled(messages', Len(messages))
    BY <1>5, <1>8, SettledStays
  <1>12. Earlier(messages', Len(messages), number + 1)
    BY <1>5, <1>8 DEF Earlier
  <1> QED  BY <1>1, <1>8, <1>9, <1>10, <1>11, <1>12 DEF HistoryInv

\* While the message is worked on only its answers are appended, and those given stay.
LEMMA WorkKeepsHistory ==
    ASSUME BatchInv, HistoryInv, phase # "idle", phase' # "idle",
           UNCHANGED <<messages, number, effects, recorded>>,
           \A i \in X!Calls : call[i] = "over" => result'[i] = result[i]
    PROVE  HistoryInv'
  <1>1. /\ messages \in Seq(Entry) /\ AtHand /\ Settled(messages, Base - 1)
        /\ Earlier(messages, Base - 1, number)
    BY DEF HistoryInv
  <1>2. Base' = Base /\ X!Calls' = X!Calls
    BY SameMessage DEF Base
  <1>3. \A i \in 1 .. recorded : result'[i] = result[i]
    <2>1. \A i \in 1 .. recorded : i \in X!Calls /\ i <= recorded
      BY CallsAreNumbers DEF BatchInv, CallsTyped
    <2> QED  BY <2>1 DEF BatchInv, CallsFit
  <1>4. AtHand'
    BY <1>1, <1>2, <1>3 DEF AtHand
  <1> QED  BY <1>1, <1>2, <1>4 DEF HistoryInv

\* Between messages nothing changes that the history speaks of.
LEMMA RestKeepsHistory ==
    ASSUME HistoryInv, phase' = phase,
           UNCHANGED <<messages, number, effects, recorded, result, ran>>
    PROVE  HistoryInv'
  <1>1. Base' = Base /\ X!Calls' = X!Calls /\ (AtHand' <=> AtHand)
    BY DEF Base, AtHand, X!Calls
  <1>2. X!AnswersAreTrue' <=> X!AnswersAreTrue
    BY <1>1 DEF X!AnswersAreTrue, X!Id
  <1> QED  BY <1>1, <1>2 DEF HistoryInv

LEMMA RecordKeepsHistory ==
    ASSUME FreshIds, BatchInv, HistoryInv, X!Record PROVE HistoryInv'
  <1>1. CASE X!Broken /\ UNCHANGED <<messages, recorded>>
    BY <1>1, WorkKeepsHistory DEF X!Record, X!Broken
  <1>2. CASE ~(X!Broken /\ UNCHANGED <<messages, recorded>>)
    <2>1. /\ X!Buffered /\ recorded' = recorded + 1 /\ messages' = X!Answered(recorded + 1)
          /\ phase = "record" /\ phase' = phase /\ UNCHANGED <<number, effects, result>>
      BY <1>2 DEF X!Record
    <2>2. /\ messages \in Seq(Entry) /\ AtHand /\ Settled(messages, Base - 1)
          /\ Earlier(messages, Base - 1, number)
      BY <2>1 DEF HistoryInv
    <2>3. /\ X!Calls = 1 .. Len(effects) /\ recorded \in Nat /\ recorded + 1 \in X!Calls /\ number \in Nat
          /\ result \in [X!Calls -> {"none", "own", "error", "blocked"}] /\ Len(effects) \in Nat
          /\ recorded <= Len(effects)
      BY <2>1, CallsAreNumbers DEF BatchInv, CallsTyped, X!Buffered
    <2>4. PICK entry : entry = <<"tool", <<number, recorded + 1>>, result[recorded + 1]>>
      OBVIOUS
    <2>5. entry \in Entry /\ messages' = Append(messages, entry)
      <3>1. <<number, recorded + 1>> \in Ids /\ result[recorded + 1] \in {"none", "own", "error", "blocked"}
        BY <2>3 DEF Ids
      <3>2. entry \in Entry
        BY <2>4, <3>1 DEF Entry
      <3>3. X!Id(number, recorded + 1) = <<number, recorded + 1>>
        BY DEF X!Id
      <3> QED  BY <2>1, <2>4, <3>2, <3>3 DEF X!Answered
    <2>6. /\ messages' \in Seq(Entry) /\ Len(messages') = Len(messages) + 1 /\ Len(messages) \in Nat
          /\ messages'[Len(messages) + 1] = entry
          /\ \A p \in 1 .. Len(messages) : messages'[p] = messages[p]
      BY <2>2, <2>5
    <2>7. PICK b : b = Base
      OBVIOUS
    <2>8. Base' = b /\ b \in Nat \ {0} /\ Len(messages) = b + recorded
      BY <2>1, <2>2, <2>3, <2>6, <2>7 DEF Base, AtHand
    <2>9. X!Calls' = X!Calls
      BY <2>1, SameMessage
    <2>10. AtHand'
      <3>1. /\ messages[b] = <<"assistant", [i \in X!Calls |-> <<number, i>>]>>
            /\ \A i \in 1 .. recorded : messages[b + i] = <<"tool", <<number, i>>, result[i]>>
            /\ number >= 1
        BY <2>2, <2>7 DEF AtHand
      <3>2. messages'[b] = messages[b] /\ b \in 1 .. Len(messages')
        BY <2>3, <2>6, <2>8
      <3>3. ASSUME NEW i \in 1 .. recorded + 1
            PROVE  messages'[b + i] = <<"tool", <<number, i>>, result[i]>>
        <4>1. CASE i = recorded + 1
          <5>1. b + i = Len(messages) + 1
            BY <2>3, <2>8, <4>1
          <5> QED  BY <2>4, <2>6, <4>1, <5>1
        <4>2. CASE i \in 1 .. recorded
          <5>1. b + i \in 1 .. Len(messages)
            BY <2>3, <2>8, <4>2
          <5> QED  BY <2>6, <3>1, <4>2, <5>1
        <4> QED  BY <2>3, <4>1, <4>2
      <3>4. messages'[Base'] = <<"assistant", [i \in X!Calls' |-> <<number', i>>]>>
        <4>1. messages'[Base'] = <<"assistant", [i \in X!Calls |-> <<number, i>>]>>
          BY <2>8, <3>1, <3>2, Zenon
        <4>2. number' = number
          BY <2>1
        <4> QED  BY <2>9, <4>1, <4>2
      <3>5. \A i \in 1 .. recorded' : messages'[Base' + i] = <<"tool", <<number', i>>, result'[i]>>
        BY <2>1, <2>8, <3>3
      <3>6. number' >= 1 /\ Base' \in 1 .. Len(messages')
        BY <2>1, <2>8, <3>1, <3>2
      <3>7. (messages[Base] = <<"assistant", [i \in X!Calls |-> <<number, i>>]>>)'
        BY <3>4
      <3>8. (\A i \in 1 .. recorded : messages[Base + i] = <<"tool", <<number, i>>, result[i]>>)'
        BY <3>5
      <3>9. (number >= 1 /\ Base \in 1 .. Len(messages))'
        BY <3>6
      <3> QED  BY <3>7, <3>8, <3>9 DEF AtHand
    <2>11. Settled(messages', b - 1)
      <3>1. b - 1 \in Nat /\ b - 1 <= Len(messages) /\ \A p \in 1 .. b - 1 : messages'[p] = messages[p]
        BY <2>3, <2>6, <2>8
      <3> QED  BY <2>2, <2>7, <3>1, SettledStays
    <2>12. Earlier(messages', b - 1, number)
      <3>1. \A p \in 1 .. b - 1 : messages'[p] = messages[p]
        BY <2>3, <2>6, <2>8
      <3> QED  BY <2>2, <2>7, <3>1 DEF Earlier
    <2> QED  BY <2>1, <2>6, <2>8, <2>10, <2>11, <2>12 DEF HistoryInv
  <1> QED  BY <1>1, <1>2

\* The last answer was recorded; what was deferred follows it.
LEMMA EndKeepsHistory ==
    ASSUME FreshIds, BatchInv, HistoryInv, X!End PROVE HistoryInv'
  <1>1. /\ phase = "record" /\ recorded = Len(effects) /\ phase' = "idle"
        /\ messages' \in {messages, Append(messages, <<"user">>)}
        /\ UNCHANGED <<number, effects, call, result, recorded, ran>>
    BY DEF X!End
  <1>2. /\ messages \in Seq(Entry) /\ AtHand /\ Settled(messages, Base - 1)
        /\ Earlier(messages, Base - 1, number)
    BY <1>1 DEF HistoryInv
  <1>3. X!Calls = 1 .. Len(effects) /\ Len(effects) \in Nat /\ X!Calls' = X!Calls /\ number \in Nat
    BY <1>1, CallsAreNumbers, SameMessage DEF BatchInv, CallsTyped
  <1>4. PICK b : b = Base
    OBVIOUS
  <1>5. b \in Nat \ {0} /\ Len(messages) = b + Len(effects) /\ Len(messages) \in Nat
    BY <1>1, <1>2, <1>3, <1>4 DEF Base, AtHand
  <1>6. \A i \in X!Calls : \E answer \in {result[i], "cancelled"} :
           messages[b + i] = <<"tool", <<number, i>>, answer>>
    BY <1>1, <1>2, <1>3, <1>4 DEF AtHand
  <1>7. /\ Settled(messages, Len(messages)) /\ Earlier(messages, Len(messages), number + 1)
        /\ \A p \in 1 .. Len(messages) : \A i \in X!Calls :
              messages[p][1] = "tool" /\ messages[p][2] = <<number, i>> =>
                  /\ messages[p][3] = "blocked" => i \notin ran
                  /\ messages[p][3] = "own" => i \in ran
    BY <1>2, <1>4, <1>5, <1>6, GroupIsAnswered
  <1>8. PICK new : new = messages'
    OBVIOUS
  <1>9. /\ new \in Seq(Entry) /\ Settled(new, Len(new)) /\ Earlier(new, Len(new), number + 1)
        /\ \A p \in 1 .. Len(new) : \A i \in X!Calls :
              new[p][1] = "tool" /\ new[p][2] = <<number, i>> =>
                  /\ new[p][3] = "blocked" => i \notin ran
                  /\ new[p][3] = "own" => i \in ran
    <2>1. CASE new = messages
      BY <1>2, <1>7, <2>1
    <2>2. CASE new = Append(messages, <<"user">>)
      <3>1. <<"user">> \in Entry
        BY DEF Entry
      <3>2. /\ new \in Seq(Entry) /\ Len(new) = Len(messages) + 1 /\ new[Len(messages) + 1] = <<"user">>
            /\ \A p \in 1 .. Len(messages) : new[p] = messages[p]
        BY <1>2, <1>5, <2>2, <3>1
      <3>3. Settled(new, Len(messages))
        BY <1>2, <1>5, <1>7, <3>2, SettledStays
      <3>4. \A p \in 1 .. Len(messages) : new[p] \in Entry
        BY <1>2, <1>5, <3>2
      <3>5. Settled(new, Len(messages) + 1)
        BY <1>5, <3>2, <3>3, <3>4, SettledUser
      <3>6. <<"user">>[1] # "tool"
        OBVIOUS
      <3>7. \A p \in 1 .. Len(new) : new[p][1] = "tool" => p \in 1 .. Len(messages) /\ new[p] = messages[p]
        BY <1>5, <3>2, <3>6
      <3>8. Earlier(new, Len(new), number + 1)
        BY <1>7, <3>7 DEF Earlier
      <3>9. \A p \in 1 .. Len(new) : \A i \in X!Calls :
               new[p][1] = "tool" /\ new[p][2] = <<number, i>> =>
                   /\ new[p][3] = "blocked" => i \notin ran
                   /\ new[p][3] = "own" => i \in ran
        BY <1>7, <3>7
      <3> QED  BY <3>2, <3>5, <3>8, <3>9
    <2> QED  BY <1>1, <1>8, <2>1, <2>2
  <1>10. X!AnswersAreTrue'
    <2>1. DOMAIN new = 1 .. Len(new)
      BY <1>9
    <2> QED  BY <1>1, <1>3, <1>8, <1>9, <2>1 DEF X!AnswersAreTrue, X!Id
  <1> QED  BY <1>1, <1>8, <1>9, <1>10 DEF HistoryInv

LEMMA JoinedHistories ==
    ASSUME NEW S, NEW s \in Seq(S), NEW t \in Seq(S)
    PROVE  /\ s \o t \in Seq(S) /\ Len(s \o t) = Len(s) + Len(t)
           /\ \A p \in 1 .. Len(s) : (s \o t)[p] = s[p]
           /\ \A k \in 1 .. Len(t) : (s \o t)[Len(s) + k] = t[k]
  OBVIOUS

\* A message that was given up: its calls without an answer are answered in their order.
LEMMA RepairKeepsHistory ==
    ASSUME FreshIds, BatchInv, HistoryInv, X!Repair PROVE HistoryInv'
  <1>1. /\ phase = "repair" /\ phase' = "idle" /\ messages' = messages \o X!Repaired(X!Orphans)
        /\ UNCHANGED <<number, effects, result, recorded, ran>>
    BY DEF X!Repair, X!GiveUp
  <1>2. /\ messages \in Seq(Entry) /\ AtHand /\ Settled(messages, Base - 1)
        /\ Earlier(messages, Base - 1, number)
    BY <1>1 DEF HistoryInv
  <1>3. /\ X!Calls = 1 .. Len(effects) /\ Len(effects) \in Nat /\ X!Calls' = X!Calls /\ number \in Nat
        /\ recorded \in Nat /\ recorded <= Len(effects)
        /\ result \in [X!Calls -> {"none", "own", "error", "blocked"}]
    BY <1>1, CallsAreNumbers, SameMessage DEF BatchInv, CallsTyped
  <1>4. PICK b : b = Base
    OBVIOUS
  <1>5. b \in Nat \ {0} /\ Len(messages) = b + recorded /\ Len(messages) \in Nat
    BY <1>2, <1>4, BaseIsThere DEF BatchInv
  <1> DEFINE n == Len(effects) - recorded
             rest == X!Repaired(X!Orphans)
  <1>6. n = Len(effects) - recorded /\ rest = X!Repaired(X!Orphans)
    OBVIOUS
  <1> HIDE DEF n, rest
  <1>7. n \in Nat
    BY <1>3, <1>6
  <1>8. /\ X!Orphans = recorded + 1 .. Len(effects) /\ X!Cardinality(X!Orphans) = n
        /\ \A k \in 1 .. n : X!Nth(X!Orphans, k) = recorded + k
    <2>1. X!Orphans = recorded + 1 .. Len(effects)
      BY <1>2, OrphansAreLast DEF BatchInv
    <2>2. X!Cardinality(X!Orphans) = n
      BY <1>3, <1>6, <2>1, CountOfLast
    <2>3. \A k \in 1 .. n : X!Nth(X!Orphans, k) = recorded + k
      BY <1>3, <1>6, <2>1, NthOfLast
    <2> QED  BY <2>1, <2>2, <2>3
  <1>9. /\ rest = [k \in 1 .. n |-> <<"tool", <<number, recorded + k>>,
                       IF result[recorded + k] = "none" THEN "cancelled" ELSE result[recorded + k]>>]
    <2>1. rest = [k \in 1 .. n |-> LET i == X!Nth(X!Orphans, k) IN
                    <<"tool", X!Id(number, i), IF result[i] = "none" THEN "cancelled" ELSE result[i]>>]
      BY <1>6, <1>8 DEF X!Repaired
    <2>2. \A i : X!Id(number, i) = <<number, i>>
      BY DEF X!Id
    <2> QED  BY <1>8, <2>1, <2>2
  <1>10. \A k \in 1 .. n : rest[k] \in Entry /\ recorded + k \in X!Calls
    <2> SUFFICES ASSUME NEW k \in 1 .. n PROVE rest[k] \in Entry /\ recorded + k \in X!Calls
      OBVIOUS
    <2>1. recorded + k \in X!Calls /\ recorded + k \in Nat
      BY <1>3, <1>6
    <2>2. <<number, recorded + k>> \in Ids
      BY <1>3, <2>1 DEF Ids
    <2>3. PICK answer \in {"none", "own", "error", "blocked", "cancelled"} :
             rest[k] = <<"tool", <<number, recorded + k>>, answer>>
      BY <1>3, <1>9, <2>1
    <2>4. rest[k] \in {"tool"} \X Ids \X {"none", "own", "error", "blocked", "cancelled"}
      BY <2>2, <2>3
    <2> QED  BY <2>1, <2>4 DEF Entry
  <1>11. rest \in Seq(Entry) /\ Len(rest) = n
    <2>1. rest \in [1 .. n -> Entry]
      BY <1>9, <1>10
    <2> QED  BY <1>7, <2>1
  <1>12. PICK new : new = messages'
    OBVIOUS
  <1>13. /\ new \in Seq(Entry) /\ Len(new) = b + Len(effects)
         /\ \A p \in 1 .. Len(messages) : new[p] = messages[p]
         /\ \A k \in 1 .. n : new[Len(messages) + k] = rest[k]
    <2>1. new = messages \o rest
      BY <1>1, <1>6, <1>12
    <2>2. /\ messages \o rest \in Seq(Entry) /\ Len(messages \o rest) = Len(messages) + Len(rest)
          /\ \A p \in 1 .. Len(messages) : (messages \o rest)[p] = messages[p]
          /\ \A k \in 1 .. Len(rest) : (messages \o rest)[Len(messages) + k] = rest[k]
      <3>1. rest \in Seq(Entry) /\ messages \in Seq(Entry)
        BY <1>2, <1>11
      <3> HIDE DEF rest, n
      <3> QED  BY <3>1, JoinedHistories
    <2>3. /\ new \in Seq(Entry) /\ Len(new) = Len(messages) + Len(rest)
          /\ \A p \in 1 .. Len(messages) : new[p] = messages[p]
          /\ \A k \in 1 .. Len(rest) : new[Len(messages) + k] = rest[k]
      BY <2>1, <2>2, Zenon
    <2>4. Len(new) = b + Len(effects)
      BY <1>3, <1>5, <1>6, <1>11, <2>3
    <2> QED  BY <1>11, <2>3, <2>4, Zenon
  <1>14. \A i \in X!Calls : \E answer \in {result[i], "cancelled"} :
            new[b + i] = <<"tool", <<number, i>>, answer>>
    <2> SUFFICES ASSUME NEW i \in X!Calls
                 PROVE  \E answer \in {result[i], "cancelled"} : new[b + i] = <<"tool", <<number, i>>, answer>>
      OBVIOUS
    <2>1. CASE i <= recorded
      <3>1. i \in 1 .. recorded /\ b + i \in 1 .. Len(messages)
        BY <1>3, <1>5, <2>1
      <3>2. messages[b + i] = <<"tool", <<number, i>>, result[i]>>
        BY <1>2, <1>4, <3>1 DEF AtHand
      <3> QED  BY <1>13, <3>1, <3>2
    <2>2. CASE i > recorded
      <3>1. PICK k \in 1 .. n : i = recorded + k /\ b + i = Len(messages) + k
        <4>1. i - recorded \in 1 .. n /\ i = recorded + (i - recorded)
              /\ b + i = Len(messages) + (i - recorded)
          BY <1>3, <1>5, <1>6, <2>2
        <4> QED  BY <4>1
      <3>2. new[b + i] = rest[k]
        BY <1>13, <3>1
      <3>3. rest[k] = <<"tool", <<number, i>>, IF result[i] = "none" THEN "cancelled" ELSE result[i]>>
        BY <1>9, <3>1
      <3> QED  BY <3>2, <3>3
    <2> QED  BY <1>3, <2>1, <2>2
  <1>15. /\ Settled(new, Len(new)) /\ Earlier(new, Len(new), number + 1)
         /\ \A p \in 1 .. Len(new) : \A i \in X!Calls :
               new[p][1] = "tool" /\ new[p][2] = <<number, i>> =>
                   /\ new[p][3] = "blocked" => i \notin ran
                   /\ new[p][3] = "own" => i \in ran
    <2>1. \A p \in 1 .. b : new[p] = messages[p]
      BY <1>3, <1>5, <1>13
    <2>2. b + Len(effects) <= Len(new)
      BY <1>3, <1>5, <1>13
    <2> QED  BY <1>2, <1>4, <1>13, <1>14, <2>1, <2>2, GroupIsAnswered
  <1>16. X!AnswersAreTrue'
    <2>1. DOMAIN new = 1 .. Len(new)
      BY <1>13
    <2> QED  BY <1>1, <1>3, <1>12, <1>15, <2>1 DEF X!AnswersAreTrue, X!Id
  <1> QED  BY <1>1, <1>12, <1>13, <1>15, <1>16 DEF HistoryInv

LEMMA HistoryInductive ==
    ASSUME FreshIds PROVE BatchInv /\ HistoryInv /\ [X!Next]_(X!vars) => HistoryInv'
  <1>1. ASSUME BatchInv, HistoryInv, X!ExecutorSteps PROVE HistoryInv'
    <2>1. CASE X!Record \/ X!End \/ X!Repair
      BY <1>1, <2>1, RecordKeepsHistory, EndKeepsHistory, RepairKeepsHistory
    <2>2. CASE \/ X!Choose \/ X!Checked \/ X!Start \/ X!Started \/ X!Interrupt \/ X!GroupDone
      <3>1. /\ phase # "idle" /\ phase' # "idle"
            /\ UNCHANGED <<messages, number, effects, recorded, result>>
        BY <2>2 DEF X!Choose, X!Checked, X!Start, X!Started, X!Interrupt, X!GroupDone, X!Broken
      <3> QED  BY <1>1, <3>1, WorkKeepsHistory
    <2>3. CASE X!Check
      <3>1. /\ phase = "check" /\ phase' \in {"check", "settle"}
            /\ UNCHANGED <<messages, number, effects, recorded>>
        BY <2>3 DEF X!Check, X!Broken
      <3>2. X!Min(X!In({"chosen"})) \in X!In({"chosen"})
        <4>1. X!In({"chosen"}) # {} /\ X!In({"chosen"}) \in SUBSET X!Calls
          BY <2>3 DEF X!Check, X!In
        <4> QED  BY <1>1, <4>1, FirstCall DEF BatchInv
      <3>3. PICK i : i = X!Min(X!In({"chosen"}))
        OBVIOUS
      <3>4. call[i] = "chosen"
        BY <3>2, <3>3 DEF X!In
      <3>5. result' = result \/ result' = [result EXCEPT ![i] = "blocked"]
        BY <2>3, <3>3 DEF X!Check, X!RefuseForBudget, X!Reject, X!Intercept, X!Allow, X!Over
      <3>6. \A j \in X!Calls : call[j] = "over" => result'[j] = result[j]
        BY <1>1, <3>4, <3>5 DEF BatchInv, CallsTyped
      <3> QED  BY <1>1, <3>1, <3>6, WorkKeepsHistory
    <2>4. CASE \E i \in X!Calls : X!Collect(i)
      <3>1. PICK i \in X!Calls : X!Collect(i)
        BY <2>4
      <3>2. /\ phase = "wait" /\ phase' = phase /\ call[i] # "over"
            /\ UNCHANGED <<messages, number, effects, recorded>>
            /\ \E answer : result' = [result EXCEPT ![i] = answer]
        BY <3>1 DEF X!Collect, X!Over, X!In
      <3>3. \A j \in X!Calls : call[j] = "over" => result'[j] = result[j]
        BY <1>1, <3>2 DEF BatchInv, CallsTyped
      <3> QED  BY <1>1, <3>2, <3>3, WorkKeepsHistory
    <2>5. CASE X!Recorded
      <3>1. /\ phase = "record" /\ phase' \in {"plan", "record"}
            /\ UNCHANGED <<messages, number, effects, recorded>>
        BY <2>5 DEF X!Recorded
      <3>2. \/ result' = result
            \/ result' = [i \in X!Calls |-> IF call[i] = "pending" THEN "blocked" ELSE result[i]]
        BY <2>5 DEF X!Recorded
      <3>3. \A j \in X!Calls : call[j] = "over" => result'[j] = result[j]
        BY <3>2
      <3> QED  BY <1>1, <3>1, <3>3, WorkKeepsHistory
    <2>6. CASE X!Salvage
      <3>1. /\ phase = "settle" /\ phase' = "repair"
            /\ UNCHANGED <<messages, number, effects, recorded>>
        BY <2>6 DEF X!Salvage
      <3>2. PICK heeded \in SUBSET (X!In({"raised"}) \intersect ran) :
               result' = [i \in X!Calls |-> IF result[i] = "none" /\ (call[i] = "returned" \/ i \in heeded)
                                             THEN "own" ELSE result[i]]
        BY <2>6 DEF X!Salvage
      <3>3. \A j \in X!Calls : call[j] = "over" => j \notin heeded /\ result'[j] = result[j]
        BY <3>2 DEF X!In
      <3> QED  BY <1>1, <3>1, <3>3, WorkKeepsHistory
    <2> QED  BY <1>1, <2>1, <2>2, <2>3, <2>4, <2>5, <2>6 DEF X!ExecutorSteps
  <1>2. ASSUME BatchInv, HistoryInv, NEW n \in 1 .. 3, NEW chosen \in [1 .. n -> X!Effects], X!Begin(chosen)
        PROVE  HistoryInv'
    BY <1>2, BeginKeepsHistory
  <1>3. ASSUME BatchInv, HistoryInv, NEW i \in X!Calls, X!Acquire(i) \/ X!Finish(i) PROVE HistoryInv'
    <2>1. /\ UNCHANGED <<phase, messages, number, effects, recorded, result>>
          /\ call[i] # "over"
      BY <1>3 DEF X!Acquire, X!Finish, X!In
    <2>2. phase # "idle"
      BY <1>3, <2>1 DEF BatchInv, CallsFit
    <2> QED  BY <1>3, <2>1, <2>2, WorkKeepsHistory
  <1>4. ASSUME BatchInv, HistoryInv, X!Cancel \/ X!FinishLeft \/ UNCHANGED X!vars PROVE HistoryInv'
    <2>1. UNCHANGED <<phase, messages, number, effects, recorded, result, ran>>
      BY <1>4 DEF X!Cancel, X!FinishLeft, X!vars
    <2> QED  BY <1>4, <2>1, RestKeepsHistory
  <1> QED  BY <1>1, <1>2, <1>3, <1>4 DEF X!Next

\* Of the two invariants: every call is answered, and what its answer says of it is so.
LEMMA HistoryFollowed ==
    ASSUME FreshIds PROVE BatchInv /\ HistoryInv => X!CallsAreAnswered /\ X!AnswersAreTrue
  <1> SUFFICES ASSUME BatchInv, HistoryInv PROVE X!CallsAreAnswered /\ X!AnswersAreTrue
    OBVIOUS
  <1>1. X!CallsAreAnswered
    <2>1. DOMAIN messages = 1 .. Len(messages)
      BY DEF HistoryInv
    <2> QED  BY <2>1 DEF HistoryInv, Settled, X!CallsAreAnswered
  <1>2. X!AnswersAreTrue
    <2>1. CASE phase = "idle"
      BY <2>1 DEF HistoryInv
    <2>2. CASE phase # "idle"
      <3>1. /\ messages \in Seq(Entry) /\ AtHand /\ Earlier(messages, Base - 1, number)
            /\ CallsTyped /\ ResultsTrue
        BY <2>2 DEF HistoryInv, BatchInv
      <3>2. /\ X!Calls = 1 .. Len(effects) /\ Len(effects) \in Nat /\ number \in Nat
            /\ recorded \in 0 .. Len(effects)
        BY <3>1, CallsAreNumbers DEF CallsTyped
      <3>3. PICK b : b = Base
        OBVIOUS
      <3>4. b \in Nat \ {0} /\ Len(messages) = b + recorded /\ DOMAIN messages = 1 .. Len(messages)
        BY <3>1, <3>3, BaseIsThere
      <3>5. ASSUME NEW p \in DOMAIN messages, NEW i \in X!Calls,
                   messages[p][1] = "tool", messages[p][2] = X!Id(number, i)
            PROVE  /\ messages[p][3] = "blocked" => i \notin ran
                   /\ messages[p][3] = "own" => i \in ran
        <4>1. messages[p][2] = <<number, i>>
          BY <3>5 DEF X!Id
        <4>2. CASE p < b
          <5>1. p \in 1 .. Base - 1
            BY <3>3, <3>4, <4>2
          <5>2. PICK m \in 1 .. number - 1, k \in Nat : <<number, i>> = <<m, k>>
            BY <3>1, <3>5, <4>1, <5>1 DEF Earlier
          <5> QED  BY <3>2, <5>2
        <4>3. CASE p = b
          BY <3>1, <3>3, <3>5, <4>3 DEF AtHand
        <4>4. CASE p > b
          <5>1. p - b \in 1 .. recorded /\ p = b + (p - b)
            BY <3>2, <3>4, <4>4
          <5>2. messages[p] = <<"tool", <<number, p - b>>, result[p - b]>>
            BY <3>1, <3>3, <5>1 DEF AtHand
          <5>3. p - b = i
            BY <4>1, <5>2
          <5>4. messages[p][3] = result[i]
            BY <5>2, <5>3
          <5> QED  BY <3>1, <5>4 DEF ResultsTrue
        <4> QED  BY <3>4, <4>2, <4>3, <4>4
      <3> QED  BY <3>5 DEF X!AnswersAreTrue
    <2> QED  BY <2>1, <2>2
  <1> QED  BY <1>1, <1>2

\* The ids that the provider gives are its own: each call of each message is answered, in order and
\* right after its message, and the answers say of a call what became of it (ToolExecutor.execute).
THEOREM AnswersComeBack ==
    ASSUME FreshIds PROVE X!Spec => [](X!CallsAreAnswered /\ X!AnswersAreTrue)
  <1>1. X!Init => BatchInv /\ HistoryInv
    BY BatchInitially, HistoryInitially
  <1>2. BatchInv /\ HistoryInv /\ [X!Next]_(X!vars) => BatchInv' /\ HistoryInv'
    BY BatchInductive, HistoryInductive
  <1>3. BatchInv /\ HistoryInv => X!CallsAreAnswered /\ X!AnswersAreTrue
    BY HistoryFollowed
  <1> QED  BY <1>1, <1>2, <1>3, PTL DEF X!Spec

-----------------------------------------------------------------------------
(* The tools that the model is shown (ToolDisclosure), for any tools.       *)

ShownTyped ==
    /\ offered \in [Deferred -> 0..2] /\ registry \in [Deferred -> 0..2] /\ shown \in [Deferred -> 0..2]
    /\ signature \in [Deferred -> 0..2]
    /\ discovered \subseteq Deferred /\ revealed \subseteq Deferred /\ found \subseteq Deferred
    /\ overtaken \subseteq discovered
    /\ places \in [main : {"rest", "turn", "registered", "search", "found"}, sub : {"rest", "registered"}]
    /\ places.main # "found" => found = {}

\* A query that is remembered, and whose result was not dropped, found what it matched in the catalog
\* it is remembered for: it was discovered, or is about to be shown.
SearchesFound ==
    \A query \in queries \ dropped : \A t \in query :
        t \in Deferred /\ signature[t] # 0 => t \in discovered \union found

DisclosureInv == ShownTyped /\ D!ShownIsCallable /\ D!DiscoverySurvives /\ SearchesFound

\* What is callable exists.
LEMMA CallableExists ==
    ASSUME NEW names, NEW offers, NEW p
    PROVE  D!CallableOf(names, offers, p) \subseteq names
           /\ \A t \in D!CallableOf(names, offers, p) : offers[t] # 0
  BY DEF D!CallableOf, D!Permits

LEMMA DisclosureInitially == D!Init => DisclosureInv
  <1> SUFFICES ASSUME D!Init PROVE DisclosureInv
    OBVIOUS
  <1>1. D!Absent \in [Deferred -> 0..2] /\ \A t \in Deferred : D!Absent[t] = 0
    BY DEF D!Absent
  <1>2. ShownTyped
    BY <1>1 DEF D!Init, ShownTyped
  <1>3. D!ShownIsCallable /\ SearchesFound
    BY <1>1 DEF D!Init, D!ShownIsCallable, SearchesFound
  <1>4. D!DiscoverySurvives
    BY DEF D!Init, D!DiscoverySurvives, D!CallableOf
  <1> QED  BY <1>2, <1>3, <1>4 DEF DisclosureInv

\* What an agent is shown after its tools were taken anew.
LEMMA RefreshShows ==
    ASSUME NEW names \in SUBSET Deferred, NEW offers \in [Deferred -> 0..2], NEW p,
           D!RefreshAgentToolSchemas(names, offers, p), registry' = offers, profile' = p
    PROVE  /\ D!ShownIsCallable' /\ D!DiscoverySurvives'
           /\ discovered' = names /\ revealed' \subseteq names /\ overtaken' = {}
           /\ shown' \in [Deferred -> 0..2]
  <1> DEFINE callable == D!CallableOf(names, offers, p)
  <1>1. /\ discovered' = names /\ revealed' = callable /\ overtaken' = {}
        /\ shown' = [t \in Deferred |-> IF t \in callable THEN offers[t] ELSE 0]
    BY DEF D!RefreshAgentToolSchemas
  <1>2. callable \subseteq names /\ \A t \in callable : offers[t] # 0 /\ D!Permits(p, offers[t])
    BY DEF D!CallableOf, D!Permits
  <1>3. D!DiscoverySurvives'
    BY <1>1 DEF D!DiscoverySurvives, D!CallableOf
  <1> HIDE DEF callable
  <1>4. D!ShownIsCallable'
    BY <1>1, <1>2 DEF D!ShownIsCallable, D!Permits
  <1> QED  BY <1>1, <1>2, <1>3, <1>4

LEMMA RebuildShows ==
    ASSUME DisclosureInv, D!RebuildMcpState, places.main = "rest",
           places' \in [main : {"rest", "turn"}, sub : {"rest", "registered"}],
           UNCHANGED <<offered, profile, signature, found>>
    PROVE  DisclosureInv'
  <1> DEFINE gone == discovered \ D!Existing(offered)
  <1>1. /\ registry' = offered /\ D!RefreshAgentToolSchemas(discovered \ gone, offered, profile')
        /\ queries' = IF gone = {} THEN queries ELSE {}
        /\ dropped' = dropped \intersect queries'
    BY DEF D!RebuildMcpState
  <1>2. ShownTyped /\ SearchesFound
    BY DEF DisclosureInv
  <1> HIDE DEF gone
  <1>3. discovered \ gone \in SUBSET Deferred /\ offered \in [Deferred -> 0..2] /\ found = {}
    BY <1>2 DEF ShownTyped
  <1>4. /\ D!ShownIsCallable' /\ D!DiscoverySurvives'
        /\ discovered' = discovered \ gone /\ revealed' \subseteq discovered \ gone /\ overtaken' = {}
        /\ shown' \in [Deferred -> 0..2]
    BY <1>1, <1>3, RefreshShows
  <1>5. ShownTyped'
    BY <1>1, <1>2, <1>3, <1>4 DEF ShownTyped
  <1>6. SearchesFound'
    BY <1>1, <1>2, <1>3, <1>4 DEF SearchesFound
  <1> QED  BY <1>4, <1>5, <1>6 DEF DisclosureInv

LEMMA DisclosureInductive == DisclosureInv /\ [D!Next]_(D!vars) => DisclosureInv'
  <1> SUFFICES ASSUME DisclosureInv, [D!Next]_(D!vars) PROVE DisclosureInv'
    OBVIOUS
  <1>1. ShownTyped /\ D!ShownIsCallable /\ D!DiscoverySurvives /\ SearchesFound
    BY DEF DisclosureInv
  <1>2. CASE D!ConnectionChanges
    <2>1. /\ UNCHANGED <<registry, profile, discovered, revealed, shown, queries, signature, places,
                         found, dropped, overtaken>>
          /\ offered' \in [Deferred -> 0..2]
      BY <1>2 DEF D!ConnectionChanges
    <2> QED  BY <1>1, <2>1 DEF DisclosureInv, ShownTyped, D!ShownIsCallable, D!DiscoverySurvives,
                 SearchesFound
  <1>3. CASE D!ServerCommand
    <2>1. /\ D!RebuildMcpState /\ places.main = "rest"
          /\ UNCHANGED <<offered, profile, signature, found, places>>
      BY <1>3 DEF D!ServerCommand, D!Resting
    <2>2. places' \in [main : {"rest", "turn"}, sub : {"rest", "registered"}]
      BY <1>1, <2>1 DEF ShownTyped
    <2> QED  BY <2>1, <2>2, RebuildShows
  <1>4. CASE D!ReloadMcp
    <2>1. /\ offered' \in [Deferred -> 0..2] /\ registry' = offered' /\ profile' = profile
          /\ D!RefreshAgentToolSchemas(discovered, offered', profile)
          /\ UNCHANGED <<queries, signature, places, found, dropped>>
      BY <1>4 DEF D!ReloadMcp
    <2>2. /\ D!ShownIsCallable' /\ D!DiscoverySurvives'
          /\ discovered' = discovered /\ revealed' \subseteq discovered /\ overtaken' = {}
          /\ shown' \in [Deferred -> 0..2]
      <3>1. PICK offers : offers = offered'
        OBVIOUS
      <3> QED  BY <1>1, <2>1, <3>1, RefreshShows DEF ShownTyped
    <2> QED  BY <1>1, <2>1, <2>2 DEF DisclosureInv, ShownTyped, SearchesFound
  <1>5. CASE D!ActivateProfile
    <2>1. /\ D!RefreshAgentToolSchemas(discovered, registry, profile')
          /\ UNCHANGED <<offered, registry, queries, signature, places, found, dropped>>
      BY <1>5 DEF D!ActivateProfile
    <2>2. /\ D!ShownIsCallable' /\ D!DiscoverySurvives'
          /\ discovered' = discovered /\ revealed' \subseteq discovered /\ overtaken' = {}
          /\ shown' \in [Deferred -> 0..2]
      <3>1. PICK p : p = profile'
        OBVIOUS
      <3> QED  BY <1>1, <2>1, <3>1, RefreshShows DEF ShownTyped
    <2> QED  BY <1>1, <2>1, <2>2 DEF DisclosureInv, ShownTyped, SearchesFound
  <1>6. CASE D!TurnStarts
    <2>1. /\ places.main = "rest" /\ UNCHANGED <<offered, profile, signature, found>>
          /\ places' = [places EXCEPT !.main = "turn"]
      BY <1>6 DEF D!TurnStarts, D!Resting, D!Goes
    <2>2. found = {} /\ places' \in [main : {"rest", "turn"}, sub : {"rest", "registered"}]
      BY <1>1, <2>1 DEF ShownTyped
    <2>3. CASE D!RebuildMcpState
      BY <2>1, <2>2, <2>3, RebuildShows
    <2>4. CASE UNCHANGED <<registry, discovered, revealed, shown, queries, dropped, overtaken>>
      BY <1>1, <2>1, <2>2, <2>4 DEF DisclosureInv, ShownTyped, D!ShownIsCallable, D!DiscoverySurvives,
             SearchesFound
    <2> QED  BY <1>6, <2>3, <2>4 DEF D!TurnStarts
  <1>7. CASE D!TurnEnds \/ D!SearchUnknownServer \/ UNCHANGED D!vars
    <2>1. /\ UNCHANGED <<offered, registry, profile, discovered, revealed, shown, queries, signature,
                         found, dropped, overtaken>>
          /\ \/ places' = places
             \/ /\ places.main # "found"
                /\ places' \in {[places EXCEPT !.main = "rest"], [places EXCEPT !.main = "turn"]}
      BY <1>7 DEF D!TurnEnds, D!SearchUnknownServer, D!vars, D!Goes
    <2>2. ShownTyped'
      BY <1>1, <2>1 DEF ShownTyped
    <2> QED  BY <1>1, <2>1, <2>2 DEF DisclosureInv, D!ShownIsCallable, D!DiscoverySurvives,
                 SearchesFound
  <1>8. ASSUME NEW agent \in {"main", "sub"}, D!Discover(agent) PROVE DisclosureInv'
    <2>1. /\ UNCHANGED <<offered, profile, discovered, revealed, shown, queries, signature, found, dropped>>
          /\ registry' = [t \in Deferred |-> IF offered[t] = 0 THEN registry[t] ELSE offered[t]]
          /\ overtaken' = overtaken \union {t \in discovered : registry'[t] # registry[t]}
          /\ places' = [places EXCEPT ![agent] = "registered"]
          /\ agent = "main" => places.main = "turn"
      BY <1>8 DEF D!Discover, D!Goes
    <2>2. places' \in [main : {"rest", "turn", "registered", "search", "found"}, sub : {"rest", "registered"}]
          /\ (places'.main # "found" => places.main # "found")
      BY <1>1, <2>1 DEF ShownTyped
    <2>3. ShownTyped'
      BY <1>1, <2>1, <2>2 DEF ShownTyped
    <2>4. \A t \in discovered \ overtaken' : registry'[t] = registry[t] /\ t \notin overtaken
      BY <2>1
    <2>5. D!ShownIsCallable'
      BY <1>1, <2>1, <2>4 DEF D!ShownIsCallable
    <2>6. D!DiscoverySurvives'
      BY <1>1, <2>1, <2>4 DEF D!DiscoverySurvives, D!CallableOf
    <2>7. SearchesFound'
      BY <1>1, <2>1 DEF SearchesFound
    <2> QED  BY <2>3, <2>5, <2>6, <2>7 DEF DisclosureInv
  <1>9. ASSUME NEW agent \in {"main", "sub"}, D!ReadRevision(agent) PROVE DisclosureInv'
    <2>1. /\ UNCHANGED <<offered, registry, profile, discovered, revealed, shown, queries, signature,
                         found, dropped, overtaken>>
          /\ places' = [places EXCEPT ![agent] = IF agent = "main" THEN "search" ELSE "rest"]
          /\ agent = "main" => places.main = "registered"
      BY <1>9 DEF D!ReadRevision, D!Goes
    <2>2. places' \in [main : {"rest", "turn", "registered", "search", "found"}, sub : {"rest", "registered"}]
          /\ (places'.main # "found" => places.main # "found")
      BY <1>1, <2>1 DEF ShownTyped
    <2>3. ShownTyped'
      BY <1>1, <2>1, <2>2 DEF ShownTyped
    <2> QED  BY <1>1, <2>1, <2>3 DEF DisclosureInv, D!ShownIsCallable, D!DiscoverySurvives,
                 SearchesFound
  <1>10. ASSUME NEW query \in SUBSET Deferred, D!Search(query) PROVE DisclosureInv'
    <2>1. PICK known : known = IF signature = D!Signature THEN queries ELSE {}
      OBVIOUS
    <2>2. /\ UNCHANGED <<offered, registry, profile, discovered, revealed, shown, overtaken>>
          /\ places.main = "search" /\ places' = [places EXCEPT !.main = "found"]
          /\ signature' = D!Signature /\ queries' = known \union {query}
          /\ found' = IF query \in known THEN {} ELSE (query \intersect D!View) \ revealed
          /\ dropped' = dropped \intersect known
      BY <1>10, <2>1 DEF D!Search, D!Goes
    <2>3. /\ D!Signature \in [Deferred -> 0..2]
          /\ \A t \in Deferred : D!Signature[t] # 0 => t \in D!View
      BY <1>1 DEF D!Signature, ShownTyped
    <2>4. found' \subseteq Deferred /\ found = {}
      BY <1>1, <2>2 DEF ShownTyped
    <2>5. ShownTyped'
      BY <1>1, <2>2, <2>3, <2>4 DEF ShownTyped
    <2>6. ASSUME NEW q \in queries' \ dropped', NEW t \in q, t \in Deferred, signature'[t] # 0
          PROVE  t \in discovered \union found'
      <3>1. CASE q \in known
        <4>1. q \in queries \ dropped /\ signature' = signature
          BY <2>1, <2>2, <2>6, <3>1
        <4> QED  BY <1>1, <2>4, <2>6, <4>1 DEF SearchesFound
      <3>2. CASE q \notin known
        <4>1. q = query /\ t \in D!View
          BY <2>2, <2>3, <2>6, <3>2
        <4>2. revealed \subseteq discovered
          BY <1>1 DEF D!ShownIsCallable
        <4> QED  BY <2>2, <2>6, <3>2, <4>1, <4>2
      <3> QED  BY <3>1, <3>2
    <2>7. SearchesFound'
      BY <2>2, <2>6 DEF SearchesFound
    <2>8. D!ShownIsCallable' /\ D!DiscoverySurvives'
      BY <1>1, <2>2 DEF D!ShownIsCallable, D!DiscoverySurvives
    <2> QED  BY <2>5, <2>7, <2>8 DEF DisclosureInv
  <1>11. CASE D!Reveal
    <2>1. PICK named : named = D!CallableOf(found \ revealed, registry, profile)
      OBVIOUS
    <2>2. /\ UNCHANGED <<offered, registry, profile, queries, signature>>
          /\ places.main = "found" /\ places' = [places EXCEPT !.main = "turn"] /\ found' = {}
          /\ revealed' = revealed \union named /\ discovered' = discovered \union named
          /\ shown' = [t \in Deferred |-> IF t \in named /\ shown[t] = 0 THEN registry[t] ELSE shown[t]]
          /\ overtaken' = overtaken \ named
          /\ dropped' = dropped \union {q \in queries : q \intersect (found \ revealed') # {}}
      BY <1>11, <2>1 DEF D!Reveal, D!Goes
    <2>3. /\ named \subseteq found \ revealed /\ named \subseteq Deferred
          /\ \A t \in named : registry[t] # 0 /\ D!Permits(profile, registry[t])
      BY <1>1, <2>1 DEF D!CallableOf, D!Permits, ShownTyped
    <2>4. ShownTyped'
      BY <1>1, <2>2, <2>3 DEF ShownTyped
    <2>5. D!ShownIsCallable'
      <3>1. \A t \in named : shown[t] = 0
        BY <1>1, <2>3 DEF D!ShownIsCallable
      <3>2. \A t \in Deferred : shown'[t] = IF t \in named THEN registry[t] ELSE shown[t]
        BY <2>2, <3>1
      <3>3. \A t \in Deferred : shown'[t] # 0 <=> t \in revealed \/ t \in named
        BY <1>1, <2>3, <3>2 DEF D!ShownIsCallable
      <3>4. {t \in Deferred : shown'[t] # 0} = revealed'
        BY <1>1, <2>2, <2>3, <3>3 DEF ShownTyped
      <3>5. revealed' \subseteq discovered'
        BY <1>1, <2>2 DEF D!ShownIsCallable
      <3>6. ASSUME NEW t \in revealed' \ overtaken'
            PROVE  shown'[t] = registry'[t] /\ D!Permits(profile', registry'[t])
        <4>1. CASE t \in named
          BY <2>2, <2>3, <3>2, <4>1
        <4>2. CASE t \notin named
          BY <1>1, <2>2, <3>2, <3>6, <4>2 DEF D!ShownIsCallable, ShownTyped
        <4> QED  BY <4>1, <4>2
      <3> QED  BY <3>4, <3>5, <3>6 DEF D!ShownIsCallable
    <2>6. D!DiscoverySurvives'
      BY <1>1, <2>2 DEF D!DiscoverySurvives, D!CallableOf
    <2>7. SearchesFound'
      <3>1. revealed \subseteq discovered
        BY <1>1 DEF D!ShownIsCallable
      <3> QED  BY <1>1, <2>2, <3>1 DEF SearchesFound
    <2> QED  BY <2>4, <2>5, <2>6, <2>7 DEF DisclosureInv
  <1>12. CASE D!ResultDropped
    <2>1. /\ UNCHANGED <<offered, registry, profile, discovered, revealed, shown, queries, signature, overtaken>>
          /\ places.main = "found" /\ places' = [places EXCEPT !.main = "turn"] /\ found' = {}
          /\ dropped' = dropped \union {q \in queries : q \intersect found # {}}
      BY <1>12 DEF D!ResultDropped, D!Goes
    <2>2. ShownTyped'
      BY <1>1, <2>1 DEF ShownTyped
    <2>3. SearchesFound'
      BY <1>1, <2>1 DEF SearchesFound
    <2>4. D!ShownIsCallable' /\ D!DiscoverySurvives'
      BY <1>1, <2>1 DEF D!ShownIsCallable, D!DiscoverySurvives
    <2> QED  BY <2>2, <2>3, <2>4 DEF DisclosureInv
  <1> QED  BY <1>2, <1>3, <1>4, <1>5, <1>6, <1>7, <1>8, <1>9, <1>10, <1>11, <1>12 DEF D!Next

\* Of the invariant: a repetition is refused only when there is nothing new to show.
LEMMA DisclosureFollowed ==
    DisclosureInv => D!ShownIsCallable /\ D!DiscoverySurvives /\ D!RepetitionIsMounted
  <1> SUFFICES ASSUME DisclosureInv, places.main = "search", signature = D!Signature,
                      NEW query \in queries \ dropped, NEW t \in query, t \in D!View
               PROVE  t \in revealed \union overtaken
    BY DEF DisclosureInv, D!RepetitionIsMounted
  <1>1. t \in Deferred /\ registry[t] # 0 /\ D!Permits(profile, registry[t])
    BY DEF D!View, D!CallableOf, D!Permits
  <1>2. signature[t] # 0 /\ found = {}
    BY <1>1 DEF D!Signature, DisclosureInv, ShownTyped
  <1>3. t \in discovered
    BY <1>1, <1>2 DEF DisclosureInv, SearchesFound
  <1> QED  BY <1>1, <1>3 DEF DisclosureInv, D!DiscoverySurvives, D!CallableOf

\* What the model is shown may be called, what it found stays found, and a repeated search is refused
\* only when its finds are shown (search_tools, _tool_schemas_for_agent_config).
THEOREM ShownToolsAreCallable ==
    D!Spec => [](D!ShownIsCallable /\ D!DiscoverySurvives /\ D!RepetitionIsMounted)
  <1>1. D!Init => DisclosureInv
    BY DisclosureInitially
  <1>2. DisclosureInv /\ [D!Next]_(D!vars) => DisclosureInv'
    BY DisclosureInductive
  <1>3. DisclosureInv => D!ShownIsCallable /\ D!DiscoverySurvives /\ D!RepetitionIsMounted
    BY DisclosureFollowed
  <1> QED  BY <1>1, <1>2, <1>3, PTL DEF D!Spec

-----------------------------------------------------------------------------
(* The way of one call (ToolGate).                                          *)

Answers == {"deny", "ask", "allow"}

\* What is known of each call and of each policy.
KnownShell(s) ==
    /\ s.effects \subseteq {"write", "delete", "execute", "git", "network"}
    /\ s.scope \in {"workspace", "external", "system"}

LEMMA ShellsAreKnown == KnownShell(G!NoShell) /\ \A s \in G!Shells : KnownShell(s)
  <1> DEFINE Plain == {{}, {"write"}, {"execute"}}
             Bold == {{"write"}, {"delete"}, {"git"}, {"git", "network"}, {"execute"}, {"write", "git"}}
             Named == {"write", "delete", "execute", "git", "network"}
  <1>1. KnownShell(G!NoShell)
    BY DEF KnownShell, G!NoShell
  <1>2. ASSUME NEW does, NEW scope \in G!TargetScopes, NEW destructive, NEW unknown,
               does \subseteq Named
        PROVE  KnownShell(G!ShellOf(does, scope, destructive, unknown))
    BY <1>2 DEF KnownShell, G!ShellOf, G!TargetScopes
  <1>3. (\A e \in Plain : e \subseteq Named) /\ (\A e \in Bold : e \subseteq Named)
    <2>1. \A e \in Plain : e \subseteq Named
      OBVIOUS
    <2>2. \A e \in Bold : e \subseteq Named
      OBVIOUS
    <2> QED  BY <2>1, <2>2
  <1>4. G!Shells = {G!ShellOf(does, scope, FALSE, unknown) :
                      does \in Plain, scope \in G!TargetScopes, unknown \in BOOLEAN}
                   \union {G!ShellOf(does, scope, destructive, FALSE) :
                      does \in Bold, scope \in G!TargetScopes, destructive \in BOOLEAN}
    BY DEF G!Shells
  <1> HIDE DEF Plain, Bold, Named
  <1>5. ASSUME NEW s \in G!Shells PROVE KnownShell(s)
    <2>1. \/ \E does \in Plain, scope \in G!TargetScopes, unknown \in BOOLEAN :
                s = G!ShellOf(does, scope, FALSE, unknown)
          \/ \E does \in Bold, scope \in G!TargetScopes, destructive \in BOOLEAN :
                s = G!ShellOf(does, scope, destructive, FALSE)
      BY <1>4, <1>5 DEF G!ShellOf
    <2> QED  BY <1>2, <1>3, <2>1
  <1> QED  BY <1>1, <1>5

LEMMA CallsAreKnown ==
    ASSUME asked \in G!Calls
    PROVE  /\ KnownShell(asked.shell)
           /\ asked.broad \in BOOLEAN /\ asked.inside \in BOOLEAN
           /\ asked.flaw \in G!Broken \union {"none"}
           /\ asked.permission \in G!Permissions \union {"shell"}
           /\ asked.permission # "shell" => asked.shell = G!NoShell
  <1>1. CASE \E flaw \in G!Broken : asked = G!AskedCall(flaw, "read", G!NoShell, TRUE, FALSE)
    BY <1>1, ShellsAreKnown DEF G!AskedCall, G!Permissions
  <1>2. CASE \E p \in G!Permissions, inside \in BOOLEAN :
                asked = G!AskedCall("none", p, G!NoShell, inside, FALSE)
    BY <1>2, ShellsAreKnown DEF G!AskedCall
  <1>3. CASE \E shell \in G!Shells : asked = G!AskedCall("none", "shell", shell, TRUE, FALSE)
    BY <1>3, ShellsAreKnown DEF G!AskedCall
  <1>4. CASE asked = G!AskedCall("none", "shell", G!NoShell, TRUE, TRUE)
    BY <1>4, ShellsAreKnown DEF G!AskedCall
  <1>5. \/ \E flaw \in G!Broken : asked = G!AskedCall(flaw, "read", G!NoShell, TRUE, FALSE)
        \/ \E p \in G!Permissions, inside \in BOOLEAN :
              asked = G!AskedCall("none", p, G!NoShell, inside, FALSE)
        \/ \E shell \in G!Shells : asked = G!AskedCall("none", "shell", shell, TRUE, FALSE)
        \/ asked = G!AskedCall("none", "shell", G!NoShell, TRUE, TRUE)
    BY DEF G!Calls, G!AskedCall
  <1> QED  BY <1>1, <1>2, <1>3, <1>4, <1>5

LEMMA PoliciesAreKnown ==
    ASSUME policy \in G!Policies
    PROVE  /\ policy.role \in {"main", "reader", "worker"} /\ policy.preset \in BOOLEAN
           /\ policy.mode \in {"read-only", "llm-auto", "workspace-write", "danger-full-access", "terminal-eval"}
           /\ policy.role = "reader" => policy.mode = "read-only"
           /\ policy.role = "worker" => policy.mode = "terminal-eval"
           /\ policy = [mode |-> policy.mode, role |-> policy.role, preset |-> policy.preset]
  <1>1. CASE \E mode \in G!Modes, preset \in BOOLEAN : policy = G!PolicyOf(mode, "main", preset)
    BY <1>1 DEF G!PolicyOf, G!Modes
  <1>2. CASE policy = G!PolicyOf("read-only", "reader", FALSE)
    BY <1>2 DEF G!PolicyOf
  <1>3. CASE policy = G!PolicyOf("terminal-eval", "worker", FALSE)
    BY <1>3 DEF G!PolicyOf
  <1>4. \/ \E mode \in G!Modes, preset \in BOOLEAN : policy = G!PolicyOf(mode, "main", preset)
        \/ policy = G!PolicyOf("read-only", "reader", FALSE)
        \/ policy = G!PolicyOf("terminal-eval", "worker", FALSE)
    BY DEF G!Policies, G!PolicyOf
  <1> QED  BY <1>1, <1>2, <1>3, <1>4

\* The preset of each policy, place by place.
LEMMA PresetAnswers ==
    ASSUME NEW p, p.mode \in {"read-only", "llm-auto", "workspace-write", "danger-full-access", "terminal-eval"}
    PROVE  /\ \A k \in {1, 2, 3, 4} : G!ShellPreset(p)[k] \in Answers
           /\ p.role # "worker" /\ p.mode = "read-only" => \A k \in {1, 2, 3, 4} : G!ShellPreset(p)[k] = "deny"
           /\ p.role # "worker" /\ p.mode = "danger-full-access" =>
                 \A k \in {1, 2, 3, 4} : G!ShellPreset(p)[k] = "allow"
           /\ p.role # "worker" /\ p.mode = "llm-auto" =>
                 /\ G!ShellPreset(p)[1] = "ask" /\ G!ShellPreset(p)[2] = "deny"
                 /\ G!ShellPreset(p)[3] = "deny" /\ G!ShellPreset(p)[4] = "ask"
           /\ p.role # "worker" /\ p.mode = "workspace-write" =>
                 /\ G!ShellPreset(p)[1] = "allow" /\ G!ShellPreset(p)[2] = "deny"
                 /\ G!ShellPreset(p)[3] = "deny" /\ G!ShellPreset(p)[4] = "ask"
  <1>1. CASE p.role = "worker"
    BY <1>1 DEF G!ShellPreset, Answers
  <1>2. CASE p.role # "worker" /\ p.mode = "read-only"
    BY <1>2 DEF G!ShellPreset, Answers
  <1>3. CASE p.role # "worker" /\ p.mode = "llm-auto"
    BY <1>3 DEF G!ShellPreset, Answers
  <1>4. CASE p.role # "worker" /\ p.mode = "workspace-write"
    BY <1>4 DEF G!ShellPreset, Answers
  <1>5. CASE p.role # "worker" /\ p.mode = "danger-full-access"
    BY <1>5 DEF G!ShellPreset, Answers
  <1>6. CASE p.role # "worker" /\ p.mode = "terminal-eval"
    BY <1>6 DEF G!ShellPreset, Answers
  <1> QED  BY <1>1, <1>2, <1>3, <1>4, <1>5, <1>6

\* A shell command gets an answer of the preset, or the one that every policy gives it.
LEMMA ShellAnswers ==
    ASSUME NEW s, s.scope \in {"workspace", "external", "system"}
    PROVE  \/ /\ \A p : G!DecideShell(s, p) = "deny"
              /\ G!Catastrophic(s)
           \/ /\ \A p : G!DecideShell(s, p) = "allow"
              /\ ~G!Writes(s) /\ "git" \notin s.effects
           \/ \E k \in {1, 2, 3, 4} :
                 /\ \A p : G!DecideShell(s, p) = G!ShellPreset(p)[k]
                 /\ k = 4 => ~G!Writes(s) /\ "git" \notin s.effects
  <1>1. CASE G!Catastrophic(s)
    BY <1>1 DEF G!DecideShell
  <1>2. CASE ~G!Catastrophic(s) /\ G!Writes(s)
    <2>1. CASE s.scope = "system"
      <3>1. \A p : G!DecideShell(s, p) = G!ShellPreset(p)[3]
        BY <1>2, <2>1 DEF G!DecideShell
      <3> QED  BY <3>1
    <2>2. CASE s.scope = "external"
      <3>1. \A p : G!DecideShell(s, p) = G!ShellPreset(p)[2]
        BY <1>2, <2>2 DEF G!DecideShell
      <3> QED  BY <3>1
    <2>3. CASE s.scope = "workspace"
      <3>1. \A p : G!DecideShell(s, p) = G!ShellPreset(p)[1]
        BY <1>2, <2>3 DEF G!DecideShell
      <3> QED  BY <3>1
    <2> QED  BY <2>1, <2>2, <2>3
  <1>3. CASE ~G!Catastrophic(s) /\ ~G!Writes(s) /\ "git" \in s.effects
    <2>1. CASE "network" \in s.effects
      <3>1. \A p : G!DecideShell(s, p) = G!ShellPreset(p)[2]
        BY <1>3, <2>1 DEF G!DecideShell
      <3> QED  BY <3>1
    <2>2. CASE "network" \notin s.effects
      <3>1. \A p : G!DecideShell(s, p) = G!ShellPreset(p)[1]
        BY <1>3, <2>2 DEF G!DecideShell
      <3> QED  BY <3>1
    <2> QED  BY <2>1, <2>2
  <1>4. CASE ~G!Catastrophic(s) /\ ~G!Writes(s) /\ "git" \notin s.effects /\ s.unknown
    <2>1. \A p : G!DecideShell(s, p) = G!ShellPreset(p)[4]
      BY <1>4 DEF G!DecideShell
    <2> QED  BY <1>4, <2>1
  <1>5. CASE ~G!Catastrophic(s) /\ ~G!Writes(s) /\ "git" \notin s.effects /\ ~s.unknown
    <2>1. \A p : G!DecideShell(s, p) = "allow"
      BY <1>5 DEF G!DecideShell
    <2> QED  BY <1>5, <2>1
  <1> QED  BY <1>1, <1>2, <1>3, <1>4, <1>5

\* _decide_structured_tool answers one of the three.
LEMMA StructuredAnswers ==
    ASSUME NEW permission \in G!Permissions, NEW inside, NEW p
    PROVE  G!DecideStructured(permission, inside, p) \in Answers
  <1>1. CASE permission \in {"read", "network_read", "control"}
    BY <1>1 DEF G!DecideStructured, Answers
  <1>2. CASE permission = "edit"
    BY <1>2 DEF G!DecideStructured, Answers
  <1>3. CASE permission \in {"dangerous", "undeclared"}
    <2>1. G!DecideStructured(permission, inside, p) =
            CASE p.mode \in {"danger-full-access", "terminal-eval"} -> "allow"
              [] p.mode = "read-only" -> "deny"
              [] OTHER -> "ask"
      BY <1>3 DEF G!DecideStructured
    <2> QED  BY <2>1 DEF Answers
  <1> QED  BY <1>1, <1>2, <1>3 DEF G!Permissions

IsMode(m) == m \in {"read-only", "llm-auto", "workspace-write", "danger-full-access", "terminal-eval"}

\* The session's own decision does not look at the preset of the profile, and is one of the three.
LEMMA SessionAnswers ==
    ASSUME asked \in G!Calls, NEW p, IsMode(p.mode)
    PROVE  G!SessionDecision(asked, p) \in Answers
  <1>1. CASE asked.permission = "shell"
    <2>1. G!DecideShell(asked.shell, p) \in Answers
      BY CallsAreKnown, ShellAnswers, PresetAnswers DEF KnownShell, IsMode, Answers
    <2> QED  BY <1>1, <2>1 DEF G!SessionDecision
  <1>2. CASE asked.permission # "shell"
    BY <1>2, CallsAreKnown, StructuredAnswers DEF G!SessionDecision
  <1> QED  BY <1>1, <1>2

\* Of two modes of a session, the second allows at least what the first does.
Wider(m, n) ==
    \/ m = "read-only" /\ n = "llm-auto"
    \/ m = "llm-auto" /\ n = "workspace-write"
    \/ n = "danger-full-access"

LEMMA WiderAllowsMore ==
    ASSUME asked \in G!Calls, NEW p, NEW q, IsMode(p.mode), IsMode(q.mode), Wider(p.mode, q.mode),
           p.role = "main", q.role = "main"
    PROVE  G!Rank(G!SessionDecision(asked, p)) <= G!Rank(G!SessionDecision(asked, q))
  <1>1. G!Rank("deny") = 0 /\ G!Rank("ask") = 1 /\ G!Rank("allow") = 2
    BY DEF G!Rank
  <1>2. CASE asked.permission = "shell"
    <2>1. \A k \in {1, 2, 3, 4} : G!Rank(G!ShellPreset(p)[k]) <= G!Rank(G!ShellPreset(q)[k])
      <3>1. /\ \A k \in {1, 2, 3, 4} : G!ShellPreset(p)[k] \in Answers
            /\ \A k \in {1, 2, 3, 4} : G!ShellPreset(q)[k] \in Answers
        BY PresetAnswers DEF IsMode
      <3>2. CASE p.mode = "read-only" /\ q.mode = "llm-auto"
        <4>1. \A k \in {1, 2, 3, 4} : G!ShellPreset(p)[k] = "deny"
          BY <3>2, PresetAnswers
        <4> QED  BY <1>1, <3>1, <4>1 DEF Answers
      <3>3. CASE p.mode = "llm-auto" /\ q.mode = "workspace-write"
        BY <1>1, <3>3, PresetAnswers
      <3>4. CASE q.mode = "danger-full-access"
        <4>1. \A k \in {1, 2, 3, 4} : G!ShellPreset(q)[k] = "allow"
          BY <3>4, PresetAnswers
        <4> QED  BY <1>1, <3>1, <4>1 DEF Answers
      <3> QED  BY <3>2, <3>3, <3>4 DEF Wider
    <2>2. G!Rank(G!DecideShell(asked.shell, p)) <= G!Rank(G!DecideShell(asked.shell, q))
      <3>1. CASE \A r : G!DecideShell(asked.shell, r) = "deny"
        BY <1>1, <3>1
      <3>2. CASE \A r : G!DecideShell(asked.shell, r) = "allow"
        BY <1>1, <3>2
      <3>3. CASE \E k \in {1, 2, 3, 4} : \A r : G!DecideShell(asked.shell, r) = G!ShellPreset(r)[k]
        BY <2>1, <3>3
      <3> QED  BY <3>1, <3>2, <3>3, CallsAreKnown, ShellAnswers DEF KnownShell
    <2> QED  BY <1>2, <2>2 DEF G!SessionDecision
  <1>3. CASE asked.permission # "shell"
    <2>1. asked.permission \in G!Permissions
      BY <1>3, CallsAreKnown
    <2>2. CASE asked.permission \in {"read", "network_read", "control"}
      BY <1>1, <1>3, <2>2 DEF G!SessionDecision, G!DecideStructured
    <2>3. CASE asked.permission = "edit"
      <3>1. /\ G!SessionDecision(asked, p) = IF p.mode = "read-only" THEN "deny" ELSE "allow"
            /\ G!SessionDecision(asked, q) = IF q.mode = "read-only" THEN "deny" ELSE "allow"
        BY <1>3, <2>3 DEF G!SessionDecision, G!DecideStructured
      <3> QED  BY <1>1, <3>1 DEF Wider
    <2>4. CASE asked.permission \in {"dangerous", "undeclared"}
      <3>1. \A r : G!SessionDecision(asked, r) =
              CASE r.mode \in {"danger-full-access", "terminal-eval"} -> "allow"
                [] r.mode = "read-only" -> "deny"
                [] OTHER -> "ask"
        BY <1>3, <2>4 DEF G!SessionDecision, G!DecideStructured
      <3> QED  BY <1>1, <3>1 DEF Wider
    <2> QED  BY <2>1, <2>2, <2>3, <2>4 DEF G!Permissions
  <1> QED  BY <1>2, <1>3

\* A mode that allows more allows everything that the one before it does, and the preset of a
\* profile only tightens (decide_tool_call, _ProfilePresetPolicy).
LEMMA DecisionsOrdered ==
    ASSUME asked \in G!Calls, policy \in G!Policies
    PROVE  G!DecisionsAreOrdered
  <1>1. G!Rank("deny") = 0 /\ G!Rank("ask") = 1 /\ G!Rank("allow") = 2
    BY DEF G!Rank
  <1>2. /\ policy.preset \in BOOLEAN /\ IsMode(policy.mode)
        /\ policy = [mode |-> policy.mode, role |-> policy.role, preset |-> policy.preset]
    BY PoliciesAreKnown DEF IsMode
  <1>3. G!AtMost(asked, [policy EXCEPT !.preset = TRUE], policy)
    <2> DEFINE tight == [policy EXCEPT !.preset = TRUE]
    <2>1. tight.mode = policy.mode /\ tight.role = policy.role /\ tight.preset
      BY <1>2
    <2> HIDE DEF tight
    <2>2. G!SessionDecision(asked, tight) = G!SessionDecision(asked, policy)
      <3>1. G!ShellPreset(tight) = G!ShellPreset(policy)
        BY <2>1 DEF G!ShellPreset
      <3>2. G!DecideShell(asked.shell, tight) = G!DecideShell(asked.shell, policy)
        BY <3>1 DEF G!DecideShell
      <3>3. G!DecideStructured(asked.permission, asked.inside, tight)
              = G!DecideStructured(asked.permission, asked.inside, policy)
        BY <2>1 DEF G!DecideStructured
      <3> QED  BY <3>2, <3>3 DEF G!SessionDecision
    <2>3. G!SessionDecision(asked, policy) \in Answers
      BY <1>2, SessionAnswers
    <2>4. G!Rank(G!Decide(asked, tight)) <= G!Rank(G!Decide(asked, policy))
      BY <1>1, <2>1, <2>2, <2>3 DEF G!Decide, Answers
    <2> QED  BY <2>4 DEF G!AtMost, tight
  <1>4. ASSUME NEW m, NEW n, IsMode(m), IsMode(n), Wider(m, n), policy.role = "main"
        PROVE  G!AtMost(asked, [policy EXCEPT !.mode = m], [policy EXCEPT !.mode = n])
    <2> DEFINE p == [policy EXCEPT !.mode = m]
               q == [policy EXCEPT !.mode = n]
    <2>1. /\ p.mode = m /\ p.role = "main" /\ p.preset = policy.preset
          /\ q.mode = n /\ q.role = "main" /\ q.preset = policy.preset
      BY <1>2, <1>4
    <2> HIDE DEF p, q
    <2>2. G!Rank(G!SessionDecision(asked, p)) <= G!Rank(G!SessionDecision(asked, q))
      BY <1>4, <2>1, WiderAllowsMore
    <2>3. G!Rank(G!Decide(asked, p)) <= G!Rank(G!Decide(asked, q))
      BY <1>1, <2>1, <2>2 DEF G!Decide
    <2> QED  BY <2>3 DEF G!AtMost, p, q
  <1>5. policy = [policy EXCEPT !.mode = policy.mode]
    BY <1>2
  <1>6. policy.role = "main" =>
          /\ G!AtMost(asked, [policy EXCEPT !.mode = "read-only"], [policy EXCEPT !.mode = "llm-auto"])
          /\ G!AtMost(asked, [policy EXCEPT !.mode = "llm-auto"], [policy EXCEPT !.mode = "workspace-write"])
    BY <1>4 DEF IsMode, Wider
  <1>7. policy.role = "main" => G!AtMost(asked, policy, [policy EXCEPT !.mode = "danger-full-access"])
    <2>1. policy.role = "main" =>
            G!AtMost(asked, [policy EXCEPT !.mode = policy.mode], [policy EXCEPT !.mode = "danger-full-access"])
      BY <1>2, <1>4 DEF IsMode, Wider
    <2> QED  BY <1>5, <2>1
  <1> QED  BY <1>3, <1>6, <1>7 DEF G!DecisionsAreOrdered

-----------------------------------------------------------------------------
(* What is known of a call at each stage.                                   *)

\* The results of calls that did not start.
ErrorKinds == {"invalid_json", "invalid_tool_call", "unknown_tool", "tool_schema_error",
               "invalid_arguments", "workspace_escape", "blocked_command"}
Malformed(r) == \E kind \in ErrorKinds : r = G!Failed("validation", kind, TRUE)
Refused(r) == \E source \in {"permission", "budget", "tool_policy"} : r = G!Failed(source, "none", TRUE)

Permit == asked.flaw = "none" /\ ~asked.broad /\ decision = G!Decide(asked, policy)
Granted ==
    /\ Permit
    /\ \/ decision = "allow" /\ approved = "none"
       \/ decision = "ask" /\ approved = "yes"

\* What the events tell of a call before it starts, when it has started, and when it has ended.
Before(answer) == IF answer = "none" THEN <<>> ELSE <<"approval_requested", "approval_decided">>
Started(answer) ==
    IF answer = "none" THEN <<"tool_call">> ELSE <<"approval_requested", "approval_decided", "tool_call">>
Ended(answer) ==
    IF answer = "none" THEN <<"tool_call", "tool_result">>
    ELSE <<"approval_requested", "approval_decided", "tool_call", "tool_result">>
EndedBadly(answer, category) ==
    IF answer = "none" THEN <<"tool_call", "tool_result", category>>
    ELSE <<"approval_requested", "approval_decided", "tool_call", "tool_result", category>>

Drawn == asked \in G!Calls /\ policy \in G!Policies /\ entered \in BOOLEAN

NotBegun == ~entered /\ outcome = G!NoResult

\* The result of a call that has come to an end.
Result ==
    /\ entered => Granted
    /\ \/ outcome.intercepted /\ ~entered /\ approved = "none" /\ (Malformed(outcome) \/ Refused(outcome))
       \/ outcome.intercepted /\ ~entered /\ approved = "no" /\ outcome = G!Failed("approval", "none", TRUE)
       \/ ~outcome.intercepted /\ approved \in {"none", "yes"} /\ entered /\ outcome \in G!Outcomes
       \/ ~outcome.intercepted /\ approved \in {"none", "yes"} /\ ~entered
          /\ outcome = G!Failed("registry", "none", FALSE)

Staged ==
    CASE stage = "raw" -> NotBegun /\ approved = "none" /\ heard = <<>>
      [] stage = "prepared" ->
            /\ ~entered /\ approved = "none" /\ heard = <<>>
            /\ \/ Malformed(outcome)
               \/ /\ outcome = G!NoResult \/ outcome = G!Failed("permission", "none", TRUE)
                  /\ asked.flaw = "none" /\ decision = G!Decide(asked, policy)
      [] stage = "guarded" ->
            /\ NotBegun /\ approved = "none" /\ heard = <<>>
            /\ asked.flaw = "none" /\ decision = G!Decide(asked, policy)
      [] stage = "asking" ->
            NotBegun /\ approved = "none" /\ heard = <<"approval_requested">> /\ Permit /\ decision = "ask"
      [] stage = "allowed" -> NotBegun /\ Granted /\ heard = Before(approved)
      [] stage = "running" -> NotBegun /\ Granted /\ heard = Started(approved)
      [] stage = "executed" ->
            Result /\ heard = IF outcome.intercepted THEN Before(approved) ELSE Started(approved)
      [] stage = "recorded" ->
            Result /\ heard = IF outcome.status = "failed"
                              THEN EndedBadly(approved, G!EventCategory(outcome)) ELSE Ended(approved)
      [] stage = "aborted" ->
            /\ entered => Granted
            /\ heard = <<"approval_requested">>
               \/ \E answer \in {"none", "yes"} : heard = Before(answer) \/ heard = Started(answer)
      [] OTHER -> FALSE

GateInv == Drawn /\ Staged

LEMMA GateInitially == G!Init => GateInv
  BY DEF G!Init, GateInv, Drawn, Staged, NotBegun

\* A sequence is the list of its elements.
LEMMA Listed ==
    ASSUME NEW S, NEW s \in Seq(S)
    PROVE  /\ \A a \in S : Len(s) = 1 /\ s[1] = a => s = <<a>>
           /\ \A a, b \in S : Len(s) = 2 /\ s[1] = a /\ s[2] = b => s = <<a, b>>
           /\ \A a, b, c \in S : Len(s) = 3 /\ s[1] = a /\ s[2] = b /\ s[3] = c => s = <<a, b, c>>
           /\ \A a, b, c, d \in S :
                 Len(s) = 4 /\ s[1] = a /\ s[2] = b /\ s[3] = c /\ s[4] = d => s = <<a, b, c, d>>
           /\ \A a, b, c, d, e \in S :
                 Len(s) = 5 /\ s[1] = a /\ s[2] = b /\ s[3] = c /\ s[4] = d /\ s[5] = e => s = <<a, b, c, d, e>>
  <1>1. ASSUME NEW a \in S, Len(s) = 1, s[1] = a PROVE s = <<a>>
    <2>1. <<a>> \in Seq(S) /\ Len(<<a>>) = 1 /\ \A i \in 1..1 : s[i] = <<a>>[i]
      BY <1>1
    <2> QED  BY <1>1, <2>1, SeqEqual
  <1>2. ASSUME NEW a \in S, NEW b \in S, Len(s) = 2, s[1] = a, s[2] = b PROVE s = <<a, b>>
    <2>1. <<a, b>> \in Seq(S) /\ Len(<<a, b>>) = 2 /\ \A i \in 1..2 : s[i] = <<a, b>>[i]
      BY <1>2
    <2> QED  BY <1>2, <2>1, SeqEqual
  <1>3. ASSUME NEW a \in S, NEW b \in S, NEW c \in S, Len(s) = 3, s[1] = a, s[2] = b, s[3] = c
        PROVE  s = <<a, b, c>>
    <2>1. <<a, b, c>> \in Seq(S) /\ Len(<<a, b, c>>) = 3 /\ \A i \in 1..3 : s[i] = <<a, b, c>>[i]
      BY <1>3
    <2> QED  BY <1>3, <2>1, SeqEqual
  <1>4. ASSUME NEW a \in S, NEW b \in S, NEW c \in S, NEW d \in S,
               Len(s) = 4, s[1] = a, s[2] = b, s[3] = c, s[4] = d
        PROVE  s = <<a, b, c, d>>
    <2>1. <<a, b, c, d>> \in Seq(S) /\ Len(<<a, b, c, d>>) = 4 /\ \A i \in 1..4 : s[i] = <<a, b, c, d>>[i]
      BY <1>4
    <2> QED  BY <1>4, <2>1, SeqEqual
  <1>5. ASSUME NEW a \in S, NEW b \in S, NEW c \in S, NEW d \in S, NEW e \in S,
               Len(s) = 5, s[1] = a, s[2] = b, s[3] = c, s[4] = d, s[5] = e
        PROVE  s = <<a, b, c, d, e>>
    <2>1. <<a, b, c, d, e>> \in Seq(S) /\ Len(<<a, b, c, d, e>>) = 5
          /\ \A i \in 1..5 : s[i] = <<a, b, c, d, e>>[i]
      BY <1>5
    <2> QED  BY <1>5, <2>1, SeqEqual
  <1> QED  BY <1>1, <1>2, <1>3, <1>4, <1>5

\* A list to which one element is appended.
LEMMA Grown ==
    ASSUME NEW S
    PROVE  /\ \A x \in S : Append(<<>>, x) = <<x>>
           /\ \A x, y \in S : Append(<<x>>, y) = <<x, y>>
           /\ \A x, y, z \in S : Append(<<x, y>>, z) = <<x, y, z>>
           /\ \A x, y, z, u \in S : Append(<<x, y, z>>, u) = <<x, y, z, u>>
           /\ \A x, y, z, u, v \in S : Append(<<x, y, z, u>>, v) = <<x, y, z, u, v>>
  <1>1. ASSUME NEW x \in S
        PROVE  Append(<<>>, x) = <<x>>
    <2>1. <<>> \in Seq(S) /\ Len(<<>>) = 0
      OBVIOUS
    <2>2. Append(<<>>, x) \in Seq(S) /\ Len(Append(<<>>, x)) = 1
      BY <2>1, AppendProperties
    <2>3. Append(<<>>, x)[1] = x
      BY <2>1, AppendProperties
    <2> QED  BY <2>2, <2>3, Listed
  <1>2. ASSUME NEW x \in S, NEW y \in S
        PROVE  Append(<<x>>, y) = <<x, y>>
    <2>1. <<x>> \in Seq(S) /\ Len(<<x>>) = 1
      OBVIOUS
    <2>2. Append(<<x>>, y) \in Seq(S) /\ Len(Append(<<x>>, y)) = 2
      BY <2>1, AppendProperties
    <2>3. Append(<<x>>, y)[1] = x /\ Append(<<x>>, y)[2] = y
      BY <2>1, AppendProperties
    <2> QED  BY <2>2, <2>3, Listed
  <1>3. ASSUME NEW x \in S, NEW y \in S, NEW z \in S
        PROVE  Append(<<x, y>>, z) = <<x, y, z>>
    <2>1. <<x, y>> \in Seq(S) /\ Len(<<x, y>>) = 2
      OBVIOUS
    <2>2. Append(<<x, y>>, z) \in Seq(S) /\ Len(Append(<<x, y>>, z)) = 3
      BY <2>1, AppendProperties
    <2>3. Append(<<x, y>>, z)[1] = x /\ Append(<<x, y>>, z)[2] = y /\ Append(<<x, y>>, z)[3] = z
      BY <2>1, AppendProperties
    <2>4. PICK s : s = Append(<<x, y>>, z)
      OBVIOUS
    <2>5. s \in Seq(S) /\ Len(s) = 3 /\ s[1] = x /\ s[2] = y /\ s[3] = z
      BY <2>2, <2>3, <2>4
    <2>6. s = <<x, y, z>>
      BY <2>5, Listed
    <2> QED  BY <2>4, <2>6
  <1>4. ASSUME NEW x \in S, NEW y \in S, NEW z \in S, NEW u \in S
        PROVE  Append(<<x, y, z>>, u) = <<x, y, z, u>>
    <2>1. <<x, y, z>> \in Seq(S) /\ Len(<<x, y, z>>) = 3
      OBVIOUS
    <2>2. Append(<<x, y, z>>, u) \in Seq(S) /\ Len(Append(<<x, y, z>>, u)) = 4
      BY <2>1, AppendProperties
    <2>3. Append(<<x, y, z>>, u)[1] = x /\ Append(<<x, y, z>>, u)[2] = y /\ Append(<<x, y, z>>, u)[3] = z /\ Append(<<x, y, z>>, u)[4] = u
      BY <2>1, AppendProperties
    <2>4. PICK s : s = Append(<<x, y, z>>, u)
      OBVIOUS
    <2>5. s \in Seq(S) /\ Len(s) = 4 /\ s[1] = x /\ s[2] = y /\ s[3] = z /\ s[4] = u
      BY <2>2, <2>3, <2>4
    <2>6. s = <<x, y, z, u>>
      BY <2>5, Listed
    <2> QED  BY <2>4, <2>6
  <1>5. ASSUME NEW x \in S, NEW y \in S, NEW z \in S, NEW u \in S, NEW v \in S
        PROVE  Append(<<x, y, z, u>>, v) = <<x, y, z, u, v>>
    <2>1. <<x, y, z, u>> \in Seq(S) /\ Len(<<x, y, z, u>>) = 4
      OBVIOUS
    <2>2. Append(<<x, y, z, u>>, v) \in Seq(S) /\ Len(Append(<<x, y, z, u>>, v)) = 5
      BY <2>1, AppendProperties
    <2>3. Append(<<x, y, z, u>>, v)[1] = x /\ Append(<<x, y, z, u>>, v)[2] = y /\ Append(<<x, y, z, u>>, v)[3] = z /\ Append(<<x, y, z, u>>, v)[4] = u /\ Append(<<x, y, z, u>>, v)[5] = v
      BY <2>1, AppendProperties
    <2>4. PICK s : s = Append(<<x, y, z, u>>, v)
      OBVIOUS
    <2>5. s \in Seq(S) /\ Len(s) = 5 /\ s[1] = x /\ s[2] = y /\ s[3] = z /\ s[4] = u /\ s[5] = v
      BY <2>2, <2>3, <2>4
    <2>6. s = <<x, y, z, u, v>>
      BY <2>5, Listed
    <2> QED  BY <2>4, <2>6
  <1> QED  BY <1>1, <1>2, <1>3, <1>4, <1>5

\* What is told is appended.
LEMMA Appended ==
    ASSUME NEW answer, NEW category
    PROVE  /\ Before(answer) \o <<"tool_call">> = Started(answer)
           /\ Before(answer) \o <<>> = Before(answer)
           /\ <<"approval_requested">> \o <<>> = <<"approval_requested">>
           /\ Started(answer) \o ((<<>> \o <<"tool_result">>) \o <<>>) = Ended(answer)
           /\ Started(answer) \o ((<<>> \o <<"tool_result">>) \o <<category>>) = EndedBadly(answer, category)
           /\ Before(answer) \o ((<<"tool_call">> \o <<"tool_result">>) \o <<>>) = Ended(answer)
           /\ Before(answer) \o ((<<"tool_call">> \o <<"tool_result">>) \o <<category>>)
                = EndedBadly(answer, category)
  <1> DEFINE Names == {"approval_requested", "approval_decided", "tool_call", "tool_result", category}
             req == "approval_requested"
             dec == "approval_decided"
             begun == "tool_call"
             done == "tool_result"
  <1>1. req \in Names /\ dec \in Names /\ begun \in Names /\ done \in Names /\ category \in Names
    OBVIOUS
  <1> HIDE DEF Names, req, dec, begun, done
  <1>2. /\ <<>> \in Seq(Names) /\ <<begun>> \in Seq(Names) /\ <<req>> \in Seq(Names) /\ <<done>> \in Seq(Names)
        /\ <<begun, done>> \in Seq(Names) /\ <<req, dec>> \in Seq(Names) /\ <<begun, done, category>> \in Seq(Names)
    BY <1>1
  <1>3. ASSUME NEW s \in Seq(Names) PROVE s \o <<>> = s /\ <<>> \o s = s
    BY ConcatEmptySeq
  <1>4. ASSUME NEW x \in Names, NEW y \in Names
        PROVE  <<x>> \o <<y>> = <<x, y>>
    <2>1. <<x>> \in Seq(Names)
      OBVIOUS
    <2>2. Append(<<x>>, y) = <<x>> \o <<y>>
      BY <2>1, AppendIsConcat
    <2>3. Append(<<x>>, y) = <<x, y>>
      BY Grown
    <2> QED  BY <2>2, <2>3, Zenon
  <1>5. ASSUME NEW x \in Names, NEW y \in Names, NEW z \in Names
        PROVE  <<x, y>> \o <<z>> = <<x, y, z>>
    <2>1. <<x, y>> \in Seq(Names)
      OBVIOUS
    <2>2. Append(<<x, y>>, z) = <<x, y>> \o <<z>>
      BY <2>1, AppendIsConcat
    <2>3. Append(<<x, y>>, z) = <<x, y, z>>
      BY Grown
    <2> QED  BY <2>2, <2>3, Zenon
  <1>6. ASSUME NEW x \in Names, NEW y \in Names, NEW z \in Names, NEW u \in Names
        PROVE  <<x, y, z>> \o <<u>> = <<x, y, z, u>>
    <2>1. <<x, y, z>> \in Seq(Names)
      OBVIOUS
    <2>2. Append(<<x, y, z>>, u) = <<x, y, z>> \o <<u>>
      BY <2>1, AppendIsConcat
    <2>3. Append(<<x, y, z>>, u) = <<x, y, z, u>>
      BY Grown
    <2> QED  BY <2>2, <2>3, Zenon
  <1>7. ASSUME NEW x \in Names, NEW y \in Names, NEW z \in Names, NEW u \in Names, NEW v \in Names
        PROVE  <<x, y, z, u>> \o <<v>> = <<x, y, z, u, v>>
    <2>1. <<x, y, z, u>> \in Seq(Names)
      OBVIOUS
    <2>2. Append(<<x, y, z, u>>, v) = <<x, y, z, u>> \o <<v>>
      BY <2>1, AppendIsConcat
    <2>3. Append(<<x, y, z, u>>, v) = <<x, y, z, u, v>>
      BY Grown
    <2> QED  BY <2>2, <2>3, Zenon
  <1>8. ASSUME NEW x \in Names, NEW y \in Names, NEW z \in Names
        PROVE  <<x>> \o <<y, z>> = <<x, y, z>>
    <2>1. <<x>> \in Seq(Names) /\ <<y>> \in Seq(Names) /\ <<z>> \in Seq(Names)
      OBVIOUS
    <2>2. (<<x>> \o <<y>>) \o <<z>> = <<x>> \o (<<y>> \o <<z>>)
      BY <2>1, ConcatAssociative
    <2>3. <<x>> \o <<y>> = <<x, y>>
      BY <1>4, Zenon
    <2>4. <<x, y>> \o <<z>> = <<x, y, z>>
      BY <1>5, Zenon
    <2>5. <<y>> \o <<z>> = <<y, z>>
      BY <1>4, Zenon
    <2> QED  BY <2>2, <2>3, <2>4, <2>5, Zenon
  <1>9. ASSUME NEW x \in Names, NEW y \in Names, NEW z \in Names, NEW u \in Names
        PROVE  <<x, y>> \o <<z, u>> = <<x, y, z, u>>
    <2>1. <<x, y>> \in Seq(Names) /\ <<z>> \in Seq(Names) /\ <<u>> \in Seq(Names)
      OBVIOUS
    <2>2. (<<x, y>> \o <<z>>) \o <<u>> = <<x, y>> \o (<<z>> \o <<u>>)
      BY <2>1, ConcatAssociative
    <2>3. <<x, y>> \o <<z>> = <<x, y, z>>
      BY <1>5, Zenon
    <2>4. <<x, y, z>> \o <<u>> = <<x, y, z, u>>
      BY <1>6, Zenon
    <2>5. <<z>> \o <<u>> = <<z, u>>
      BY <1>4, Zenon
    <2> QED  BY <2>2, <2>3, <2>4, <2>5, Zenon
  <1>10. ASSUME NEW x \in Names, NEW y \in Names, NEW z \in Names, NEW u \in Names, NEW v \in Names
        PROVE  <<x, y, z>> \o <<u, v>> = <<x, y, z, u, v>>
    <2>1. <<x, y, z>> \in Seq(Names) /\ <<u>> \in Seq(Names) /\ <<v>> \in Seq(Names)
      OBVIOUS
    <2>2. (<<x, y, z>> \o <<u>>) \o <<v>> = <<x, y, z>> \o (<<u>> \o <<v>>)
      BY <2>1, ConcatAssociative
    <2>3. <<x, y, z>> \o <<u>> = <<x, y, z, u>>
      BY <1>6, Zenon
    <2>4. <<x, y, z, u>> \o <<v>> = <<x, y, z, u, v>>
      BY <1>7
    <2>5. <<u>> \o <<v>> = <<u, v>>
      BY <1>4, Zenon
    <2> QED  BY <2>2, <2>3, <2>4, <2>5, Zenon
  <1>11. ASSUME NEW x \in Names, NEW y \in Names, NEW z \in Names, NEW u \in Names, NEW v \in Names
        PROVE  <<x, y>> \o <<z, u, v>> = <<x, y, z, u, v>>
    <2>1. <<x, y>> \in Seq(Names) /\ <<z, u>> \in Seq(Names) /\ <<v>> \in Seq(Names)
      OBVIOUS
    <2>2. (<<x, y>> \o <<z, u>>) \o <<v>> = <<x, y>> \o (<<z, u>> \o <<v>>)
      BY <2>1, ConcatAssociative
    <2>3. <<x, y>> \o <<z, u>> = <<x, y, z, u>>
      BY <1>9, Zenon
    <2>4. <<x, y, z, u>> \o <<v>> = <<x, y, z, u, v>>
      BY <1>7
    <2>5. <<z, u>> \o <<v>> = <<z, u, v>>
      BY <1>5, Zenon
    <2> QED  BY <2>2, <2>3, <2>4, <2>5, Zenon
  <1>12. <<begun>> \o <<done>> = <<begun, done>>
    BY <1>1, <1>4, Zenon
  <1>13. <<done>> \o <<category>> = <<done, category>>
    BY <1>1, <1>4, Zenon
  <1>14. <<begun, done>> \o <<category>> = <<begun, done, category>>
    BY <1>1, <1>5, Zenon
  <1>15. (<<>> \o <<done>>) \o <<>> = <<done>> /\ <<>> \o <<done>> = <<done>>
    BY <1>2, <1>3
  <1>16. (<<>> \o <<done>>) \o <<category>> = <<done, category>>
    BY <1>13, <1>15, Zenon
  <1>17. (<<begun>> \o <<done>>) \o <<>> = <<begun, done>>
    BY <1>2, <1>3, <1>12, Zenon
  <1>18. (<<begun>> \o <<done>>) \o <<category>> = <<begun, done, category>>
    BY <1>12, <1>14, Zenon
  <1>19. CASE answer = "none"
    <2>1. Before(answer) = <<>> /\ Started(answer) = <<begun>> /\ Ended(answer) = <<begun, done>>
      BY <1>19 DEF Before, Started, Ended, begun, done
    <2>2. EndedBadly(answer, category) = <<begun, done, category>>
      BY <1>19 DEF EndedBadly, begun, done
    <2>3. <<>> \o <<begun>> = <<begun>> /\ <<>> \o <<>> = <<>> /\ <<req>> \o <<>> = <<req>>
      BY <1>2, <1>3, Zenon
    <2>4. <<begun>> \o <<done, category>> = <<begun, done, category>>
      BY <1>1, <1>8, Zenon
    <2>5. <<>> \o <<begun, done>> = <<begun, done>> /\ <<>> \o <<begun, done, category>> = <<begun, done, category>>
      BY <1>2, <1>3, Zenon
    <2>6. /\ Before(answer) \o <<begun>> = Started(answer) /\ Before(answer) \o <<>> = Before(answer)
          /\ <<req>> \o <<>> = <<req>>
      BY <2>1, <2>3, Zenon
    <2>7. Started(answer) \o ((<<>> \o <<done>>) \o <<>>) = Ended(answer)
      BY <1>15, <1>12, <2>1, Zenon
    <2>8. Started(answer) \o ((<<>> \o <<done>>) \o <<category>>) = EndedBadly(answer, category)
      BY <1>16, <2>1, <2>2, <2>4, Zenon
    <2>9. Before(answer) \o ((<<begun>> \o <<done>>) \o <<>>) = Ended(answer)
      BY <1>17, <2>1, <2>5, Zenon
    <2>10. Before(answer) \o ((<<begun>> \o <<done>>) \o <<category>>) = EndedBadly(answer, category)
      BY <1>18, <2>1, <2>2, <2>5, Zenon
    <2> QED  BY <2>6, <2>7, <2>8, <2>9, <2>10, Zenon DEF req, begun, done
  <1>20. CASE answer # "none"
    <2>1. Before(answer) = <<req, dec>> /\ Started(answer) = <<req, dec, begun>>
      BY <1>20 DEF Before, Started, begun, req, dec
    <2>2. Ended(answer) = <<req, dec, begun, done>> /\ EndedBadly(answer, category) = <<req, dec, begun, done, category>>
      BY <1>20 DEF Ended, EndedBadly, begun, done, req, dec
    <2>3. <<req, dec>> \o <<begun>> = <<req, dec, begun>>
      BY <1>1, <1>5, Zenon
    <2>4. <<req, dec, begun>> \o <<done>> = <<req, dec, begun, done>>
      BY <1>1, <1>6, Zenon
    <2>5. <<req, dec>> \o <<begun, done>> = <<req, dec, begun, done>>
      BY <1>1, <1>9, Zenon
    <2>6. <<req, dec, begun>> \o <<done, category>> = <<req, dec, begun, done, category>>
      BY <1>1, <1>10
    <2>7. <<req, dec>> \o <<begun, done, category>> = <<req, dec, begun, done, category>>
      BY <1>1, <1>11
    <2>8. <<req, dec>> \o <<>> = <<req, dec>> /\ <<req>> \o <<>> = <<req>>
      BY <1>2, <1>3, Zenon
    <2>9. /\ Before(answer) \o <<begun>> = Started(answer) /\ Before(answer) \o <<>> = Before(answer)
          /\ <<req>> \o <<>> = <<req>>
      BY <2>1, <2>3, <2>8, Zenon
    <2>10. Started(answer) \o ((<<>> \o <<done>>) \o <<>>) = Ended(answer)
      BY <1>15, <2>1, <2>2, <2>4, Zenon
    <2>11. Started(answer) \o ((<<>> \o <<done>>) \o <<category>>) = EndedBadly(answer, category)
      BY <1>16, <2>1, <2>2, <2>6, Zenon
    <2>12. Before(answer) \o ((<<begun>> \o <<done>>) \o <<>>) = Ended(answer)
      BY <1>17, <2>1, <2>2, <2>5, Zenon
    <2>13. Before(answer) \o ((<<begun>> \o <<done>>) \o <<category>>) = EndedBadly(answer, category)
      BY <1>18, <2>1, <2>2, <2>7, Zenon
    <2> QED  BY <2>9, <2>10, <2>11, <2>12, <2>13, Zenon DEF req, begun, done
  <1> QED  BY <1>19, <1>20

\* decide_tool_call answers one of the three.
LEMMA DecisionAnswers ==
    ASSUME Drawn
    PROVE  G!Decide(asked, policy) \in Answers
  <1>1. G!SessionDecision(asked, policy) \in Answers
    BY PoliciesAreKnown, SessionAnswers DEF Drawn, IsMode
  <1> QED  BY <1>1 DEF G!Decide, Answers

\* A result is failed and intercepted, or not.
LEMMA ResultsAreKnown ==
    /\ ~G!NoResult.intercepted /\ ~Malformed(G!NoResult) /\ ~Refused(G!NoResult)
    /\ \A r : Malformed(r) \/ Refused(r) => r.intercepted /\ r.status = "failed" /\ r # G!NoResult
    /\ G!Failed("approval", "none", TRUE).intercepted
    /\ ~G!Failed("registry", "none", FALSE).intercepted
    /\ \A r \in G!Outcomes : ~r.intercepted
  <1>1. ~G!NoResult.intercepted
    BY DEF G!NoResult
  <1>2. ASSUME NEW r, Malformed(r) \/ Refused(r) PROVE r.intercepted /\ r.status = "failed"
    BY <1>2 DEF Malformed, Refused, G!Failed
  <1>3. G!Failed("approval", "none", TRUE).intercepted /\ ~G!Failed("registry", "none", FALSE).intercepted
    BY DEF G!Failed
  <1>4. ASSUME NEW r \in G!Outcomes PROVE ~r.intercepted
    BY <1>4 DEF G!Outcomes, G!Failed
  <1> QED  BY <1>1, <1>2, <1>3, <1>4

LEMMA GateInductive == GateInv /\ [G!Next]_(G!vars) => GateInv'
  <1> SUFFICES ASSUME GateInv, [G!Next]_(G!vars) PROVE GateInv'
    OBVIOUS
  <1>1. CASE UNCHANGED G!vars
    BY <1>1 DEF G!vars, GateInv, Drawn, Staged, NotBegun, Permit, Granted, Result
  <1>2. Drawn /\ Staged
    BY DEF GateInv
  <1>3. CASE G!Prepare
    <2>1. /\ stage = "raw" /\ stage' = "prepared" /\ asked' = asked /\ policy' = policy
          /\ approved' = approved /\ entered' = entered /\ heard' = heard
      BY <1>3 DEF G!Prepare
    <2>2. NotBegun /\ approved = "none" /\ heard = <<>>
      BY <1>2, <2>1 DEF Staged
    <2>3. CASE asked.flaw # "none"
      <3>1. outcome' = G!Failed("validation", G!ValidationError(asked.flaw)[1], TRUE)
        BY <1>3, <2>3 DEF G!Prepare
      <3>2. G!ValidationError(asked.flaw)[1] \in ErrorKinds
        <4>1. asked.flaw \in G!Broken
          BY <1>2, <2>3, CallsAreKnown DEF Drawn
        <4> QED  BY <4>1 DEF G!Broken, G!ValidationError, ErrorKinds
      <3>3. Malformed(outcome)'
        BY <3>1, <3>2 DEF Malformed
      <3> QED  BY <1>2, <2>1, <2>2, <3>3 DEF GateInv, Drawn, Staged, NotBegun
    <2>4. CASE asked.flaw = "none"
      <3>1. /\ outcome' = G!NoResult \/ outcome' = G!Failed("permission", "none", TRUE)
            /\ decision' = G!Decide(asked, policy)
        BY <1>3, <2>4 DEF G!Prepare
      <3> QED  BY <1>2, <2>1, <2>2, <2>4, <3>1 DEF GateInv, Drawn, Staged, NotBegun
    <2> QED  BY <2>3, <2>4
  <1>4. CASE G!TakeUp
    <2>1. /\ stage = "prepared" /\ asked' = asked /\ policy' = policy /\ decision' = decision
          /\ approved' = approved /\ entered' = entered /\ heard' = heard
      BY <1>4 DEF G!TakeUp
    <2>2. /\ ~entered /\ approved = "none" /\ heard = <<>>
          /\ \/ Malformed(outcome)
             \/ /\ outcome = G!NoResult \/ outcome = G!Failed("permission", "none", TRUE)
                /\ asked.flaw = "none" /\ decision = G!Decide(asked, policy)
      BY <1>2, <2>1 DEF Staged
    <2>3. Before("none") = <<>>
      BY DEF Before
    <2>4. Drawn'
      BY <1>2, <2>1 DEF Drawn
    <2>5. CASE stage' = "aborted"
      <3>1. Staged'
        BY <2>1, <2>2, <2>3, <2>5 DEF Staged
      <3> QED  BY <2>4, <3>1 DEF GateInv
    <2>6. CASE stage' = "executed" /\ (Malformed(outcome') \/ Refused(outcome'))
      <3>1. Result' /\ outcome'.intercepted
        BY <2>1, <2>2, <2>6, ResultsAreKnown DEF Result
      <3>2. Staged'
        BY <2>1, <2>2, <2>3, <2>6, <3>1 DEF Staged
      <3> QED  BY <2>4, <3>2 DEF GateInv
    <2>7. CASE outcome = G!NoResult /\ stage' = "guarded" /\ outcome' = outcome
      <3>1. asked.flaw = "none" /\ decision = G!Decide(asked, policy)
        BY <2>2, <2>7, ResultsAreKnown
      <3>2. Staged'
        BY <2>1, <2>2, <2>7, <3>1 DEF Staged, NotBegun
      <3> QED  BY <2>4, <3>2 DEF GateInv
    <2>8. Refused(G!Failed("budget", "none", TRUE)) /\ Refused(G!Failed("permission", "none", TRUE))
      BY DEF Refused
    <2> QED  BY <1>4, <2>2, <2>5, <2>6, <2>7, <2>8 DEF G!TakeUp
  <1>5. CASE G!BeforeTool
    <2>1. /\ stage = "guarded" /\ asked' = asked /\ policy' = policy /\ decision' = decision
          /\ approved' = approved /\ entered' = entered
      BY <1>5 DEF G!BeforeTool
    <2>2. /\ ~entered /\ outcome = G!NoResult /\ approved = "none" /\ heard = <<>>
          /\ asked.flaw = "none" /\ decision = G!Decide(asked, policy)
      BY <1>2, <2>1 DEF Staged, NotBegun
    <2>3. Drawn' /\ decision \in {"deny", "ask", "allow"}
      BY <1>2, <2>1, <2>2, DecisionAnswers DEF Drawn, Answers
    <2>4. Before("none") = <<>> /\ <<>> \o <<>> = <<>> /\ <<>> \o <<"approval_requested">> = <<"approval_requested">>
      <3>1. <<>> \in Seq({"approval_requested"}) /\ <<"approval_requested">> \in Seq({"approval_requested"})
        OBVIOUS
      <3>2. <<>> \o <<>> = <<>> /\ <<>> \o <<"approval_requested">> = <<"approval_requested">>
        BY <3>1, ConcatEmptySeq
      <3> QED  BY <3>2 DEF Before
    <2>5. asked.broad \in BOOLEAN
      BY <1>2, CallsAreKnown DEF Drawn
    <2>6. CASE stage' = "executed" /\ Refused(outcome') /\ heard' = <<>>
      <3>1. Result' /\ outcome'.intercepted
        BY <2>1, <2>2, <2>6, ResultsAreKnown DEF Result
      <3>2. Staged'
        BY <2>1, <2>2, <2>4, <2>6, <3>1 DEF Staged
      <3> QED  BY <2>3, <3>2 DEF GateInv
    <2>7. CASE ~asked.broad /\ decision = "ask"
      <3>1. stage' = "asking" /\ outcome' = outcome /\ heard' = <<"approval_requested">>
        BY <1>5, <2>2, <2>4, <2>7 DEF G!BeforeTool, G!Tell
      <3>2. Permit'
        BY <2>1, <2>2, <2>7 DEF Permit
      <3>3. Staged'
        BY <2>1, <2>2, <2>7, <3>1, <3>2 DEF Staged, NotBegun
      <3> QED  BY <2>3, <3>3 DEF GateInv
    <2>8. CASE ~asked.broad /\ decision = "allow"
      <3>1. stage' = "allowed" /\ outcome' = outcome /\ heard' = <<>>
        BY <1>5, <2>2, <2>4, <2>8 DEF G!BeforeTool, G!Tell
      <3>2. Granted'
        BY <2>1, <2>2, <2>8 DEF Permit, Granted
      <3>3. Staged'
        BY <2>1, <2>2, <2>4, <3>1, <3>2 DEF Staged, NotBegun
      <3> QED  BY <2>3, <3>3 DEF GateInv
    <2>9. Refused(G!Failed("tool_policy", "none", TRUE)) /\ Refused(G!Failed("permission", "none", TRUE))
      BY DEF Refused
    <2>10. CASE asked.broad
      BY <1>5, <2>2, <2>4, <2>6, <2>9, <2>10 DEF G!BeforeTool, G!Tell
    <2>11. CASE ~asked.broad /\ decision = "deny"
      BY <1>5, <2>2, <2>4, <2>6, <2>9, <2>11 DEF G!BeforeTool, G!Tell
    <2> QED  BY <2>3, <2>5, <2>7, <2>8, <2>10, <2>11
  <1>6. CASE G!Approval
    <2>1. /\ stage = "asking" /\ asked' = asked /\ policy' = policy /\ decision' = decision
          /\ entered' = entered
      BY <1>6 DEF G!Approval
    <2>2. /\ ~entered /\ outcome = G!NoResult /\ approved = "none" /\ heard = <<"approval_requested">>
          /\ Permit /\ decision = "ask"
      BY <1>2, <2>1 DEF Staged, NotBegun
    <2>3. Drawn' /\ (Permit => Permit')
      BY <1>2, <2>1 DEF Drawn, Permit
    <2>4. <<"approval_requested">> \o <<>> = <<"approval_requested">>
      BY Appended
    <2>5. <<"approval_requested">> \o <<"approval_decided">> = <<"approval_requested", "approval_decided">>
      <3> DEFINE Both == {"approval_requested", "approval_decided"}
      <3>1. "approval_requested" \in Both /\ "approval_decided" \in Both /\ <<"approval_requested">> \in Seq(Both)
        OBVIOUS
      <3>2. Append(<<"approval_requested">>, "approval_decided") = <<"approval_requested">> \o <<"approval_decided">>
        BY <3>1, AppendIsConcat
      <3>3. Append(<<"approval_requested">>, "approval_decided") = <<"approval_requested", "approval_decided">>
        BY <3>1, Grown
      <3> QED  BY <3>2, <3>3, Zenon
    <2>6. CASE approved' = "yes" /\ stage' = "allowed" /\ outcome' = outcome /\ heard' = heard \o <<"approval_decided">>
      <3>1. heard' = Before(approved')
        BY <2>2, <2>5, <2>6 DEF Before
      <3>2. Granted'
        BY <2>1, <2>2, <2>3, <2>6 DEF Granted
      <3>3. Staged'
        BY <2>1, <2>2, <2>6, <3>1, <3>2 DEF Staged, NotBegun
      <3> QED  BY <2>3, <3>3 DEF GateInv
    <2>7. CASE approved' = "no" /\ stage' = "executed" /\ outcome' = G!Failed("approval", "none", TRUE)
               /\ heard' = heard \o <<"approval_decided">>
      <3>1. heard' = Before(approved')
        BY <2>2, <2>5, <2>7 DEF Before
      <3>2. Result' /\ outcome'.intercepted
        BY <2>1, <2>2, <2>7, ResultsAreKnown DEF Result
      <3>3. Staged'
        BY <2>1, <2>2, <2>7, <3>1, <3>2 DEF Staged
      <3> QED  BY <2>3, <3>3 DEF GateInv
    <2>8. CASE stage' = "aborted" /\ heard' = heard \o <<>>
      <3>1. Staged'
        BY <2>1, <2>2, <2>4, <2>8 DEF Staged
      <3> QED  BY <2>3, <3>1 DEF GateInv
    <2> QED  BY <1>6, <2>6, <2>7, <2>8 DEF G!Approval, G!Tell
  <1>7. CASE G!Start
    <2>1. /\ stage = "allowed" /\ stage' = "running" /\ heard' = heard \o <<"tool_call">>
          /\ UNCHANGED <<asked, policy, decision, approved, entered, outcome>>
      BY <1>7 DEF G!Start, G!Tell
    <2>2. NotBegun /\ Granted /\ heard = Before(approved)
      BY <1>2, <2>1 DEF Staged
    <2>3. heard' = Started(approved)
      BY <2>1, <2>2, Appended
    <2>4. Drawn' /\ NotBegun' /\ Granted'
      BY <1>2, <2>1, <2>2 DEF Drawn, NotBegun, Granted, Permit
    <2>5. Staged'
      BY <2>1, <2>3, <2>4 DEF Staged
    <2> QED  BY <2>4, <2>5 DEF GateInv
  <1>8. CASE G!Run
    <2>1. /\ stage = "running" /\ stage' = "executed"
          /\ UNCHANGED <<asked, policy, decision, approved, heard>>
          /\ \/ entered' = TRUE /\ outcome' \in G!Outcomes
             \/ entered' = entered /\ outcome' = G!Failed("registry", "none", FALSE)
      BY <1>8 DEF G!Run
    <2>2. ~entered /\ Granted /\ heard = Started(approved)
      BY <1>2, <2>1 DEF Staged, NotBegun
    <2>3. Drawn' /\ Granted' /\ approved' \in {"none", "yes"}
      BY <1>2, <2>1, <2>2 DEF Drawn, Granted, Permit
    <2>4. Result' /\ ~outcome'.intercepted
      <3>1. CASE entered' = TRUE /\ outcome' \in G!Outcomes
        BY <2>3, <3>1, ResultsAreKnown DEF Result
      <3>2. CASE entered' = entered /\ outcome' = G!Failed("registry", "none", FALSE)
        BY <2>2, <2>3, <3>2, ResultsAreKnown DEF Result
      <3> QED  BY <2>1, <3>1, <3>2
    <2>5. Staged'
      BY <2>1, <2>2, <2>4 DEF Staged
    <2> QED  BY <2>3, <2>5 DEF GateInv
  <1>9. CASE G!Abandon
    <2>1. /\ stage' = "aborted" /\ UNCHANGED <<asked, policy, decision, approved, outcome, heard>>
          /\ \/ stage = "running" /\ entered' \in BOOLEAN
             \/ stage = "executed" /\ entered' = entered
      BY <1>9 DEF G!Abandon
    <2>2. Drawn'
      BY <1>2, <2>1 DEF Drawn
    <2>3. (entered' => Granted)
          /\ \E answer \in {"none", "yes"} : heard = Before(answer) \/ heard = Started(answer)
      <3>1. CASE stage = "running"
        BY <1>2, <2>1, <3>1 DEF Staged, Granted
      <3>2. CASE stage = "executed"
        <4>1. Result /\ (heard = Before(approved) \/ heard = Started(approved))
          BY <1>2, <3>2 DEF Staged
        <4>2. Before("no") = Before("yes") /\ Started("no") = Started("yes")
          BY DEF Before, Started
        <4>3. approved \in {"none", "yes", "no"} /\ (entered => Granted)
          BY <4>1 DEF Result
        <4> QED  BY <2>1, <3>2, <4>1, <4>2, <4>3
      <3> QED  BY <2>1, <3>1, <3>2
    <2>4. Granted => Granted'
      BY <2>1 DEF Granted, Permit
    <2>5. Staged'
      BY <2>1, <2>3, <2>4 DEF Staged
    <2> QED  BY <2>2, <2>5 DEF GateInv
  <1>10. CASE G!Record
    <2>1. /\ stage = "executed" /\ stage' = "recorded"
          /\ UNCHANGED <<asked, policy, decision, approved, entered, outcome>>
      BY <1>10 DEF G!Record
    <2>2. heard' = heard \o (((IF outcome.intercepted THEN <<"tool_call">> ELSE <<>>) \o <<"tool_result">>)
                     \o (IF outcome.status = "failed" THEN <<G!EventCategory(outcome)>> ELSE <<>>))
      BY <1>10 DEF G!Record, G!Tell
    <2>3. Result /\ heard = IF outcome.intercepted THEN Before(approved) ELSE Started(approved)
      BY <1>2, <2>1 DEF Staged
    <2>4. Drawn' /\ Result'
      BY <1>2, <2>1, <2>3 DEF Drawn, Result, Granted, Permit
    <2>5. heard' = IF outcome.status = "failed"
                   THEN EndedBadly(approved, G!EventCategory(outcome)) ELSE Ended(approved)
      <3>1. CASE outcome.intercepted /\ outcome.status = "failed"
        BY <2>2, <2>3, <3>1, Appended
      <3>2. CASE outcome.intercepted /\ outcome.status # "failed"
        BY <2>2, <2>3, <3>2, Appended
      <3>3. CASE ~outcome.intercepted /\ outcome.status = "failed"
        BY <2>2, <2>3, <3>3, Appended
      <3>4. CASE ~outcome.intercepted /\ outcome.status # "failed"
        BY <2>2, <2>3, <3>4, Appended
      <3> QED  BY <3>1, <3>2, <3>3, <3>4
    <2>6. Staged'
      <3>1. heard' = IF outcome'.status = "failed"
                     THEN EndedBadly(approved', G!EventCategory(outcome)') ELSE Ended(approved')
        BY <2>1, <2>5
      <3> QED  BY <2>1, <2>4, <3>1 DEF Staged
    <2> QED  BY <2>4, <2>6 DEF GateInv
  <1> QED  BY <1>1, <1>3, <1>4, <1>5, <1>6, <1>7, <1>8, <1>9, <1>10 DEF G!Next

\* Of the invariant: what ran was allowed by the policy, or asked for and granted.
LEMMA RunsFollowed == GateInv => G!RunsArePermitted
  <1> SUFFICES ASSUME GateInv, entered PROVE
          /\ asked.flaw = "none" /\ ~asked.broad
          /\ policy.mode = "read-only" =>
                asked.permission # "edit" /\ ~G!Writes(asked.shell) /\ "git" \notin asked.shell.effects
          /\ policy.role = "worker" /\ asked.permission = "edit" => asked.inside
          /\ policy.preset => ~G!WritesWorkspace(asked.shell)
          /\ decision = "ask" => approved = "yes"
    BY DEF G!RunsArePermitted
  <1>1. Granted
    <2>1. stage \in {"raw", "prepared", "guarded", "asking", "allowed", "running", "executed", "recorded", "aborted"}
      BY DEF GateInv, Staged
    <2>2. CASE stage \in {"raw", "prepared", "guarded", "asking", "allowed", "running"}
      BY <2>2 DEF GateInv, Staged, NotBegun
    <2>3. CASE stage = "executed"
      BY <2>3 DEF GateInv, Staged, Result
    <2>4. CASE stage = "recorded"
      BY <2>4 DEF GateInv, Staged, Result
    <2>5. CASE stage = "aborted"
      BY <2>5 DEF GateInv, Staged
    <2> QED  BY <2>1, <2>2, <2>3, <2>4, <2>5
  <1>2. /\ asked.flaw = "none" /\ ~asked.broad /\ (decision = "ask" => approved = "yes")
        /\ G!Decide(asked, policy) # "deny"
    BY <1>1 DEF Granted, Permit
  <1>3. /\ asked \in G!Calls /\ policy \in G!Policies
        /\ asked.permission # "shell" => asked.shell = G!NoShell
        /\ asked.shell.scope \in {"workspace", "external", "system"}
    BY CallsAreKnown DEF GateInv, Drawn, KnownShell
  <1>4. ~G!Writes(G!NoShell) /\ "git" \notin G!NoShell.effects /\ ~G!WritesWorkspace(G!NoShell)
    BY DEF G!NoShell, G!Writes, G!WritesWorkspace
  <1>5. G!SessionDecision(asked, policy) # "deny"
    BY <1>2 DEF G!Decide
  <1>6. policy.preset => ~G!WritesWorkspace(asked.shell)
    BY <1>2, <1>3, <1>4 DEF G!Decide
  <1>7. policy.role = "worker" /\ asked.permission = "edit" => asked.inside
    BY <1>5 DEF G!SessionDecision, G!DecideStructured
  <1>8. policy.mode = "read-only" => asked.permission # "edit"
    BY <1>5 DEF G!SessionDecision, G!DecideStructured
  <1>9. ASSUME policy.mode = "read-only", asked.permission = "shell"
        PROVE  ~G!Writes(asked.shell) /\ "git" \notin asked.shell.effects
    <2>1. policy.role # "worker"
      BY <1>3, <1>9, PoliciesAreKnown
    <2>2. \A k \in {1, 2, 3, 4} : G!ShellPreset(policy)[k] = "deny"
      BY <1>9, <2>1, PresetAnswers
    <2>3. G!DecideShell(asked.shell, policy) # "deny"
      BY <1>5, <1>9 DEF G!SessionDecision
    <2> QED  BY <1>3, <2>2, <2>3, ShellAnswers
  <1> QED  BY <1>2, <1>3, <1>4, <1>6, <1>7, <1>8, <1>9

\* What is said of a failure, by where it comes from.
LEMMA KindsAreKnown ==
    /\ \A kind \in ErrorKinds :
          /\ G!KindOf(G!Failed("validation", kind, TRUE)) = kind
          /\ G!Category(kind) \in {"invalid_call", "policy"} /\ kind # "approval_denied"
    /\ G!KindOf(G!Failed("permission", "none", TRUE)) = "permission_denied"
    /\ G!KindOf(G!Failed("budget", "none", TRUE)) = "budget_exceeded"
    /\ G!KindOf(G!Failed("tool_policy", "none", TRUE)) = "policy_violation"
    /\ G!KindOf(G!Failed("approval", "none", TRUE)) = "approval_denied"
    /\ G!KindOf(G!Failed("registry", "none", FALSE)) = "unknown_tool"
    /\ G!Category("permission_denied") = "policy" /\ G!Category("budget_exceeded") = "resource"
    /\ G!Category("policy_violation") = "policy" /\ G!Category("approval_denied") = "policy"
    /\ G!Category("unknown_tool") = "invalid_call"
  <1>1. ASSUME NEW kind \in ErrorKinds PROVE G!KindOf(G!Failed("validation", kind, TRUE)) = kind
    BY <1>1 DEF G!KindOf, G!Failed, ErrorKinds
  <1>2. ASSUME NEW kind \in ErrorKinds
        PROVE  G!Category(kind) \in {"invalid_call", "policy"} /\ kind # "approval_denied"
    BY <1>2 DEF G!Category, G!KindSpec, ErrorKinds
  <1>3. /\ G!KindOf(G!Failed("permission", "none", TRUE)) = "permission_denied"
        /\ G!KindOf(G!Failed("budget", "none", TRUE)) = "budget_exceeded"
        /\ G!KindOf(G!Failed("tool_policy", "none", TRUE)) = "policy_violation"
        /\ G!KindOf(G!Failed("approval", "none", TRUE)) = "approval_denied"
        /\ G!KindOf(G!Failed("registry", "none", FALSE)) = "unknown_tool"
    BY DEF G!KindOf, G!Failed
  <1>4. /\ G!Category("permission_denied") = "policy" /\ G!Category("budget_exceeded") = "resource"
        /\ G!Category("policy_violation") = "policy" /\ G!Category("approval_denied") = "policy"
        /\ G!Category("unknown_tool") = "invalid_call"
    BY DEF G!Category, G!KindSpec
  <1> QED  BY <1>1, <1>2, <1>3, <1>4

\* The failures of a handler are failures of execution, of a policy or of a resource, or, where its
\* own validation fails, of the arguments; and none is told as the user's refusal.
HandlerKinds ==
    {"timeout", "quota_exceeded", "subagent_capacity", "profile_blocked", "user_attention_required",
     "tool_internal_error", "command_not_found", "file_not_found", "process_failed", "execution_failed"}

LEMMA HandlersFail ==
    ASSUME NEW r \in G!Outcomes, r.status = "failed"
    PROVE  /\ G!KindOf(r) \in HandlerKinds \/ (r.source = "validation" /\ G!KindOf(r) = "invalid_arguments")
           /\ r.source # "approval"
  <1>1. \/ r.hint = "none" /\ r.source \in {"native", "shell", "mcp", "exception", "workspace_conflict",
                                           "validation", "user_question", "agent_policy"}
        \/ r.source = "shell" /\ r.hint \in {"timed_out", "no_such_command", "no_such_file", "traceback"}
        \/ r.source = "resource" /\ r.hint \in {"subagent_capacity", "workspace_quota"}
    BY DEF G!Outcomes, G!Failed
  <1>2. CASE r.source = "shell" /\ r.hint = "none"
    <2>1. G!KindOf(r) = "process_failed"
      BY <1>2 DEF G!KindOf
    <2> QED  BY <1>2, <2>1 DEF HandlerKinds
  <1>3. CASE r.source = "shell" /\ r.hint \in {"timed_out", "no_such_command", "no_such_file", "traceback"}
    <2>1. G!KindOf(r) \in {"timeout", "command_not_found", "file_not_found", "tool_internal_error"}
      BY <1>3 DEF G!KindOf
    <2> QED  BY <1>3, <2>1 DEF HandlerKinds
  <1>4. CASE r.source = "resource" /\ r.hint \in {"subagent_capacity", "workspace_quota"}
    <2>1. G!KindOf(r) \in {"subagent_capacity", "quota_exceeded"}
      BY <1>4 DEF G!KindOf
    <2> QED  BY <1>4, <2>1 DEF HandlerKinds
  <1>5. CASE r.source = "validation" /\ r.hint = "none"
    BY <1>5 DEF G!KindOf
  <1>6. CASE r.hint = "none" /\ r.source \in {"native", "mcp", "workspace_conflict"}
    <2>1. G!KindOf(r) = "execution_failed"
      BY <1>6 DEF G!KindOf
    <2> QED  BY <1>6, <2>1 DEF HandlerKinds
  <1>7. CASE r.hint = "none" /\ r.source \in {"exception", "user_question", "agent_policy"}
    <2>1. G!KindOf(r) \in {"tool_internal_error", "user_attention_required", "profile_blocked"}
      BY <1>7 DEF G!KindOf
    <2> QED  BY <1>7, <2>1 DEF HandlerKinds
  <1> QED  BY <1>1, <1>2, <1>3, <1>4, <1>5, <1>6, <1>7

\* A category of the events.
Named == {"validation_error", "user_cancelled", "tool_error", "runtime_error"}

LEMMA CategoriesAreKnown ==
    ASSUME NEW r
    PROVE  /\ G!EventCategory(r) \in Named
           /\ G!EventCategory(r) = "user_cancelled" <=> G!KindOf(r) = "approval_denied"
  <1>1. G!Category(G!KindOf(r)) \in {"invalid_call", "policy", "resource", "verification", "execution"}
    BY DEF G!Category, G!KindSpec
  <1>2. G!KindOf(r) = "approval_denied" => G!Category(G!KindOf(r)) = "policy"
    BY KindsAreKnown
  <1> QED  BY <1>1, <1>2 DEF G!EventCategory, Named

LEMMA FailuresFollowed == GateInv => G!FailuresAreTrue
  <1> SUFFICES ASSUME GateInv PROVE G!FailuresAreTrue
    OBVIOUS
  <1>1. ASSUME stage = "recorded", outcome.status = "failed"
        PROVE  /\ ~entered => G!Category(G!KindOf(outcome)) \in {"invalid_call", "policy", "resource"}
               /\ entered => G!Category(G!KindOf(outcome)) # "invalid_call" \/ outcome.source = "validation"
               /\ G!EventCategory(outcome) = "user_cancelled" <=> approved = "no"
    <2>1. Result
      BY <1>1 DEF GateInv, Staged
    <2>2. G!EventCategory(outcome) = "user_cancelled" <=> G!KindOf(outcome) = "approval_denied"
      BY CategoriesAreKnown
    <2>3. CASE ~entered /\ approved = "none" /\ (Malformed(outcome) \/ Refused(outcome))
      BY <2>2, <2>3, KindsAreKnown DEF Malformed, Refused
    <2>4. CASE ~entered /\ approved = "no" /\ outcome = G!Failed("approval", "none", TRUE)
      BY <2>2, <2>4, KindsAreKnown
    <2>5. CASE approved \in {"none", "yes"} /\ entered /\ outcome \in G!Outcomes
      <3>1. \/ G!KindOf(outcome) \in HandlerKinds
            \/ outcome.source = "validation" /\ G!KindOf(outcome) = "invalid_arguments"
        BY <1>1, <2>5, HandlersFail
      <3>2. \A kind \in HandlerKinds : G!Category(kind) # "invalid_call" /\ kind # "approval_denied"
        BY DEF HandlerKinds, G!Category, G!KindSpec
      <3> QED  BY <2>2, <2>5, <3>1, <3>2
    <2>6. CASE approved \in {"none", "yes"} /\ ~entered /\ outcome = G!Failed("registry", "none", FALSE)
      BY <2>2, <2>6, KindsAreKnown
    <2> QED  BY <2>1, <2>3, <2>4, <2>5, <2>6 DEF Result
  <1>2. ASSUME asked.flaw # "none"
        PROVE  G!ValidationError(asked.flaw)[2] = G!Retryable(G!ValidationError(asked.flaw)[1])
    <2>1. asked.flaw \in G!Broken
      BY <1>2, CallsAreKnown DEF GateInv, Drawn
    <2>2. ASSUME NEW flaw \in G!Broken
          PROVE  G!ValidationError(flaw)[2] = G!Retryable(G!ValidationError(flaw)[1])
      <3>1. CASE flaw = "invalid_json"
        BY <3>1 DEF G!ValidationError, G!Retryable, G!KindSpec
      <3>2. CASE flaw = "unnamed"
        BY <3>2 DEF G!ValidationError, G!Retryable, G!KindSpec
      <3>3. CASE flaw = "unknown_tool"
        BY <3>3 DEF G!ValidationError, G!Retryable, G!KindSpec
      <3>4. CASE flaw = "tool_schema_error"
        BY <3>4 DEF G!ValidationError, G!Retryable, G!KindSpec
      <3>5. CASE flaw \in {"not_an_object", "schema_mismatch", "empty"}
        <4>1. G!ValidationError(flaw) = <<"invalid_arguments", TRUE>>
          BY <3>5 DEF G!ValidationError
        <4> QED  BY <4>1 DEF G!Retryable, G!KindSpec
      <3>6. CASE flaw = "workspace_escape"
        BY <3>6 DEF G!ValidationError, G!Retryable, G!KindSpec
      <3>7. CASE flaw = "interactive"
        BY <3>7 DEF G!ValidationError, G!Retryable, G!KindSpec
      <3> QED  BY <3>1, <3>2, <3>3, <3>4, <3>5, <3>6, <3>7 DEF G!Broken
    <2> QED  BY <2>1, <2>2
  <1> QED  BY <1>1, <1>2 DEF G!FailuresAreTrue

\* What the events tell, in order.
ToldInOrder(list) ==
    /\ \A i \in DOMAIN list : list[i] = "tool_result" =>
          \E j \in DOMAIN list : j < i /\ list[j] = "tool_call"
    /\ \A i \in DOMAIN list : list[i] = "approval_decided" =>
          \E j \in DOMAIN list : j < i /\ list[j] = "approval_requested"
    /\ \A i, j \in DOMAIN list : list[i] = "tool_call" /\ list[j] = "tool_call" => i = j

\* What is told of a call that has ended is complete.
ToldWhole(list) ==
    /\ \E i \in DOMAIN list : list[i] = "tool_call"
    /\ \E i \in DOMAIN list : list[i] = "tool_result"
    /\ \A i \in DOMAIN list : list[i] = "approval_requested" =>
          \E j \in DOMAIN list : list[j] = "approval_decided"

NoCategory(list) == Len(list) > 0 => list[Len(list)] \notin Named

LEMMA ListsAreWhole ==
    ASSUME NEW answer, NEW category \in Named
    PROVE  /\ ToldInOrder(<<"approval_requested">>) /\ ToldInOrder(Before(answer)) /\ ToldInOrder(Started(answer))
           /\ ToldInOrder(Ended(answer)) /\ ToldInOrder(EndedBadly(answer, category))
           /\ NoCategory(<<"approval_requested">>) /\ NoCategory(Before(answer)) /\ NoCategory(Started(answer))
           /\ NoCategory(Ended(answer)) /\ ToldWhole(Ended(answer)) /\ ToldWhole(EndedBadly(answer, category))
  <1>1. ToldInOrder(<<>>) /\ NoCategory(<<>>)
    BY DEF ToldInOrder, NoCategory
  <1>2. ToldInOrder(<<"approval_requested">>) /\ NoCategory(<<"approval_requested">>)
    <2>1. PICK list : list = <<"approval_requested">>
      OBVIOUS
    <2>2. DOMAIN list = {1} /\ Len(list) = 1
      BY <2>1
    <2>3. list[1] = "approval_requested"
      BY <2>1
    <2>4. ToldInOrder(list)
      BY <2>2, <2>3 DEF ToldInOrder, Named
    <2>5. NoCategory(list)
      BY <2>2, <2>3 DEF NoCategory, Named
    <2> QED  BY <2>1, <2>4, <2>5
  <1>3. ToldInOrder(<<"approval_requested", "approval_decided">>) /\ NoCategory(<<"approval_requested", "approval_decided">>)
    <2>1. PICK list : list = <<"approval_requested", "approval_decided">>
      OBVIOUS
    <2>2. DOMAIN list = {1, 2} /\ Len(list) = 2
      BY <2>1
    <2>3. list[1] = "approval_requested" /\ list[2] = "approval_decided"
      BY <2>1
    <2>4. ToldInOrder(list)
      BY <2>2, <2>3 DEF ToldInOrder, Named
    <2>5. NoCategory(list)
      BY <2>2, <2>3 DEF NoCategory, Named
    <2> QED  BY <2>1, <2>4, <2>5
  <1>4. ToldInOrder(<<"tool_call">>) /\ NoCategory(<<"tool_call">>)
    <2>1. PICK list : list = <<"tool_call">>
      OBVIOUS
    <2>2. DOMAIN list = {1} /\ Len(list) = 1
      BY <2>1
    <2>3. list[1] = "tool_call"
      BY <2>1
    <2>4. ToldInOrder(list)
      BY <2>2, <2>3 DEF ToldInOrder, Named
    <2>5. NoCategory(list)
      BY <2>2, <2>3 DEF NoCategory, Named
    <2> QED  BY <2>1, <2>4, <2>5
  <1>5. ToldInOrder(<<"approval_requested", "approval_decided", "tool_call">>) /\ NoCategory(<<"approval_requested", "approval_decided", "tool_call">>)
    <2>1. PICK list : list = <<"approval_requested", "approval_decided", "tool_call">>
      OBVIOUS
    <2>2. DOMAIN list = {1, 2, 3} /\ Len(list) = 3
      BY <2>1
    <2>3. list[1] = "approval_requested" /\ list[2] = "approval_decided" /\ list[3] = "tool_call"
      BY <2>1
    <2>4. ToldInOrder(list)
      BY <2>2, <2>3 DEF ToldInOrder, Named
    <2>5. NoCategory(list)
      BY <2>2, <2>3 DEF NoCategory, Named
    <2> QED  BY <2>1, <2>4, <2>5
  <1>6. ToldInOrder(<<"tool_call", "tool_result">>) /\ NoCategory(<<"tool_call", "tool_result">>) /\ ToldWhole(<<"tool_call", "tool_result">>)
    <2>1. PICK list : list = <<"tool_call", "tool_result">>
      OBVIOUS
    <2>2. DOMAIN list = {1, 2} /\ Len(list) = 2
      BY <2>1
    <2>3. list[1] = "tool_call" /\ list[2] = "tool_result"
      BY <2>1
    <2>4. ToldInOrder(list)
      BY <2>2, <2>3 DEF ToldInOrder, Named
    <2>5. NoCategory(list)
      BY <2>2, <2>3 DEF NoCategory, Named
    <2>6. ToldWhole(list)
      BY <2>2, <2>3 DEF ToldWhole, Named
    <2> QED  BY <2>1, <2>4, <2>5, <2>6
  <1>7. ToldInOrder(<<"approval_requested", "approval_decided", "tool_call", "tool_result">>) /\ NoCategory(<<"approval_requested", "approval_decided", "tool_call", "tool_result">>) /\ ToldWhole(<<"approval_requested", "approval_decided", "tool_call", "tool_result">>)
    <2>1. PICK list : list = <<"approval_requested", "approval_decided", "tool_call", "tool_result">>
      OBVIOUS
    <2>2. DOMAIN list = {1, 2, 3, 4} /\ Len(list) = 4
      BY <2>1
    <2>3. list[1] = "approval_requested" /\ list[2] = "approval_decided" /\ list[3] = "tool_call" /\ list[4] = "tool_result"
      BY <2>1
    <2>4. ToldInOrder(list)
      BY <2>2, <2>3 DEF ToldInOrder, Named
    <2>5. NoCategory(list)
      BY <2>2, <2>3 DEF NoCategory, Named
    <2>6. ToldWhole(list)
      BY <2>2, <2>3 DEF ToldWhole, Named
    <2> QED  BY <2>1, <2>4, <2>5, <2>6
  <1>8. ToldInOrder(<<"tool_call", "tool_result", category>>) /\ ToldWhole(<<"tool_call", "tool_result", category>>)
    <2>1. PICK list : list = <<"tool_call", "tool_result", category>>
      OBVIOUS
    <2>2. DOMAIN list = {1, 2, 3} /\ Len(list) = 3
      BY <2>1
    <2>3. list[1] = "tool_call" /\ list[2] = "tool_result" /\ list[3] = category
      BY <2>1
    <2>4. ToldInOrder(list)
      BY <2>2, <2>3 DEF ToldInOrder, Named
    <2>5. ToldWhole(list)
      BY <2>2, <2>3 DEF ToldWhole, Named
    <2> QED  BY <2>1, <2>4, <2>5
  <1>9. ToldInOrder(<<"approval_requested", "approval_decided", "tool_call", "tool_result", category>>) /\ ToldWhole(<<"approval_requested", "approval_decided", "tool_call", "tool_result", category>>)
    <2>1. PICK list : list = <<"approval_requested", "approval_decided", "tool_call", "tool_result", category>>
      OBVIOUS
    <2>2. DOMAIN list = {1, 2, 3, 4, 5} /\ Len(list) = 5
      BY <2>1
    <2>3. list[1] = "approval_requested" /\ list[2] = "approval_decided" /\ list[3] = "tool_call" /\ list[4] = "tool_result" /\ list[5] = category
      BY <2>1
    <2>4. ToldInOrder(list)
      BY <2>2, <2>3 DEF ToldInOrder, Named
    <2>5. ToldWhole(list)
      BY <2>2, <2>3 DEF ToldWhole, Named
    <2> QED  BY <2>1, <2>4, <2>5
  <1>10. CASE answer = "none"
    BY <1>1, <1>2, <1>4, <1>6, <1>8, <1>10 DEF Before, Started, Ended, EndedBadly
  <1>11. CASE answer # "none"
    BY <1>2, <1>3, <1>5, <1>7, <1>9, <1>11 DEF Before, Started, Ended, EndedBadly
  <1> QED  BY <1>10, <1>11

LEMMA EventsFollowed == GateInv => G!EventsAreWhole
  <1> SUFFICES ASSUME GateInv PROVE G!EventsAreWhole
    OBVIOUS
  <1>1. \A r : G!EventCategory(r) \in Named
    BY CategoriesAreKnown
  <1>2. CASE stage = "recorded"
    <2>1. heard = IF outcome.status = "failed"
                  THEN EndedBadly(approved, G!EventCategory(outcome)) ELSE Ended(approved)
      BY <1>2 DEF GateInv, Staged
    <2>2. ToldInOrder(heard) /\ ToldWhole(heard) /\ (outcome.status # "failed" => NoCategory(heard))
      BY <1>1, <2>1, ListsAreWhole
    <2> QED  BY <2>2 DEF G!EventsAreWhole, ToldInOrder, ToldWhole, NoCategory, Named
  <1>3. CASE stage # "recorded"
    <2>1. heard \in {<<>>, <<"approval_requested">>} \/ \E answer : heard = Before(answer) \/ heard = Started(answer)
      <3>1. CASE stage \in {"raw", "prepared", "guarded"}
        BY <3>1 DEF GateInv, Staged
      <3>2. CASE stage = "asking"
        BY <3>2 DEF GateInv, Staged
      <3>3. CASE stage = "allowed"
        BY <3>3 DEF GateInv, Staged
      <3>4. CASE stage = "running"
        BY <3>4 DEF GateInv, Staged
      <3>5. CASE stage = "executed"
        BY <3>5 DEF GateInv, Staged
      <3>6. CASE stage = "aborted"
        BY <3>6 DEF GateInv, Staged
      <3>7. stage \in {"raw", "prepared", "guarded", "asking", "allowed", "running", "executed", "aborted"}
        BY <1>3 DEF GateInv, Staged
      <3> QED  BY <3>1, <3>2, <3>3, <3>4, <3>5, <3>6, <3>7
    <2>2. Before("none") = <<>>
      BY DEF Before
    <2>3. "tool_error" \in Named
      BY DEF Named
    <2>4. ToldInOrder(heard) /\ NoCategory(heard)
      BY <2>1, <2>2, <2>3, ListsAreWhole
    <2> QED  BY <1>3, <2>4 DEF G!EventsAreWhole, ToldInOrder, NoCategory, Named
  <1> QED  BY <1>2, <1>3

\* One call runs only as decided, is decided on alike by stricter and wider policies, fails as what it
\* is and is told whole (decide_tool_call, execute_tool_result, ToolFailure.from_result).
THEOREM CallsAreGated ==
    G!Spec => [](G!DecisionsAreOrdered /\ G!RunsArePermitted /\ G!FailuresAreTrue /\ G!EventsAreWhole)
  <1>1. G!Init => GateInv
    BY GateInitially
  <1>2. GateInv /\ [G!Next]_(G!vars) => GateInv'
    BY GateInductive
  <1>3. GateInv => G!DecisionsAreOrdered /\ G!RunsArePermitted /\ G!FailuresAreTrue /\ G!EventsAreWhole
    BY DecisionsOrdered, RunsFollowed, FailuresFollowed, EventsFollowed DEF GateInv, Drawn
  <1> QED  BY <1>1, <1>2, <1>3, PTL DEF G!Spec

-----------------------------------------------------------------------------
(* Messages, tools and single calls in the run "turns".                     *)

\* Every call is answered, truly, and those that conflict keep apart (ToolExecutor.execute), where the
\* provider gives each call an id of its own; the tools the model is shown are those it may call
\* (search_tools); and one call runs only as decided and is told whole (decide_tool_call,
\* execute_tool_result).
THEOREM BatchesStaySound == ASSUME FreshIds PROVE MCSpec => []BatchesAreSound
  <1>1. MCInit => BatchInv /\ HistoryInv /\ DisclosureInv /\ GateInv
    BY BatchInitially, HistoryInitially, DisclosureInitially, GateInitially DEF MCInit
  <1>2. BatchInv /\ HistoryInv /\ [MCNext]_parts => BatchInv' /\ HistoryInv'
    <2>1. [MCNext]_parts => [X!Next]_(X!vars)
      BY DEF MCNext, Turn, Context, Batch, Failures, Tokens, Budget, Claims, Tools, Gate,
             Results, batch, parts, X!vars
    <2> QED  BY <2>1, BatchInductive, HistoryInductive
  <1>3. DisclosureInv /\ [MCNext]_parts => DisclosureInv'
    <2>1. [MCNext]_parts => [D!Next]_(D!vars)
      BY DEF MCNext, Turn, Context, Batch, Failures, Tokens, Budget, Claims, Tools, Gate,
             Results, tools, parts, D!vars
    <2> QED  BY <2>1, DisclosureInductive
  <1>4. GateInv /\ [MCNext]_parts => GateInv'
    <2>1. [MCNext]_parts => [G!Next]_(G!vars)
      BY DEF MCNext, Turn, Context, Batch, Failures, Tokens, Budget, Claims, Tools, Gate,
             Results, gate, parts, G!vars
    <2> QED  BY <2>1, GateInductive
  <1>5. BatchInv /\ HistoryInv => X!CallsAreAnswered /\ X!ConflictsKeepOrder /\ X!AnswersAreTrue
    BY BatchFollowed, HistoryFollowed
  <1>6. DisclosureInv => D!ShownIsCallable /\ D!DiscoverySurvives /\ D!RepetitionIsMounted
    BY DisclosureFollowed
  <1>7. GateInv =>
          G!DecisionsAreOrdered /\ G!RunsArePermitted /\ G!FailuresAreTrue /\ G!EventsAreWhole
    BY DecisionsOrdered, RunsFollowed, FailuresFollowed, EventsFollowed DEF GateInv, Drawn
  <1> QED  BY <1>1, <1>2, <1>3, <1>4, <1>5, <1>6, <1>7, PTL DEF MCSpec, parts, BatchesAreSound

=============================================================================
