-------------------------- MODULE ExclusiveRegions --------------------------
(***************************************************************************)
(* What the write leases of a workspace promise, with nothing said of the  *)
(* database, the processes and the polling that implement them.            *)
(*                                                                         *)
(* Each thread holds a set of claims on behalf of an owner.  Claims may be *)
(* taken only when they conflict with nothing that another owner holds;    *)
(* they may be dropped at any time, those of several threads at once (a    *)
(* process dies with all of its threads).                                  *)
(***************************************************************************)
EXTENDS ToolCalls

CONSTANTS
    Thread,     \* the threads that ask for leases
    Owner,      \* [Thread -> identity the thread's leases are taken under]
    Claim       \* the claims that exist

VARIABLE held   \* [Thread -> SUBSET Claim]

Init == held = [t \in Thread |-> {}]

\* Thread t takes all of the claims, or none of them.
Take(t, claims) ==
    /\ \A u \in Thread :
          Owner[u] # Owner[t] => ~SetsConflict(claims, held[u])
    /\ held' = [held EXCEPT ![t] = @ \cup claims]

\* Some threads give claims back.
Drop ==
    /\ held' \in [Thread -> SUBSET Claim]
    /\ \A t \in Thread : held'[t] \subseteq held[t]

Next ==
    \/ \E t \in Thread, claims \in SUBSET Claim : Take(t, claims)
    \/ Drop

Spec == Init /\ [][Next]_held

=============================================================================
