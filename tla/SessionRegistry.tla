--------------------------- MODULE SessionRegistry ---------------------------
(***************************************************************************)
(* The sessions of the workbenches of one project                          *)
(* (core/session_runtime_registry.py): each process has a table of session  *)
(* runtimes, opened by the loop over stdin and by control threads, hidden,  *)
(* switched to and closed; the table "runtimes" of the project's database   *)
(* says which process runs which session (workspace/access.py).             *)
(***************************************************************************)
EXTENDS Naturals, FiniteSets

CONSTANTS Process, Session, None,
          MaxBirths,    \* incarnations of a process
          MaxFailures   \* constructions and closings that fail

VARIABLES rows,       \* runtimes: the incarnation that holds each session
          up, birth,  \* whether a process runs, and its incarnation
          host,       \* absent, building, ready, closed: the runtime of a session in a process
          visible,    \* records shown as tabs
          active,     \* active_id
          caller,     \* what the threads "stdin" and "control" of a process are at
          closing,    \* _closing
          toClose,    \* sessions close() still has to close
          shown,      \* what the front end was last told
          failures

vars == <<rows, up, birth, host, visible, active, caller, closing, toClose, shown, failures>>

Thread == {"stdin", "control"}
Idle == [at |-> "idle", id |-> None, previous |-> None]
At(where, id, previous) == [at |-> where, id |-> id, previous |-> previous]

Init ==
    /\ rows = [s \in Session |-> <<None, 0>>]
    /\ up = [p \in Process |-> TRUE] /\ birth = [p \in Process |-> 1]
    /\ host = [p \in Process |-> [s \in Session |-> "absent"]]
    /\ visible = [p \in Process |-> {}] /\ active = [p \in Process |-> None]
    /\ caller = [p \in Process |-> [t \in Thread |-> Idle]]
    /\ closing = [p \in Process |-> FALSE] /\ toClose = [p \in Process |-> {}]
    /\ shown = [p \in Process |-> [active |-> None, visible |-> {}]]
    /\ failures = 0

Records(p) == {s \in Session : host[p][s] # "absent"}
Goes(p, t, where) == caller' = [caller EXCEPT ![p][t] = where]
Alive(row) == row[1] # None /\ up[row[1]] /\ birth[row[1]] = row[2]

\* The process and its birth go into the row, unless a live process has it.
ReservableByOthers(s) == TRUE
Reservable(s) == ~Alive(rows[s])

Show(p) == shown' = [shown EXCEPT ![p] = [active |-> active'[p], visible |-> visible'[p]]]

\* A session that has a record is switched to: create, resume, switch.
Switch(p, t, s) ==
    /\ up[p] /\ caller[p][t].at = "idle" /\ s \in Records(p)
    /\ visible' = [visible EXCEPT ![p] = @ \union {s}]
    /\ active' = [active EXCEPT ![p] = s]
    /\ Goes(p, t, At("announce", s, None))
    /\ UNCHANGED <<rows, up, birth, host, closing, toClose, shown, failures>>

\* create: the row and the record first, the runtime outside the lock.
Create(p, t, s) ==
    /\ up[p] /\ caller[p][t].at = "idle" /\ s \notin Records(p) /\ ~closing[p]
    /\ Reservable(s)
    /\ rows' = [rows EXCEPT ![s] = <<p, birth[p]>>]
    /\ host' = [host EXCEPT ![p][s] = "building"]
    /\ visible' = [visible EXCEPT ![p] = @ \union {s}]
    /\ active' = [active EXCEPT ![p] = s]
    /\ Goes(p, t, At("build", s, active[p]))
    /\ UNCHANGED <<up, birth, closing, toClose, shown, failures>>

Built(p, t) ==
    /\ up[p] /\ caller[p][t].at = "build"
    /\ host' = [host EXCEPT ![p][caller[p][t].id] = "ready"]
    /\ Goes(p, t, At("announce", caller[p][t].id, None))
    /\ UNCHANGED <<rows, up, birth, visible, active, closing, toClose, shown, failures>>

FallBackBlindly(p, previous, tabs) == {previous}

\* Who is active once a session is gone: the one before it, if it still is a tab, or any tab.
FallBack(p, previous, tabs) ==
    IF previous \in tabs THEN {previous} ELSE IF tabs = {} THEN {None} ELSE tabs

BuildFails(p, t) ==
    /\ up[p] /\ caller[p][t].at = "build" /\ failures < MaxFailures
    /\ failures' = failures + 1
    /\ LET s == caller[p][t].id
           tabs == visible[p] \ {s}
       IN  /\ rows' = [rows EXCEPT ![s] = IF @ = <<p, birth[p]>> THEN <<None, 0>> ELSE @]
           /\ host' = [host EXCEPT ![p][s] = "absent"]
           /\ visible' = [visible EXCEPT ![p] = tabs]
           /\ IF active[p] = s
                THEN \E a \in FallBack(p, caller[p][t].previous, tabs) :
                        active' = [active EXCEPT ![p] = a]
                ELSE UNCHANGED active
           /\ Goes(p, t, At("announce", s, None))
    /\ UNCHANGED <<up, birth, closing, toClose, shown>>

Hide(p, s) ==
    /\ up[p] /\ caller[p]["stdin"].at = "idle" /\ s \in Records(p)
    /\ visible' = [visible EXCEPT ![p] = @ \ {s}]
    /\ IF active[p] = s
         THEN \E a \in FallBack(p, None, visible'[p]) : active' = [active EXCEPT ![p] = a]
         ELSE UNCHANGED active
    /\ Goes(p, "stdin", At("announce", s, None))
    /\ UNCHANGED <<rows, up, birth, host, closing, toClose, shown, failures>>

\* announce: what the table says now, whoever changed it last.
Announce(p, t) ==
    /\ up[p] /\ caller[p][t].at = "announce"
    /\ shown' = [shown EXCEPT ![p] = [active |-> active[p], visible |-> visible[p]]]
    /\ Goes(p, t, Idle)
    /\ UNCHANGED <<rows, up, birth, host, visible, active, closing, toClose, failures>>

\* close: no session is created from here on; those there are are closed, each by its thread.
CloseBegins(p) ==
    /\ up[p] /\ caller[p]["stdin"].at = "idle"
    /\ closing' = [closing EXCEPT ![p] = TRUE]
    /\ toClose' = [toClose EXCEPT ![p] = Records(p)]
    /\ Goes(p, "stdin", At("close", None, None))
    /\ UNCHANGED <<rows, up, birth, host, visible, active, shown, failures>>

\* The runtime first, its row after it; a session without a runtime yet is an error.
CloseOne(p, s) ==
    /\ up[p] /\ s \in toClose[p]
    /\ toClose' = [toClose EXCEPT ![p] = @ \ {s}]
    /\ \/ /\ host[p][s] \in {"ready", "closed"}
          /\ host' = [host EXCEPT ![p][s] = "closed"]
          /\ rows' = [rows EXCEPT ![s] = IF @ = <<p, birth[p]>> THEN <<None, 0>> ELSE @]
          /\ UNCHANGED failures
       \/ host[p][s] \in {"absent", "building"} /\ UNCHANGED <<host, rows, failures>>
       \/ /\ host[p][s] = "ready" /\ failures < MaxFailures /\ failures' = failures + 1
          /\ UNCHANGED <<host, rows>>
    /\ UNCHANGED <<up, birth, visible, active, caller, closing, shown>>

\* All were closed, and the process ends; or something was not, and close() is called again.
CloseEnds(p) ==
    /\ up[p] /\ caller[p]["stdin"].at = "close" /\ toClose[p] = {}
    /\ Goes(p, "stdin", Idle)
    /\ UNCHANGED <<rows, up, birth, host, visible, active, closing, toClose, shown, failures>>

Ends(p) ==
    /\ up[p]
    /\ up' = [up EXCEPT ![p] = FALSE]
    /\ host' = [host EXCEPT ![p] = [s \in Session |-> "absent"]]
    /\ visible' = [visible EXCEPT ![p] = {}] /\ active' = [active EXCEPT ![p] = None]
    /\ caller' = [caller EXCEPT ![p] = [t \in Thread |-> Idle]]
    /\ closing' = [closing EXCEPT ![p] = FALSE] /\ toClose' = [toClose EXCEPT ![p] = {}]
    /\ Show(p)
    /\ UNCHANGED <<rows, birth, failures>>

Restart(p) ==
    /\ ~up[p] /\ birth[p] < MaxBirths
    /\ up' = [up EXCEPT ![p] = TRUE] /\ birth' = [birth EXCEPT ![p] = @ + 1]
    /\ UNCHANGED <<rows, host, visible, active, caller, closing, toClose, shown, failures>>

Steps(p) ==
    \/ CloseBegins(p) \/ CloseEnds(p) \/ Ends(p) \/ Restart(p)
    \/ \E s \in Session : Hide(p, s) \/ CloseOne(p, s)
    \/ \E t \in Thread : \/ Built(p, t) \/ BuildFails(p, t) \/ Announce(p, t)
                         \/ \E s \in Session : Switch(p, t, s) \/ Create(p, t, s)

Next == \E p \in Process : Steps(p)

Spec == Init /\ [][Next]_vars

(***************************************************************************)
(* What must hold.                                                          *)
(***************************************************************************)
TypeOK ==
    /\ rows \in [Session -> (Process \X (1 .. MaxBirths)) \union {<<None, 0>>}]
    /\ host \in [Process -> [Session -> {"absent", "building", "ready", "closed"}]]
    /\ \A p \in Process :
          /\ visible[p] \subseteq Records(p) /\ toClose[p] \subseteq Session
          /\ active[p] \in Session \union {None} /\ birth[p] \in 1 .. MaxBirths
          /\ \A t \in Thread : caller[p][t].at \in {"idle", "build", "announce", "close"}

\* Two workbenches never run one session: a runtime that is being built, or is there, is covered
\* by the row of its own process, through failed constructions, failed closings and crashes
\* (reserve_runtime, SessionRuntimeRegistry.create, close).
OneRuntime ==
    \A p \in Process, s \in Session :
        host[p][s] \in {"building", "ready"} => rows[s] = <<p, birth[p]>>

\* The active session is one the user sees as a tab (create's failure, hide, switch).
ActiveIsShown == \A p \in Process : active[p] = None \/ active[p] \in visible[p]

\* When no call is in between, the front end was last told what the table says: two threads that
\* announce one after the other cannot leave the older picture (announce).
FrontEndIsCurrent ==
    \A p \in Process :
        (\A t \in Thread : caller[p][t].at \in {"idle", "close"})
        => shown[p] = [active |-> active[p], visible |-> visible[p]]

=============================================================================
