----------------------------- MODULE Attachments -----------------------------
(***************************************************************************)
(* The files a user attaches to a message (attachments.py), from the chips  *)
(* of the composer (app.tsx) through the thread that reads requests and the *)
(* worker that runs the turns (tui_bridge.py).  Files of the workspace are  *)
(* attached where they are, others are copied into the session.             *)
(***************************************************************************)
EXTENDS Naturals, FiniteSets, Sequences

CONSTANTS MaxIds,     \* attachments ever registered
          MaxEdits,   \* changes of the files from outside
          MaxTurns    \* messages submitted

VARIABLES file,       \* the files of the disk
          staged,     \* AttachmentManager._attachments
          dedupe,     \* AttachmentManager._dedupe
          copy,       \* the copies in the session's directory
          chips,      \* the attachments the composer shows
          work,       \* what either thread is in the middle of
          queue,      \* submitted turns, and submissions that wait for an approval
          used,       \* ids given, edits and submissions so far
          edited,     \* history: attachments whose file changed since it was looked at
          removed,    \* history: attachments removed
          granted,    \* history: the external file was approved, or picked by the user
          read        \* history: what the last turn read, as <<attachment, digest, content>>
vars == <<file, staged, dedupe, copy, chips, work, queue, used, edited, removed, granted, read>>

Path == {"inside", "outside"}
External(p) == p = "outside"
Content == {"a", "b"}
Bytes(c) == IF c = "a" THEN 1 ELSE 2
MaxAttachments == 2
MaxTurnBytes == 2
Id == 1..MaxIds
Thread == {"stdin", "worker"}
NoEntry == [path |-> "none", digest |-> "none", cached |-> FALSE]
Idle == [at |-> "idle", goal |-> "none", path |-> "none", digest |-> "none", new |-> 0, ids |-> {}]

Init ==
    /\ file = [p \in Path |-> "a"] /\ staged = [i \in Id |-> NoEntry] /\ dedupe = [c \in Content |-> 0]
    /\ copy = [i \in Id |-> "none"] /\ chips = {} /\ work = [t \in Thread |-> Idle] /\ queue = <<>>
    /\ used = [ids |-> 0, edits |-> 0, turns |-> 0]
    /\ edited = {} /\ removed = {} /\ granted = FALSE /\ read = {}

\* A program outside changes or deletes a file.
Edit(p, c) ==
    /\ used.edits < MaxEdits /\ c # file[p]
    /\ used' = [used EXCEPT !.edits = @ + 1] /\ file' = [file EXCEPT ![p] = c]
    /\ edited' = edited \union {i \in Id : staged[i].path = p /\ ~staged[i].cached}
                     \union {work[t].new : t \in {u \in Thread : work[u].path = p /\ work[u].at = "copied"}}
    /\ UNCHANGED <<staged, dedupe, copy, chips, work, queue, removed, granted, read>>

(***************************************************************************)
(* Staging, in three steps: the digest of the file; the look for an equal   *)
(* one, or the copy; and the entry.                                         *)
(***************************************************************************)
\* stage_path up to _sha256_file, to stage the file or to go on with a submission.
Begin(t, goal, p, ids) ==
    /\ file[p] \in Content
    /\ work' = [work EXCEPT ![t] = [at |-> "hashed", goal |-> goal, path |-> p, digest |-> file[p],
                                    new |-> 0, ids |-> ids]]

\* A request to stage ends with the chip, a submission goes on to its limits.
Have(t, i) ==
    IF work[t].goal = "stage"
    THEN work' = [work EXCEPT ![t] = Idle] /\ chips' = chips \union {i}
    ELSE /\ work' = [work EXCEPT ![t] = [Idle EXCEPT !.at = "collecting", !.goal = "submit", !.ids = work[t].ids \union {i}]]
         /\ UNCHANGED chips

LookOrCopy(t) ==
    LET w == work[t] known == dedupe[w.digest] IN
    /\ w.at = "hashed"
    /\ \/ known # 0 /\ Have(t, known) /\ UNCHANGED <<copy, used>>
       \/ /\ known = 0 /\ External(w.path) /\ file[w.path] = "gone"
          /\ work' = [work EXCEPT ![t] = Idle] /\ UNCHANGED <<copy, chips, used>>
       \/ /\ known = 0 /\ used.ids < MaxIds /\ ~(External(w.path) /\ file[w.path] = "gone")
          /\ LET new == used.ids + 1
             IN  /\ used' = [used EXCEPT !.ids = new]
                 /\ work' = [work EXCEPT ![t] = [w EXCEPT !.at = "copied", !.new = new]]
                 /\ copy' = IF External(w.path) THEN [copy EXCEPT ![new] = file[w.path]] ELSE copy
          /\ UNCHANGED chips
    /\ UNCHANGED <<file, staged, dedupe, queue, edited, removed, granted, read>>

\* _register.
Register(t) ==
    LET w == work[t] IN
    /\ w.at = "copied" /\ Have(t, w.new)
    /\ staged' = [staged EXCEPT ![w.new] = [path |-> w.path, digest |-> w.digest, cached |-> External(w.path)]]
    /\ dedupe' = [dedupe EXCEPT ![w.digest] = w.new]
    /\ edited' = IF (IF External(w.path) THEN copy[w.new] ELSE file[w.path]) # w.digest
                 THEN edited \union {w.new} ELSE edited
    /\ UNCHANGED <<file, copy, queue, used, removed, granted, read>>

\* stage_attachments: a file the user picked, or the picture on the clipboard.
StagePath(p) ==
    /\ work["stdin"] = Idle /\ Begin("stdin", "stage", p, {})
    /\ granted' = (granted \/ External(p))
    /\ UNCHANGED <<file, staged, dedupe, copy, chips, queue, used, edited, removed, read>>

StageBytes(c) ==
    /\ work["stdin"] = Idle
    /\ IF dedupe[c] # 0 THEN chips' = chips \union {dedupe[c]} /\ UNCHANGED <<staged, dedupe, copy, used>>
       ELSE LET new == used.ids + 1
            IN  /\ new <= MaxIds /\ used' = [used EXCEPT !.ids = new]
                /\ staged' = [staged EXCEPT ![new] = [path |-> "clipboard", digest |-> c, cached |-> TRUE]]
                /\ dedupe' = [dedupe EXCEPT ![c] = new] /\ copy' = [copy EXCEPT ![new] = c]
                /\ chips' = chips \union {new}
    /\ UNCHANGED <<file, work, queue, edited, removed, granted, read>>

\* Mutant of Forget: the digest of the removed attachment stays known.
ForgetEntry(i) == staged' = [staged EXCEPT ![i] = NoEntry] /\ UNCHANGED dedupe

Forget(i) ==
    /\ staged' = [staged EXCEPT ![i] = NoEntry]
    /\ dedupe' = [dedupe EXCEPT ![staged[i].digest] = 0]

\* remove: the entry goes, and its copy; the composer drops the chip, whatever the answer is.
Remove(i) ==
    /\ work["stdin"] = Idle /\ i \in chips /\ chips' = chips \ {i}
    /\ IF staged[i] = NoEntry THEN UNCHANGED <<staged, dedupe, copy, removed>>
       ELSE /\ Forget(i) /\ removed' = removed \union {i}
            /\ copy' = IF staged[i].cached THEN [copy EXCEPT ![i] = "none"] ELSE copy
    /\ UNCHANGED <<file, work, queue, used, edited, granted, read>>

(***************************************************************************)
(* Submissions.                                                             *)
(***************************************************************************)
Message(kind, ids, p, entries) == [kind |-> kind, ids |-> ids, path |-> p, entries |-> entries]
Collecting(t, ids) ==
    work' = [work EXCEPT ![t] = [Idle EXCEPT !.at = "collecting", !.goal = "submit", !.ids = ids]]

\* submit, of the chips and a text that names a file, or none: an external one is asked for on the
\* worker, and the composer keeps what it shows.
Submit(p) ==
    /\ work["stdin"] = Idle /\ used.turns < MaxTurns
    /\ used' = [used EXCEPT !.turns = @ + 1]
    /\ CASE p = "outside" /\ file[p] # "gone" ->
              queue' = Append(queue, Message("external", chips, p, {})) /\ UNCHANGED work
         [] p = "inside" /\ file[p] # "gone" -> Begin("stdin", "submit", p, chips) /\ UNCHANGED queue
         [] OTHER -> Collecting("stdin", chips) /\ UNCHANGED queue
    /\ UNCHANGED <<file, staged, dedupe, copy, chips, edited, removed, granted, read>>

\* The worker asks for the external file; a refusal ends the submission.
Ask(approved) ==
    LET m == Head(queue) IN
    /\ queue # <<>> /\ work["worker"] = Idle /\ m.kind = "external" /\ queue' = Tail(queue)
    /\ CASE approved /\ file[m.path] # "gone" -> Begin("worker", "submit", m.path, m.ids) /\ granted' = TRUE
         [] approved /\ file[m.path] = "gone" -> Collecting("worker", m.ids) /\ granted' = TRUE
         [] OTHER -> UNCHANGED <<work, granted>>
    /\ UNCHANGED <<file, staged, dedupe, copy, chips, used, edited, removed, read>>

Readable(entry, i) == IF entry.cached THEN copy[i] ELSE file[entry.path]
Total(ids) == Cardinality({i \in ids : staged[i].digest = "a"}) * Bytes("a")
              + Cardinality({i \in ids : staged[i].digest = "b"}) * Bytes("b")

\* Mutant of Accepts: the limits of a turn are left to the client.
AcceptsAll(ids) == \A i \in ids : staged[i] # NoEntry /\ Readable(staged[i], i) \in Content

\* The rest of prepare: all ids are known, the turn is within its limits, the files can be read.
Accepts(ids) ==
    /\ \A i \in ids : staged[i] # NoEntry /\ Readable(staged[i], i) \in Content
    /\ Cardinality(ids) <= MaxAttachments /\ Total(ids) <= MaxTurnBytes

\* Refused, the composer keeps its chips; accepted, it drops those that went, unless the answer had
\* been that an approval is asked for.
Collect(t) ==
    LET ids == work[t].ids IN
    /\ work[t].at = "collecting" /\ work' = [work EXCEPT ![t] = Idle]
    /\ IF Accepts(ids)
       THEN /\ queue' = Append(queue, Message("turn", ids, "none", {<<i, staged[i]>> : i \in ids}))
            /\ chips' = IF t = "stdin" THEN chips \ ids ELSE chips
       ELSE UNCHANGED <<queue, chips>>
    /\ UNCHANGED <<file, staged, dedupe, copy, used, edited, removed, granted, read>>

\* The worker runs the turn (build_model_content).
Run ==
    LET m == Head(queue) IN
    /\ queue # <<>> /\ work["worker"] = Idle /\ m.kind = "turn" /\ queue' = Tail(queue)
    /\ read' = {<<e[1], e[2].digest, Readable(e[2], e[1])>> : e \in m.entries}
    /\ UNCHANGED <<file, staged, dedupe, copy, chips, work, used, edited, removed, granted>>

\* An idle session is suspended and woken, or opened again: the attachments are forgotten, while
\* their copies stay and the composer still shows them.
Reopen ==
    /\ queue = <<>> /\ \A t \in Thread : work[t] = Idle
    /\ staged' = [i \in Id |-> NoEntry] /\ dedupe' = [c \in Content |-> 0] /\ staged # staged'
    /\ UNCHANGED <<file, copy, chips, work, queue, used, edited, removed, granted, read>>

Next ==
    \/ \E p \in Path, c \in Content \union {"gone"} : Edit(p, c)
    \/ \E t \in Thread : LookOrCopy(t) \/ Register(t) \/ Collect(t)
    \/ \E p \in Path : StagePath(p)
    \/ \E c \in Content : StageBytes(c)
    \/ \E i \in Id : Remove(i)
    \/ \E p \in Path \union {"none"} : Submit(p)
    \/ \E approved \in BOOLEAN : Ask(approved)
    \/ Run \/ Reopen

Spec == Init /\ [][Next]_vars

-----------------------------------------------------------------------------
TypeOK ==
    /\ file \in [Path -> Content \union {"gone"}] /\ dedupe \in [Content -> 0..MaxIds]
    /\ copy \in [Id -> Content \union {"none"}] /\ chips \subseteq Id /\ granted \in BOOLEAN
    /\ \A t \in Thread : work[t].at \in {"idle", "hashed", "copied", "collecting"}
    /\ used.ids <= MaxIds /\ used.edits <= MaxEdits /\ used.turns <= MaxTurns

\* What is found by its digest is there, and is what the digest says (_dedupe): otherwise attaching
\* a file again raises, or attaches another.
KnownAreKept == \A c \in Content : dedupe[c] # 0 => staged[dedupe[c]].digest = c

\* A copy is kept as long as a turn may read it, and nothing external is copied unless the user
\* picked it or approved it (prepare, prepare_with_external_approval).
CopiesAreKept ==
    /\ \A i \in Id : staged[i].cached => copy[i] # "none"
    /\ \A i \in Id : staged[i].path = "outside" => granted

\* Every queued turn is within the limits of one turn, whatever was staged on the other thread
\* since (_validate_turn_limits).
TurnsAreWithinLimits ==
    \A k \in DOMAIN queue :
        LET m == queue[k]
            entries == {e[2] : e \in m.entries}
        IN  m.kind = "turn" =>
                /\ Cardinality(m.ids) <= MaxAttachments
                /\ Cardinality({e \in m.entries : e[2].digest = "b"}) > 0 => Cardinality(m.ids) = 1
                /\ NoEntry \notin entries

\* A turn reads what was attached to it, unless the file was changed or the attachment removed.
TurnsReadTheirFiles == \A r \in read : r[1] \in edited \union removed \/ r[2] = r[3]

=============================================================================
