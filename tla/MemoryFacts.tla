----------------------------- MODULE MemoryFacts -----------------------------
(***************************************************************************)
(* One remembered fact (memory/database.py, memory/service.py), with the   *)
(* candidates that were extracted for it, their consolidation by a model   *)
(* (memory/reconciliation.py), the exported view and the vector index      *)
(* (memory/vectors.py).                                                    *)
(*                                                                         *)
(* Every operation is a transaction of the database; between the snapshot  *)
(* that consolidation or indexing takes and its commit anything may        *)
(* happen.  The fact has one identity (namespace, topic, key,              *)
(* applicability).  A source is a quotation of the user; its number is     *)
(* also the time it was observed.                                          *)
(***************************************************************************)
EXTENDS Naturals, FiniteSets

CONSTANTS Source,       \* quotations, numbered from 1 in the order of their time
          Body,         \* what the fact may say
          Says,         \* Says[s]: what source s can be quoted for
          MaxVersion    \* bound: versions of the fact

VARIABLES
    fact,        \* the row of memories, its conflicts and its revisions
    suppressed,  \* suppressions: TheKey and sources
    candidate,   \* memory_candidates, by source
    holds,       \* memory_holds: the candidates that make the fact uncertain
    known,       \* the version the user or the agent has read
    merge,       \* the consolidation at work: its snapshot
    view,        \* the exported file and its entry in export_outbox
    vector       \* the vector index, and the indexing at work

vars == <<fact, suppressed, candidate, holds, known, merge, view, vector>>

None == 0
TheKey == 0       \* the hash of the identity, beside those of the sources
Bodies == Body \cup {"none"}
NoFact == [version |-> 0, body |-> "none", status |-> "absent", evidence |-> {},
           proposals |-> {}, revisions |-> {}]
NoCandidate == [st |-> "none", body |-> "none"]
NoMerge == [at |-> "idle", of |-> None, version |-> 0, fresh |-> FALSE]

TypeOK ==
    /\ fact.version \in 0..MaxVersion /\ fact.body \in Bodies
    /\ fact.status \in {"absent", "active", "review_required", "expired"}
    /\ fact.evidence \subseteq Source
    /\ suppressed \subseteq Source \cup {TheKey}
    /\ candidate \in [Source ->
          [st : {"none", "pending", "processed", "cancelled"}, body : Bodies]]
    /\ holds \subseteq Source
    /\ known \in 0..MaxVersion
    /\ merge \in [at : {"idle", "asked"}, of : Source \cup {None}, version : 0..MaxVersion,
                  fresh : BOOLEAN]
    /\ view \in [version : 0..MaxVersion, body : Bodies, queued : BOOLEAN]
    /\ vector \in [version : 0..MaxVersion, embedding : 0..MaxVersion]

Init ==
    /\ fact = NoFact
    /\ suppressed = {}
    /\ candidate = [s \in Source |-> NoCandidate]
    /\ holds = {}
    /\ known = 0
    /\ merge = NoMerge
    /\ view = [version |-> 0, body |-> "none", queued |-> FALSE]
    /\ vector = [version |-> 0, embedding |-> 0]

Outdated == [version |-> 0, body |-> "none", queued |-> TRUE]
Exists == fact.status # "absent"
Latest(sources) == IF sources = {} THEN 0 ELSE CHOOSE s \in sources : \A t \in sources : t <= s

\* _persist: a revision, an export and the removal of the stale vector.
Persist(f, body, status, evidence, proposals) ==
    LET v == f.version + 1
    IN [version |-> v, body |-> body, status |-> status, evidence |-> evidence,
        proposals |-> proposals,
        revisions |-> f.revisions \cup {[version |-> v, body |-> body, status |-> status,
                                         evidence |-> evidence]}]
PersistedUnexported == vector' = [vector EXCEPT !.version = 0] /\ UNCHANGED view
Persisted ==
    /\ view' = Outdated
    /\ vector' = [vector EXCEPT !.version = 0]
\* The snapshot of a consolidation at work no longer holds: it can only give up.
Stale == merge' = [merge EXCEPT !.fresh = FALSE]
\* Until the next flush nothing depends on what the file shows.
QueuedIf(changed) == view' = IF changed THEN Outdated ELSE view

-----------------------------------------------------------------------------
(* Extraction                                                              *)

\* The candidate part of ExtractionQueue._commit: what was forgotten is left
\* out, and a candidate that says something else makes the fact uncertain.
Extract(s, body) ==
    /\ candidate[s].st = "none" /\ s \notin suppressed
    /\ candidate' = [candidate EXCEPT ![s] = [st |-> "pending", body |-> body]]
    /\ IF Exists /\ fact.body # body
       THEN holds' = holds \cup {s} /\ QueuedIf(TRUE)
       ELSE UNCHANGED <<holds, view>>
    /\ Stale
    /\ UNCHANGED <<fact, suppressed, known, vector>>

\* /memory generate off and on, for candidates that wait (_set_candidate_activity).
Withdraw ==
    /\ \E s \in Source : candidate[s].st = "pending"
    /\ candidate' = [s \in Source |-> IF candidate[s].st = "pending"
                                      THEN [candidate[s] EXCEPT !.st = "cancelled"] ELSE candidate[s]]
    /\ QueuedIf(holds # {})
    /\ holds' = {}
    /\ Stale
    /\ UNCHANGED <<fact, suppressed, known, vector>>

Resume ==
    LET back == {s \in Source : candidate[s].st = "cancelled"}
        against == {s \in back : Exists /\ candidate[s].body # fact.body}
    IN /\ back # {}
       /\ candidate' = [s \in Source |-> IF s \in back THEN [candidate[s] EXCEPT !.st = "pending"]
                                         ELSE candidate[s]]
       /\ holds' = holds \cup against
       /\ QueuedIf(against # {})
       /\ Stale
       /\ UNCHANGED <<fact, suppressed, known, vector>>

-----------------------------------------------------------------------------
(* Writing                                                                 *)

\* _write without an id: a fact that says something else is not replaced but
\* put up for review with the proposal.
Proposed(body, sources) ==
    IF ~Exists THEN Persist(NoFact, body, "active", sources, {})
    ELSE IF fact.body = body
         THEN IF sources \subseteq fact.evidence THEN fact
              ELSE Persist(fact, body, fact.status, fact.evidence \cup sources, fact.proposals)
    ELSE IF [body |-> body, evidence |-> sources] \in fact.proposals THEN fact
    ELSE Persist(fact, fact.body, "review_required", fact.evidence,
                 fact.proposals \cup {[body |-> body, evidence |-> sources]})

\* _write with an id and the version that was read.
Confirmed(body, sources) ==
    IF fact.body = body /\ fact.status = "active" /\ sources \subseteq fact.evidence THEN fact
    ELSE Persist(fact, body, "active", IF fact.body = body THEN fact.evidence \cup sources
                                       ELSE sources, {})

SourceAllowed(sources, restore) == sources \cap suppressed = {}
Allowed(sources, restore) ==
    /\ sources \cap suppressed = {}
    /\ restore \/ TheKey \notin suppressed

\* _retire_older_holds: candidates older than what was confirmed are history.
Retired(sources) == {s \in holds : s < Latest(sources)}
Settle(done) ==
    /\ candidate' = [s \in Source |-> IF s \in done THEN [candidate[s] EXCEPT !.st = "processed"]
                                      ELSE candidate[s]]
    /\ holds' = holds \ done

\* memory_write without an id; what was forgotten needs an explicit restore.
Write(body, s, restore) ==
    /\ Allowed({s}, restore)
    /\ fact' = Proposed(body, {s}) /\ fact'.version <= MaxVersion
    /\ suppressed' = IF restore THEN suppressed \ {TheKey} ELSE suppressed
    /\ IF fact' # fact THEN Persisted /\ Stale ELSE UNCHANGED <<view, vector, merge>>
    /\ UNCHANGED <<candidate, holds, known>>

\* memory_write with an id, memory_validate and /memory edit.
VersionTrusted == Exists /\ known # 0
VersionIsCurrent == Exists /\ known = fact.version
Update(body, s) ==
    /\ VersionIsCurrent /\ Allowed({s}, FALSE)
    /\ fact' = Confirmed(body, {s}) /\ fact'.version <= MaxVersion
    /\ IF fact' # fact THEN Persisted /\ Stale /\ Settle(Retired(fact'.evidence))
       ELSE UNCHANGED <<view, vector, merge, candidate, holds>>
    /\ UNCHANGED <<suppressed, known>>

\* /memory restore: only a confirmed revision; pending changes stay.
Restore(r) ==
    /\ VersionIsCurrent /\ r \in fact.revisions /\ r.status = "active"
    /\ fact' = Persist(fact, r.body, "active", r.evidence, {}) /\ fact'.version <= MaxVersion
    /\ Persisted /\ Stale
    /\ UNCHANGED <<suppressed, candidate, holds, known>>

\* forget: the fact, its revisions, its candidates and its sources go; the key
\* and the sources are kept as hashes only.
SourcesOfFact ==
    UNION {r.evidence : r \in fact.revisions} \cup UNION {p.evidence : p \in fact.proposals}
        \cup {s \in Source : candidate[s].st = "processed"}
Forget ==
    /\ VersionIsCurrent
    /\ suppressed' = suppressed \cup {TheKey} \cup SourcesOfFact
    /\ candidate' = [s \in Source |-> NoCandidate]
    /\ holds' = {}
    /\ fact' = NoFact
    /\ known' = 0
    /\ Persisted /\ Stale

\* _refresh: a file the fact was confirmed by has changed.
Expire ==
    /\ fact.status = "active" /\ fact.version < MaxVersion
    /\ fact' = Persist(fact, fact.body, "expired", fact.evidence, fact.proposals)
    /\ Persisted /\ Stale
    /\ UNCHANGED <<suppressed, candidate, holds, known>>

\* Someone reads the fact and its version (service.read).
Read ==
    /\ known # fact.version
    /\ known' = fact.version
    /\ UNCHANGED <<fact, suppressed, candidate, holds, merge, view, vector>>

-----------------------------------------------------------------------------
(* Consolidation                                                           *)

\* _batch: the snapshot, with the revision of the database.
Batch(s) ==
    /\ merge.at = "idle" /\ candidate[s].st = "pending" /\ s \notin suppressed
    /\ merge' = [at |-> "asked", of |-> s, version |-> fact.version, fresh |-> TRUE]
    /\ UNCHANGED <<fact, suppressed, candidate, holds, known, view, vector>>

\* The model failed, the worker stopped, or the snapshot has changed.
MergeEnds ==
    /\ merge.at = "asked"
    /\ merge' = NoMerge
    /\ UNCHANGED <<fact, suppressed, candidate, holds, known, view, vector>>

SnapshotOld == TRUE
Unchanged == merge.fresh

\* _apply of a decision about a known fact: update or duplicate.
MergeKnown(action) ==
    /\ merge.at = "asked" /\ Unchanged /\ candidate[merge.of].st = "pending"
    /\ merge.version # 0 /\ Exists /\ merge.of \notin suppressed
    /\ \/ /\ action = "update" /\ merge.of >= Latest(fact.evidence)
          /\ fact' = Confirmed(candidate[merge.of].body, {merge.of})
       \/ /\ action = "duplicate" /\ fact.status = "active" /\ fact.evidence \cap suppressed = {}
          /\ fact' = Confirmed(fact.body, {merge.of})
    /\ fact'.version <= MaxVersion
    /\ IF fact' # fact THEN Persisted ELSE QueuedIf(holds # {}) /\ UNCHANGED vector
    /\ Settle({merge.of} \cup IF fact' = fact THEN {} ELSE Retired(fact'.evidence))
    /\ merge' = NoMerge
    /\ UNCHANGED <<suppressed, known>>

\* A new fact, or one whose conflict needs the user's review.
MergeNew(action) ==
    LET proposed == Proposed(candidate[merge.of].body, {merge.of})
    IN /\ merge.at = "asked" /\ Unchanged /\ candidate[merge.of].st = "pending"
       /\ Allowed({merge.of}, FALSE)
       /\ fact' = IF action = "review" /\ proposed.status # "review_required"
                  THEN Persist(proposed, proposed.body, "review_required", proposed.evidence,
                               proposed.proposals)
                  ELSE proposed
       /\ fact'.version <= MaxVersion
       /\ IF fact' # fact THEN Persisted
          ELSE QueuedIf(merge.of \in holds) /\ UNCHANGED vector
       /\ Settle({merge.of})
       /\ merge' = NoMerge
       /\ UNCHANGED <<suppressed, known>>

\* Past events, or an update older than the fact: nothing but the hold goes,
\* and the view is not queued.
MergeHistory ==
    /\ merge.at = "asked" /\ Unchanged /\ candidate[merge.of].st = "pending"
    /\ merge.of \notin suppressed
    /\ Settle({merge.of})
    /\ merge' = NoMerge
    /\ UNCHANGED <<fact, suppressed, known, view, vector>>

-----------------------------------------------------------------------------
(* The view and the index                                                  *)

Shown ==
    IF fact.status = "active" /\ holds = {}
    THEN [version |-> fact.version, body |-> fact.body] ELSE [version |-> 0, body |-> "none"]

\* flush_exports: the file is replaced inside the transaction that empties the
\* outbox; if the process dies between the two the entry stays.
Flush ==
    /\ view.queued
    /\ view' = [version |-> Shown.version, body |-> Shown.body, queued |-> FALSE]
    /\ UNCHANGED <<fact, suppressed, candidate, holds, known, merge, vector>>

\* VectorIndex.sync: read, embed outside of the transaction, store if unchanged.
Embed ==
    /\ vector.embedding = 0 /\ Exists /\ fact.status # "expired" /\ vector.version # fact.version
    /\ vector' = [vector EXCEPT !.embedding = fact.version]
    /\ UNCHANGED <<fact, suppressed, candidate, holds, known, merge, view>>

StoredAnyway == vector.embedding
Stored == IF Exists /\ vector.embedding = fact.version THEN fact.version ELSE vector.version
StoreVector ==
    /\ vector.embedding # 0
    /\ vector' = [version |-> Stored, embedding |-> 0]
    /\ UNCHANGED <<fact, suppressed, candidate, holds, known, merge, view>>

EmbedFails ==
    /\ vector.embedding # 0
    /\ vector' = [vector EXCEPT !.embedding = 0]
    /\ UNCHANGED <<fact, suppressed, candidate, holds, known, merge, view>>

Next ==
    \/ \E s \in Source : \E body \in Says[s] : Extract(s, body) \/ Update(body, s)
    \/ \E s \in Source : \E body \in Says[s], restore \in BOOLEAN : Write(body, s, restore)
    \/ \E r \in fact.revisions : Restore(r)
    \/ \E s \in Source : Batch(s)
    \/ Withdraw \/ Resume \/ Forget \/ Expire \/ Read
    \/ \E action \in {"update", "duplicate"} : MergeKnown(action)
    \/ \E action \in {"add", "review"} : MergeNew(action)
    \/ MergeHistory \/ MergeEnds
    \/ Flush \/ Embed \/ StoreVector \/ EmbedFails

Spec == Init /\ [][Next]_vars

-----------------------------------------------------------------------------
(* Properties                                                              *)

\* What was forgotten stays so: without an explicit restore there is no fact,
\* and no candidate or fact rests on a source that was forgotten.
ForgottenStays ==
    /\ TheKey \in suppressed => ~Exists
    /\ fact.evidence \cap suppressed = {}
    /\ \A s \in Source \cap suppressed : candidate[s].st = "none"

\* A fact is held back by candidates that are still to be decided, and only a
\* fact that exists is.
HoldsAreOpen ==
    \A s \in holds : candidate[s].st = "pending" /\ Exists

\* Once the exports are flushed the view shows nothing that is not so: neither a
\* superseded value, nor one in doubt, nor one that was forgotten.
ViewIsTrue ==
    ~view.queued /\ view.version # 0
        => [version |-> view.version, body |-> view.body] = Shown

\* The vector of a fact is that of its current text, whatever changed meanwhile.
VectorIsCurrent == vector.version # 0 => Exists /\ vector.version = fact.version

\* The history has one entry per version, the last of which is the fact.
HistoryIsComplete ==
    Exists => /\ {r.version : r \in fact.revisions} = 1..fact.version
              /\ [version |-> fact.version, body |-> fact.body, status |-> fact.status,
                  evidence |-> fact.evidence] \in fact.revisions

\* The value of a fact is replaced only by one who has seen that very version.
NoBlindOverwrite ==
    [][Exists /\ fact'.status # "absent" /\ fact'.body # fact.body
          => fact.version \in {known, merge.version}]_vars

=============================================================================
