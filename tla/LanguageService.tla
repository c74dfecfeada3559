--------------------------- MODULE LanguageService ---------------------------
(***************************************************************************)
(* The language servers of a conversation (runtime/language_service.py):   *)
(* code_intelligence asks a question about a file, the service starts a    *)
(* server for the project, tells it what changed, opens the file in it and *)
(* waits for the answer; a question that fails closes its server, and one  *)
(* that takes longer than 20 s is given up while its cleanup goes on.      *)
(*                                                                         *)
(* One file of one project, thus one key of the service's servers.  A text *)
(* is a number, 0 a file that is not there.  What the server itself does   *)
(* (when it publishes what it found, and of which of the texts it was      *)
(* sent) is external: it publishes in the order of the texts, late or not  *)
(* at all.                                                                 *)
(***************************************************************************)
EXTENDS Naturals, Sequences, FiniteSets

CONSTANTS
    Server,       \* the servers that may be started, 1..n in their order
    MaxEdits,     \* bound: changes of the file
    MaxVersion    \* bound: versions of the document in one server

VARIABLES
    disk,       \* the text of the file, 0 when it is not there
    edits,      \* how often it changed
    numbered,   \* do the servers number what they publish?
    entry,      \* the server under the key, 0 when there is none
    state,      \* state[s]: "unused", "live", "closing" or "dead"
    pending,    \* the servers whose watch has a change to report
    doc,        \* doc[s]: the document open in s, as (version, text), or Shut
    version,    \* version[s]: its last version, kept while it is not open
    due,        \* due[s]: the documents sent to s, not published on yet
    found,      \* found[s]: what the service keeps of what s published
    query,      \* the question being answered
    answer,     \* the last answer, with the question it answers
    cleaning,   \* the servers that questions given up are still closing
    stray,      \* servers whose entry was removed by the cleanup of another
    over        \* the service is closed

vars == <<disk, edits, numbered, entry, state, pending, doc, version, due, found, query, answer,
          cleaning, stray, over>>
server == <<entry, state, cleaning, stray>>
document == <<pending, doc, version, due, found>>

Text == 0..MaxEdits
Closed == [version |-> 0, text |-> 0]        \* a document that is not open
Documents == [version : 0..MaxVersion, text : Text]
Quiet == [at |-> "idle", text |-> 0, push |-> FALSE, server |-> 0, version |-> 0]
NoAnswer == [asked |-> 1, got |-> 1]

Init ==
    /\ disk = 1 /\ edits = 1
    /\ numbered \in BOOLEAN
    /\ entry = 0 /\ state = [s \in Server |-> "unused"] /\ cleaning = {} /\ stray = {}
    /\ pending = {} /\ doc = [s \in Server |-> Closed] /\ version = [s \in Server |-> 0]
    /\ due = [s \in Server |-> <<>>] /\ found = [s \in Server |-> Closed]
    /\ query = Quiet /\ answer = NoAnswer /\ over = FALSE

Live == {s \in Server : state[s] = "live"}

\* The user or a tool changes the file, or removes it; the watches will tell.
Change ==
    /\ edits < MaxEdits
    /\ edits' = edits + 1
    /\ disk' \in {0, edits'}
    /\ disk' # disk
    /\ pending' = pending \cup Live
    /\ UNCHANGED <<numbered, server, doc, version, due, found, query, answer, over>>

-----------------------------------------------------------------------------
(* A question: query() under the lock, _query() on the loop. *)

\* The text is read by the thread that asks, before the loop runs.
Ask ==
    /\ query = Quiet /\ ~over /\ disk # 0
    /\ \E push \in BOOLEAN :
          query' = [Quiet EXCEPT !.at = "called", !.text = disk, !.push = push]
    /\ answer' = NoAnswer
    /\ UNCHANGED <<disk, edits, numbered, server, document, over>>

\* The server of the key, or a new one, entered before it has started.
TakeServer ==
    /\ query.at = "called"
    /\ IF entry # 0
       THEN query' = [query EXCEPT !.at = "ready", !.server = entry] /\ UNCHANGED <<state, entry>>
       ELSE \E s \in Server :
               /\ state[s] = "unused" /\ \A other \in Server : other < s => state[other] # "unused"
               /\ entry' = s
               /\ state' = [state EXCEPT ![s] = "live"]
               /\ query' = [query EXCEPT !.at = "starting", !.server = s]
    /\ UNCHANGED <<disk, edits, numbered, cleaning, stray, document, answer, over>>

ServerStarts ==
    /\ query.at = "starting"
    /\ query' = [query EXCEPT !.at = "ready"]
    /\ UNCHANGED <<disk, edits, numbered, server, document, answer, over>>

\* Mutant: a document opened again starts at version 1.
SyncedAnew(d, last, text, refresh) ==
    IF d = Closed THEN [version |-> 1, text |-> text]
    ELSE IF d.text # text \/ refresh THEN [version |-> last + 1, text |-> text] ELSE d

\* The document after sync(): a new version when it is opened, when the text differs, and when fresh
\* diagnostics are asked of a server that only publishes them.
Synced(d, last, text, refresh) ==
    IF d = Closed \/ d.text # text \/ refresh THEN [version |-> last + 1, text |-> text] ELSE d

\* What is sent to the server: the document, unless it is the same or was closed.
Sent(before, after) == IF after \in {before, Closed} THEN <<>> ELSE <<after>>

\* What the watch reports first: the document is closed when the file is gone, and otherwise sent
\* as it is on the disk; a report may come too late for this question.
AfterWatch(s, reported) ==
    CASE ~reported \/ doc[s] = Closed -> doc[s]
      [] reported /\ disk = 0 -> Closed
      [] OTHER -> Synced(doc[s], version[s], disk, FALSE)

\* Then the document as the thread read it.  Nothing in it waits: the loop does all of it at once.
Sync ==
    /\ query.at = "ready"
    /\ LET s == query.server IN
       IF state[s] # "live"
       THEN query' = [query EXCEPT !.at = "failing"] /\ UNCHANGED document
       ELSE \E reported \in BOOLEAN :
            LET watched == AfterWatch(s, reported)
                known == IF watched = Closed THEN version[s] ELSE watched.version
                last == Synced(watched, known, query.text, query.push)
                sent == Sent(doc[s], watched) \o Sent(watched, last)
            IN /\ reported => s \in pending
               /\ last.version <= MaxVersion
               /\ doc' = [doc EXCEPT ![s] = last]
               /\ version' = [version EXCEPT ![s] = last.version]
               /\ due' = [due EXCEPT ![s] = @ \o sent]
               /\ found' = IF reported \/ sent # <<>> THEN [found EXCEPT ![s] = Closed] ELSE found
               /\ pending' = IF reported THEN pending \ {s} ELSE pending
               /\ query' = [query EXCEPT !.at = "asking", !.version = last.version]
    /\ UNCHANGED <<disk, edits, numbered, server, answer, over>>

\* The answer to a request: the server has read everything sent before it.
Replies ==
    /\ query.at = "asking" /\ ~query.push
    /\ state[query.server] = "live"
    /\ answer' = [asked |-> query.text, got |-> doc[query.server].text]
    /\ query' = Quiet
    /\ UNCHANGED <<disk, edits, numbered, server, document, over>>

\* Published diagnostics are fresh when they carry the document's version, or none.
IsFresh(d) == numbered => d.version = query.version

\* The wait for published diagnostics finds fresh ones.
Receives ==
    /\ query.at = "asking" /\ query.push
    /\ LET d == found[query.server] IN
       /\ d # Closed /\ IsFresh(d)
       /\ answer' = [asked |-> query.text, got |-> d.text]
    /\ query' = Quiet
    /\ UNCHANGED <<disk, edits, numbered, server, document, over>>

\* The server publishes on the next document it was sent, or leaves it out.
Publish(s) ==
    /\ due[s] # <<>> /\ state[s] = "live"
    /\ due' = [due EXCEPT ![s] = Tail(@)]
    /\ found' \in {found, [found EXCEPT ![s] = Head(due[s])]}
    /\ UNCHANGED <<disk, edits, numbered, server, pending, doc, version, query, answer, over>>

-----------------------------------------------------------------------------
(* Failing, and giving up. *)

\* Nobody asks a closed server for its documents again.
ForgetDocument(s) ==
    /\ doc' = [doc EXCEPT ![s] = Closed] /\ version' = [version EXCEPT ![s] = 0]
    /\ due' = [due EXCEPT ![s] = <<>>] /\ found' = [found EXCEPT ![s] = Closed]
    /\ pending' = pending \ {s}

\* The server does not start, ends, answers nonsense, or not within 8 s.
Fail ==
    /\ query.at \in {"starting", "asking"}
    /\ query' = [query EXCEPT !.at = "failing"]
    /\ UNCHANGED <<disk, edits, numbered, server, document, answer, over>>

\* close() of the server: its watch first, then its process.
CloseBegins ==
    /\ query.at = "failing"
    /\ query' = [query EXCEPT !.at = "closing"]
    /\ state' = [state EXCEPT ![query.server] = IF @ = "live" THEN "closing" ELSE @]
    /\ ForgetDocument(query.server)
    /\ UNCHANGED <<disk, edits, numbered, entry, cleaning, stray, answer, over>>

\* The entry of the key is removed, whichever server it names by now.
RemoveEntry(s) ==
    /\ entry' = 0
    /\ stray' = IF entry \in {0, s} THEN stray ELSE stray \cup {entry}

CloseEnds ==
    /\ query.at = "closing"
    /\ state' = [state EXCEPT ![query.server] = "dead"]
    /\ RemoveEntry(query.server)
    /\ query' = Quiet
    /\ UNCHANGED <<disk, edits, numbered, cleaning, document, answer, over>>

\* After 20 s the thread cancels the question and leaves; the loop cleans up on its own.  A
\* cancellation that meets the cleanup itself ends it: the entry of a closed server stays.
GiveUp ==
    /\ query.at \in {"starting", "asking", "failing", "closing"}
    /\ cleaning' = IF query.at = "closing" THEN cleaning ELSE cleaning \cup {query.server}
    /\ query' = Quiet
    /\ UNCHANGED <<disk, edits, numbered, entry, state, stray, document, answer, over>>

CleanupBegins(s) ==
    /\ s \in cleaning /\ state[s] = "live"
    /\ state' = [state EXCEPT ![s] = "closing"]
    /\ ForgetDocument(s)
    /\ UNCHANGED <<disk, edits, numbered, entry, cleaning, stray, query, answer, over>>

CleanupEnds(s) ==
    /\ s \in cleaning /\ state[s] # "live"
    /\ cleaning' = cleaning \ {s}
    /\ state' = [state EXCEPT ![s] = "dead"]
    /\ RemoveEntry(s)
    /\ UNCHANGED <<disk, edits, numbered, document, query, answer, over>>

\* close() waits for the question under way, closes the servers that have an entry, and stops the
\* loop with whatever it still cleans up.
Close ==
    /\ query = Quiet /\ ~over
    /\ over' = TRUE
    /\ state' = [s \in Server |-> IF s = entry THEN "dead" ELSE state[s]]
    /\ entry' = 0 /\ cleaning' = {}
    /\ stray' = stray \cup {s \in cleaning : state[s] # "dead" /\ s # entry}
    /\ UNCHANGED <<disk, edits, numbered, document, query, answer>>

Next ==
    \/ Change
    \/ ~over /\ (Ask \/ TakeServer \/ ServerStarts \/ Sync \/ Replies \/ Receives \/ Fail)
    \/ ~over /\ (CloseBegins \/ CloseEnds \/ GiveUp \/ Close)
    \/ ~over /\ \E s \in Server : Publish(s) \/ CleanupBegins(s) \/ CleanupEnds(s)

Spec == Init /\ [][Next]_vars

-----------------------------------------------------------------------------
TypeOK ==
    /\ disk \in Text /\ edits \in Text /\ numbered \in BOOLEAN
    /\ entry \in {0} \cup Server /\ over \in BOOLEAN
    /\ state \in [Server -> {"unused", "live", "closing", "dead"}]
    /\ pending \subseteq Server /\ cleaning \subseteq Server /\ stray \subseteq Server
    /\ doc \in [Server -> Documents] /\ found \in [Server -> Documents]
    /\ version \in [Server -> 0..MaxVersion] /\ \A s \in Server : due[s] \in Seq(Documents)
    /\ query \in [at : {"idle", "called", "starting", "ready", "asking", "failing", "closing"},
                  text : Text, push : BOOLEAN, server : {0} \cup Server, version : 0..MaxVersion]
    /\ answer \in [asked : Text, got : Text]

\* An answer is about the text the question was asked of, whatever changed in the meantime, was
\* closed and opened again, or was published late (sync, query) - when servers number what they
\* publish; one that does not may have its late diagnostics of the text before taken for fresh.
AnswersAreOfText == numbered => answer.asked = answer.got

\* The service knows every server that runs: it has the entry, or is being closed; except for one
\* whose entry the late cleanup of another removed (_query, close).
ServersAreKnown ==
    /\ \A s \in Live : s \in {entry} \cup cleaning \cup stray
    /\ over => \A s \in Server : state[s] \in {"live", "closing"} => s \in stray

=============================================================================
