-------------------------- MODULE ContextCompaction --------------------------
(***************************************************************************)
(* The context of a conversation as its turns grow and its older part is    *)
(* replaced by a summary: ContextManager.compact, ContextHistory and the    *)
(* parts of AgentConversation that keep the start of the current turn.      *)
(***************************************************************************)
EXTENDS Naturals, Sequences, FiniteSets, SequencesExt

CONSTANTS MaxSaid,      \* messages appended
          TailLimit,    \* DEFAULT_RECENT_TAIL_TOKENS, in messages
          MinRecent,    \* DEFAULT_MIN_RECENT_MESSAGES
          MinRegion     \* MIN_COMPACT_REGION_TOKENS, in messages

VARIABLES messages,     \* [kind, seq]: the context, without its system message
          said,         \* messages appended so far
          turnStart,    \* current_turn_start_index: an index of messages
          turn,         \* the message that began the current turn
          covered,      \* the messages the summary speaks for
          events        \* the messages that were events of the runtime

vars == <<messages, said, turnStart, turn, covered, events>>

\* A message of the conversation; what is made for the context has no number of its own.
Made(kind) == [kind |-> kind, seq |-> 0]
Message(kind, seq) == [kind |-> kind, seq |-> seq]
Numbers(ms) == {ms[i].seq : i \in DOMAIN ms} \ {0}

Init ==
    /\ messages = <<>> /\ said = 0 /\ turnStart = 1 /\ turn = 0
    /\ covered = {} /\ events = {}

\* add_user_turn.
AddUserTurn ==
    /\ said < MaxSaid
    /\ said' = said + 1 /\ turn' = said'
    /\ messages' = Append(messages, Message("user", said')) /\ turnStart' = Len(messages')
    /\ UNCHANGED <<covered, events>>

\* Within the turn: an answer, an answer whose call is answered in turn, an event of the runtime.
Continue ==
    /\ turn > 0
    /\ \E kinds \in {<<"answer">>, <<"call", "tool">>, <<"event">>} :
          /\ said + Len(kinds) <= MaxSaid /\ said' = said + Len(kinds)
          /\ messages' = messages \o [i \in DOMAIN kinds |-> Message(kinds[i], said + i)]
          /\ events' = IF kinds = <<"event">> THEN events \union {said'} ELSE events
    /\ UNCHANGED <<turnStart, turn, covered>>

\* tool_pairs_closed of what begins after the first n messages.
Closed(ms) ==
    \A i \in DOMAIN ms :
        /\ ms[i].kind = "call" => i < Len(ms) /\ ms[i + 1].kind = "tool"
        /\ ms[i].kind = "tool" => i > 1 /\ ms[i - 1].kind = "call"

After(n) == SubSeq(messages, n + 1, Len(messages))
Sized(n) == Len(messages) - n

\* Where the context is cut: before the current turn, or, when that is too long, before the tail of
\* it that fits; and never between a call and its answer.
Least(S) == CHOOSE n \in S : \A m \in S : n <= m
Tail0 == IF Len(messages) > MinRecent THEN Len(messages) - MinRecent ELSE 0
TailCut == IF Sized(Tail0) > TailLimit THEN Tail0 ELSE Least({n \in 0 .. Tail0 : Sized(n) <= TailLimit})

Cut == LET start == turnStart - 1 IN
       IF Sized(start) > TailLimit /\ TailCut > start THEN TailCut ELSE start

Split == CHOOSE n \in 0 .. Cut : (n = 0 \/ Closed(After(n)))
                                 /\ \A k \in n + 1 .. Cut : ~Closed(After(k))

\* What is summarized: runtime events and dynamic context of an older context are left out.
Older == SelectSeq(SubSeq(messages, 1, Split), LAMBDA m : m.kind \notin {"event", "dynamic"})
Unsummarized == SelectSeq(Older, LAMBDA m : m.kind # "summary")
KeptLate == SelectSeq(After(Split + 1), LAMBDA m : m.kind \notin {"event", "dynamic"})
Kept == SelectSeq(After(Split), LAMBDA m : m.kind \notin {"event", "dynamic"})

\* The context with the summary in place, and what a middleware injects in front of it.
Candidate(injected) ==
    (IF injected THEN <<Made("dynamic")>> ELSE <<>>) \o <<Made("summary")>> \o Kept

\* start_epoch: the current turn is found again by the number of its first message.
Anchor(new) ==
    LET anchor == IF turnStart <= Len(messages) THEN messages[turnStart].seq ELSE 0 IN
    turnStart' = IF anchor \in Numbers(new) THEN Least({i \in DOMAIN new : new[i].seq = anchor})
                 ELSE IF Len(new) > 0 THEN Len(new) ELSE 1

\* compact: manual ("force") or automatic; a summary that fails or saves nothing changes nothing.
Compact(force) ==
    /\ Unsummarized # <<>> /\ (force \/ Len(Unsummarized) >= MinRegion)
    /\ \E injected \in BOOLEAN :
          LET new == Candidate(injected) IN
          /\ Closed(new) /\ Len(new) < Len(messages)
          /\ messages' = new /\ Anchor(new)
          /\ covered' = covered \union Numbers(Older)
    /\ UNCHANGED <<said, turn, events>>

\* _refreshed_context without a summary: dynamic context is replaced, nothing else.
Refresh ==
    /\ messages # <<>>
    /\ LET plain == SelectSeq(messages, LAMBDA m : m.kind # "dynamic") IN
       \E injected \in BOOLEAN :
          LET new == IF injected THEN <<Made("dynamic")>> \o plain ELSE plain IN
          new # messages /\ messages' = new /\ Anchor(new)
    /\ UNCHANGED <<said, turn, covered, events>>

Next == AddUserTurn \/ Continue \/ (\E force \in BOOLEAN : Compact(force)) \/ Refresh

Spec == Init /\ [][Next]_vars

(***************************************************************************)
(* What must hold.                                                          *)
(***************************************************************************)
Kinds == {"user", "answer", "call", "tool", "event", "dynamic", "summary"}

TypeOK ==
    /\ messages \in Seq([kind : Kinds, seq : 0 .. MaxSaid]) /\ said \in 0 .. MaxSaid
    /\ turnStart \in 1 .. (IF messages = <<>> THEN 1 ELSE Len(messages)) /\ turn \in 0 .. said /\ covered \subseteq 1 .. said
    /\ Closed(messages)

\* "A failed/insufficient summary never discards additional context": whatever was said is still
\* there, in its order, or spoken for by the one summary, but never both; only events of the
\* runtime are dropped (ContextManager.compact).
NothingIsLost ==
    /\ 1 .. said \subseteq covered \union Numbers(messages) \union events
    /\ covered \intersect Numbers(messages) = {}
    /\ Cardinality({i \in DOMAIN messages : messages[i].kind = "summary"}) <= 1
    /\ covered # {} => \E i \in DOMAIN messages : messages[i].kind = "summary"
    /\ \A i, j \in DOMAIN messages :
          i < j /\ messages[i].seq > 0 /\ messages[j].seq > 0 => messages[i].seq < messages[j].seq

\* The index of the current turn follows its message through every replacement of the context, and
\* a turn that is short enough is kept whole (start_epoch, compact).
TurnIsFound == turn \in Numbers(messages) => messages[turnStart].seq = turn

=============================================================================
