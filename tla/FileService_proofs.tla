------------------------- MODULE FileService_proofs -------------------------
(***************************************************************************)
(* No write replaces content it was not made from, and a batch is written  *)
(* whole or put back, for any number of sessions, agents, files and        *)
(* contents, and with any number of edits from outside.                    *)
(***************************************************************************)
EXTENDS FileService, FiniteSetTheorems, TLAPS

\* Each session has one agent, and that one reads again what it could not read: what the table of
\* versions vouches for, the agent knows.
Alone == Obedient /\ \A a, b \in Agent : ServiceOf[a] = ServiceOf[b] => a = b

Distinct(s) == \A i, j \in DOMAIN s : s[i] = s[j] => i = j

Locking == {"lease", "lock", "check"}
Writing == {"quota", "put", "undo", "charge"}

Fields == {"pc", "kind", "todo", "held", "locked", "new", "base", "old", "rest", "raised"}

\* The write of an agent is a record.
Shape == DOMAIN op = Agent /\ op = [a \in Agent |-> op[a]] /\ \A a \in Agent : DOMAIN op[a] = Fields

\* The types that the steps depend on.
Types ==
    /\ disk \in [File -> Content]
    /\ versions \in [Service -> [File -> Content \cup {Unobserved}]]
    /\ seen \in [Agent -> [File -> Content]]
    /\ told \in [Agent -> SUBSET File] /\ raced \subseteq File
    /\ read \in [Agent -> [pc: {"idle", "digest", "lines"}, file: File, moved: BOOLEAN]]

\* The files a write has leased, those it is still to lease, those it is still to replace.
Sequenced(o) ==
    /\ o.held \in Seq(File) /\ Distinct(o.held)
    /\ o.todo \in Seq(File) /\ Distinct(o.todo)
    /\ o.rest \in Seq(File) /\ Distinct(o.rest)
    /\ o.pc # "end" => ToSet(o.rest) \subseteq ToSet(o.held)
    /\ ToSet(o.held) \cap ToSet(o.todo) = {}

\* Where it is, and what is left to do there.
Staged(o) ==
    /\ o.pc \in {"idle", "end"} \cup Locking \cup Writing
    /\ o.pc # "idle" => o.kind \in {"write", "patch", "batch"}
    /\ o.pc = "idle" => o = NoWrite
    /\ o.pc \notin {"idle", "lease"} => o.held # <<>>
    /\ o.pc = "lease" => o.todo # <<>>
    /\ o.pc \in {"put", "undo"} => o.rest # <<>>
    /\ o.pc = "charge" => o.rest = <<>>
    /\ o.pc = "quota" => o.rest = o.held
    /\ o.pc \in Locking \cup {"quota", "put", "charge"} => ~o.raised
    /\ o.pc = "undo" => o.kind = "batch" /\ o.raised

\* What it is about: each file that it leases gets new content, and has had some.
Covered(o) ==
    /\ o.pc \in Locking \cup Writing => DOMAIN o.new = ToSet(o.held) \cup ToSet(o.todo)
    /\ o.pc \in Writing \cup {"check"} => o.todo = <<>>
    /\ o.pc \in Writing => DOMAIN o.old = ToSet(o.held)
    /\ o.pc \in Locking => o.old = <<>>
    /\ o.pc # "idle" => \A f \in DOMAIN o.new : o.new[f] \in Content
    /\ o.pc \in Writing => \A f \in ToSet(o.held) : o.old[f] \in Content
    /\ o.pc = "end" => ToSet(o.held) \subseteq DOMAIN o.new
    /\ ToSet(o.rest) \subseteq DOMAIN o.new

\* What is leased is locked, but for the file at hand.
LockedSoFar(o) ==
    o.locked = IF o.pc = "lock" THEN ToSet(o.held) \ {Last(o.held)} ELSE ToSet(o.held)

Form(o) == Sequenced(o) /\ Staged(o) /\ Covered(o) /\ LockedSoFar(o)
Formed == \A a \in Agent : Form(op[a])

\* An agent is in one operation at a time.
OneAtATime == \A a \in Agent : op[a].pc = "idle" \/ read[a].pc = "idle"

\* Leases exclude strangers, locks siblings as well.
Excluded ==
    /\ \A a \in Agent : \A b \in Strangers(a) : ToSet(op[a].held) \cap ToSet(op[b].held) = {}
    /\ \A a, b \in Agent : a # b => op[a].locked \cap op[b].locked = {}

\* What the write o found in the files it has locked is there until it replaces it, unless an editor
\* changed it meanwhile; what it wrote, or put back, is there until it lets go.
Keeps(o) ==
    \A f \in o.locked \ raced :
        /\ o.pc \in {"quota", "put"} /\ f \in ToSet(o.rest) => disk[f] = o.old[f]
        /\ o.pc \in {"put", "charge"} /\ f \notin ToSet(o.rest) => disk[f] = o.new[f]
        /\ o.pc = "undo" /\ f \notin ToSet(o.rest) => disk[f] = o.old[f]
        /\ o.pc = "end" /\ ~o.raised => disk[f] = o.new[f]
        /\ o.pc = "end" /\ o.raised /\ o.kind = "batch" /\ o.old # <<>> /\ ~UndoMayFail
              => disk[f] = o.old[f]
Kept == \A a \in Agent : Keeps(op[a])

\* The versions that the write o of an agent was compared with still stand.
Stands(a, o) ==
    o.pc \in Locking => \A f \in o.locked \ raced :
        /\ o.kind = "batch" => disk[f] = o.base[f]
        /\ o.kind = "write" /\ Alone => versions[ServiceOf[a]][f] \in {Unobserved, disk[f]}
Compared == \A a \in Agent : Stands(a, op[a])

\* What the write o of an agent is made from.
MadeFrom(a, o) ==
    /\ o.kind = "write" /\ o.pc \in Locking /\ Obedient =>
          /\ DOMAIN o.new \cap told[a] = {}
          /\ \A f \in DOMAIN o.new : o.base[f] = seen[a][f]
    /\ o.pc \in {"quota", "put"} /\ (o.kind = "write" => Alone) =>
          \A f \in ToSet(o.held) \ raced : o.base[f] = o.old[f]
Based == \A a \in Agent : MadeFrom(a, op[a])

\* An agent that is alone with its table of versions knows what the table vouches for.
Knows(a) ==
    /\ \A f \in File \ (told[a] \cup raced) :
          \/ read[a].pc = "lines" /\ read[a].file = f
          \/ versions[ServiceOf[a]][f] = seen[a][f]
          \/ versions[ServiceOf[a]][f] = Unobserved /\ seen[a][f] = Absent
    /\ read[a].pc = "lines" /\ ~read[a].moved
          => versions[ServiceOf[a]][read[a].file] = disk[read[a].file]
Known == Alone => \A a \in Agent : Knows(a)

IInv == Types /\ Shape /\ Formed /\ OneAtATime /\ Excluded /\ Kept /\ Compared /\ Based /\ Known

-----------------------------------------------------------------------------
(* Sequences without duplicates.                                           *)

\* The sequences of files a write goes through have no file twice; what is left after the first ...
LEMMA TailOf ==
    ASSUME NEW S, NEW s \in Seq(S), Distinct(s), s # <<>>
    PROVE  /\ Head(s) \in ToSet(s) /\ Tail(s) \in Seq(S) /\ Distinct(Tail(s))
           /\ ToSet(Tail(s)) = ToSet(s) \ {Head(s)}
           /\ (Len(s) = 1 <=> Tail(s) = <<>>)
  <1>1. Len(s) \in Nat /\ Len(s) >= 1 /\ DOMAIN s = 1 .. Len(s) /\ Head(s) = s[1]
    OBVIOUS
  <1>2. /\ Tail(s) \in Seq(S) /\ Len(Tail(s)) = Len(s) - 1 /\ DOMAIN Tail(s) = 1 .. Len(s) - 1
        /\ \A i \in 1 .. Len(s) - 1 : Tail(s)[i] = s[i + 1]
    BY <1>1
  <1>3. Distinct(Tail(s))
    <2>1. ASSUME NEW i \in 1 .. Len(s) - 1, NEW j \in 1 .. Len(s) - 1, s[i + 1] = s[j + 1] PROVE i = j
      BY <1>1, <2>1 DEF Distinct
    <2> QED  BY <1>2, <2>1 DEF Distinct
  <1>4. ToSet(Tail(s)) = {s[i + 1] : i \in 1 .. Len(s) - 1}
    BY <1>2 DEF ToSet
  <1>5. \A x : x \in {s[i + 1] : i \in 1 .. Len(s) - 1} <=> x \in ToSet(s) /\ x # s[1]
    <2>1. ASSUME NEW i \in 1 .. Len(s) - 1 PROVE s[i + 1] \in ToSet(s) /\ s[i + 1] # s[1]
      BY <1>1 DEF Distinct, ToSet
    <2>2. ASSUME NEW x \in ToSet(s), x # s[1] PROVE \E i \in 1 .. Len(s) - 1 : x = s[i + 1]
      <3>1. PICK k \in 1 .. Len(s) : x = s[k]
        BY <1>1 DEF ToSet
      <3>2. k - 1 \in 1 .. Len(s) - 1 /\ x = s[(k - 1) + 1]
        BY <1>1, <2>2, <3>1
      <3> QED  BY <3>2
    <2> QED  BY <2>1, <2>2
  <1>6. Head(s) \in ToSet(s)
    BY <1>1 DEF ToSet
  <1>7. ToSet(Tail(s)) = ToSet(s) \ {Head(s)}
    BY <1>1, <1>4, <1>5
  <1>8. Len(s) = 1 <=> Tail(s) = <<>>
    <2>1. ASSUME NEW t \in Seq(S) PROVE Len(t) = 0 <=> t = <<>>
      OBVIOUS
    <2>2. Len(Tail(s)) = 0 <=> Len(s) = 1
      BY <1>1, <1>2
    <2> QED  BY <1>2, <2>1, <2>2
  <1> QED  BY <1>2, <1>3, <1>6, <1>7, <1>8

\* ... what one more adds ...
LEMMA AppendTo ==
    ASSUME NEW S, NEW s \in Seq(S), Distinct(s), NEW x \in S, x \notin ToSet(s)
    PROVE  /\ Append(s, x) \in Seq(S) /\ Append(s, x) # <<>> /\ Distinct(Append(s, x))
           /\ ToSet(Append(s, x)) = ToSet(s) \cup {x} /\ Last(Append(s, x)) = x
  <1>1. /\ Len(s) \in Nat /\ DOMAIN s = 1 .. Len(s) /\ Append(s, x) \in Seq(S)
        /\ Len(Append(s, x)) = Len(s) + 1 /\ DOMAIN Append(s, x) = 1 .. Len(s) + 1
        /\ \A i \in 1 .. Len(s) : Append(s, x)[i] = s[i]
        /\ Append(s, x)[Len(s) + 1] = x
    OBVIOUS
  <1>2. \A i \in 1 .. Len(s) : s[i] # x
    BY <1>1 DEF ToSet
  <1>3. Distinct(Append(s, x))
    BY <1>1, <1>2 DEF Distinct
  <1>4. ToSet(Append(s, x)) = ToSet(s) \cup {x}
    BY <1>1 DEF ToSet
  <1> QED  BY <1>1, <1>3, <1>4 DEF Last

\* ... what is left before the last ...
LEMMA FrontOf ==
    ASSUME NEW S, NEW s \in Seq(S), Distinct(s), s # <<>>
    PROVE  /\ Last(s) \in ToSet(s) /\ Front(s) \in Seq(S) /\ Distinct(Front(s))
           /\ ToSet(Front(s)) = ToSet(s) \ {Last(s)}
  <1>1. Len(s) \in Nat /\ Len(s) >= 1 /\ DOMAIN s = 1 .. Len(s)
    OBVIOUS
  <1>2. /\ Front(s) \in Seq(S) /\ Len(Front(s)) = Len(s) - 1 /\ DOMAIN Front(s) = 1 .. Len(s) - 1
        /\ \A i \in 1 .. Len(s) - 1 : Front(s)[i] = s[i]
    BY <1>1 DEF Front
  <1>3. Last(s) = s[Len(s)] /\ Last(s) \in ToSet(s)
    BY <1>1 DEF Last, ToSet
  <1>4. Distinct(Front(s))
    BY <1>1, <1>2 DEF Distinct
  <1>5. \A i \in 1 .. Len(s) - 1 : s[i] # s[Len(s)]
    BY <1>1 DEF Distinct
  <1>6. ToSet(Front(s)) = ToSet(s) \ {Last(s)}
    BY <1>1, <1>2, <1>3, <1>5 DEF ToSet
  <1> QED  BY <1>2, <1>3, <1>4, <1>6

\* ... and the other way round.
LEMMA ReverseOf ==
    ASSUME NEW S, NEW s \in Seq(S), Distinct(s), s # <<>>
    PROVE  /\ Reverse(s) \in Seq(S) /\ Distinct(Reverse(s)) /\ Reverse(s) # <<>>
           /\ ToSet(Reverse(s)) = ToSet(s)
  <1>1. Len(s) \in Nat /\ Len(s) >= 1 /\ DOMAIN s = 1 .. Len(s)
    OBVIOUS
  <1>2. /\ Reverse(s) \in Seq(S) /\ DOMAIN Reverse(s) = 1 .. Len(s) /\ Len(Reverse(s)) = Len(s)
        /\ \A i \in 1 .. Len(s) : Reverse(s)[i] = s[Len(s) - i + 1] /\ Len(s) - i + 1 \in 1 .. Len(s)
    <2>1. \A i \in 1 .. Len(s) : Len(s) - i + 1 \in 1 .. Len(s)
      BY <1>1
    <2>2. Reverse(s) = [i \in 1 .. Len(s) |-> s[Len(s) - i + 1]]
      BY DEF Reverse
    <2>3. Reverse(s) \in [1 .. Len(s) -> S]
      BY <1>1, <2>1, <2>2
    <2>4. Reverse(s) \in Seq(S) /\ Len(Reverse(s)) = Len(s)
      BY <1>1, <2>3
    <2> QED  BY <2>1, <2>2, <2>4
  <1>3. Distinct(Reverse(s))
    BY <1>1, <1>2 DEF Distinct
  <1>4. ASSUME NEW i \in 1 .. Len(s) PROVE \E j \in 1 .. Len(s) : Reverse(s)[j] = s[i]
    <2>1. Len(s) - i + 1 \in 1 .. Len(s) /\ Reverse(s)[Len(s) - i + 1] = s[i]
      BY <1>1, <1>2
    <2> QED  BY <2>1
  <1>5. ToSet(Reverse(s)) = ToSet(s)
    <2>1. ASSUME NEW x \in ToSet(Reverse(s)) PROVE x \in ToSet(s)
      BY <1>1, <1>2 DEF ToSet
    <2>2. ASSUME NEW x \in ToSet(s) PROVE x \in ToSet(Reverse(s))
      <3>1. PICK i \in 1 .. Len(s) : x = s[i]
        BY <1>1 DEF ToSet
      <3>2. PICK j \in 1 .. Len(s) : Reverse(s)[j] = s[i]
        BY <1>4
      <3> QED  BY <1>2, <3>1, <3>2 DEF ToSet
    <2> QED  BY <2>1, <2>2
  <1>6. Reverse(s) # <<>>
    BY <1>1, <1>2
  <1> QED  BY <1>2, <1>3, <1>5, <1>6

\* The empty sequence is one of them.
LEMMA EmptyOf ==
    ASSUME NEW S
    PROVE  <<>> \in Seq(S) /\ Distinct(<<>>) /\ ToSet(<<>>) = {}
  BY DEF Distinct, ToSet

\* The files of a write, once each.
LEMMA OrdersOf ==
    ASSUME NEW files \in SUBSET File, NEW order \in Orders(files)
    PROVE  order \in Seq(File) /\ Distinct(order) /\ ToSet(order) = files
  <1>1. Sorted \in Seq(File) /\ \A i, j \in DOMAIN Sorted : Sorted[i] = Sorted[j] => i = j
    BY FileAssumption
  <1>2. IsFiniteSet(File)
    <2>1. Len(Sorted) \in Nat /\ DOMAIN Sorted = 1 .. Len(Sorted) /\ Sorted \in [1 .. Len(Sorted) -> File]
      BY <1>1
    <2>2. Sorted \in Surjection(1 .. Len(Sorted), File)
      BY <2>1 DEF Surjection, File, ToSet
    <2>3. IsFiniteSet(1 .. Len(Sorted))
      BY <2>1, FS_Interval
    <2> QED  BY <2>2, <2>3, FS_Surjection
  <1>3. Cardinality(files) \in Nat
    BY <1>2, FS_Subset, FS_CardinalityType
  <1>4. order \in [1 .. Cardinality(files) -> files] /\ ToSet(order) = files /\ InOrder(order)
    BY DEF Orders, OrdersAsGiven
  <1>5. order \in Seq(File) /\ DOMAIN order = 1 .. Cardinality(files)
    BY <1>3, <1>4
  <1>6. ASSUME NEW i \in DOMAIN order, NEW j \in DOMAIN order, i < j PROVE order[i] # order[j]
    <2>1. PICK k, l \in DOMAIN Sorted : k < l /\ Sorted[k] = order[i] /\ Sorted[l] = order[j]
      BY <1>4, <1>6 DEF InOrder
    <2>2. k # l
      BY <1>1, <2>1
    <2> QED  BY <1>1, <2>1, <2>2
  <1>7. Distinct(order)
    <2>1. ASSUME NEW i \in DOMAIN order, NEW j \in DOMAIN order, i # j PROVE order[i] # order[j]
      <3>1. i < j \/ j < i
        BY <1>3, <1>5, <2>1
      <3> QED  BY <1>6, <3>1
    <2> QED  BY <2>1 DEF Distinct
  <1> QED  BY <1>4, <1>5, <1>7

-----------------------------------------------------------------------------
(* The steps keep the form of a write.                                     *)

\* A step of one agent leaves the writes of the others alone.
Others(a) ==
    /\ DOMAIN op' = Agent /\ op' = [b \in Agent |-> op'[b]] /\ DOMAIN op'[a] = Fields
    /\ \A b \in Agent \ {a} : op'[b] = op[b]

\* What each step does to the write of its agent: the next file is leased ...
LEMMA LeaseOp ==
    ASSUME Shape, NEW a \in Agent, Lease(a)
    PROVE  /\ Others(a) /\ UNCHANGED <<disk, versions, charged, read, seen, told, raced>>
           /\ op[a].pc = "lease"
           /\ \A b \in Strangers(a) : Head(op[a].todo) \notin ToSet(op[b].held)
           /\ op'[a].pc = "lock"
           /\ op'[a].todo = Tail(op[a].todo)
           /\ op'[a].held = Append(op[a].held, Head(op[a].todo))
           /\ op'[a].kind = op[a].kind /\ op'[a].locked = op[a].locked /\ op'[a].new = op[a].new
           /\ op'[a].base = op[a].base /\ op'[a].old = op[a].old /\ op'[a].rest = op[a].rest
           /\ op'[a].raised = op[a].raised
  <1> USE DEF Lease, Shape, Fields
  <1>1. Others(a) /\ UNCHANGED <<disk, versions, charged, read, seen, told, raced>>
    BY DEF Others
  <1>2. /\ op[a].pc = "lease"
        /\ \A b \in Strangers(a) : Head(op[a].todo) \notin ToSet(op[b].held)
    OBVIOUS
  <1>3. /\ op'[a].pc = "lock"
        /\ op'[a].todo = Tail(op[a].todo)
        /\ op'[a].held = Append(op[a].held, Head(op[a].todo))
    OBVIOUS
  <1>4. /\ op'[a].kind = op[a].kind /\ op'[a].locked = op[a].locked /\ op'[a].new = op[a].new
        /\ op'[a].base = op[a].base /\ op'[a].old = op[a].old /\ op'[a].rest = op[a].rest
        /\ op'[a].raised = op[a].raised
    OBVIOUS
  <1> QED  BY <1>1, <1>2, <1>3, <1>4

\* ... locked and compared ...
LEMMA LockOp ==
    ASSUME Shape, NEW a \in Agent, Lock(a)
    PROVE  /\ Others(a) /\ UNCHANGED <<disk, versions, charged, read, seen, told, raced>>
           /\ op[a].pc = "lock"
           /\ \A b \in Siblings(a) : Last(op[a].held) \notin op[b].locked
           /\ op'[a].locked = op[a].locked \cup {Last(op[a].held)}
           /\ VersionMoved(a, Last(op[a].held)) => op'[a].raised
           /\ ~VersionMoved(a, Last(op[a].held)) => ~op'[a].raised
           /\ VersionMoved(a, Last(op[a].held)) => op'[a].pc = "end"
           /\ ~VersionMoved(a, Last(op[a].held)) /\ op[a].todo # <<>> => op'[a].pc = "lease"
           /\ ~VersionMoved(a, Last(op[a].held)) /\ op[a].todo = <<>> => op'[a].pc = "check"
           /\ op'[a].kind = op[a].kind /\ op'[a].todo = op[a].todo /\ op'[a].held = op[a].held
           /\ op'[a].new = op[a].new /\ op'[a].base = op[a].base /\ op'[a].old = op[a].old
           /\ op'[a].rest = op[a].rest
  <1> USE DEF Lock, Shape, Fields
  <1>1. Others(a) /\ UNCHANGED <<disk, versions, charged, read, seen, told, raced>>
    BY DEF Others
  <1>2. /\ op[a].pc = "lock"
        /\ \A b \in Siblings(a) : Last(op[a].held) \notin op[b].locked
    OBVIOUS
  <1>3. op'[a].locked = op[a].locked \cup {Last(op[a].held)}
    OBVIOUS
  <1>4. /\ VersionMoved(a, Last(op[a].held)) => op'[a].raised
        /\ ~VersionMoved(a, Last(op[a].held)) => ~op'[a].raised
    OBVIOUS
  <1>5. /\ VersionMoved(a, Last(op[a].held)) => op'[a].pc = "end"
        /\ ~VersionMoved(a, Last(op[a].held)) /\ op[a].todo # <<>> => op'[a].pc = "lease"
        /\ ~VersionMoved(a, Last(op[a].held)) /\ op[a].todo = <<>> => op'[a].pc = "check"
    OBVIOUS
  <1>6. /\ op'[a].kind = op[a].kind /\ op'[a].todo = op[a].todo /\ op'[a].held = op[a].held
        /\ op'[a].new = op[a].new /\ op'[a].base = op[a].base /\ op'[a].old = op[a].old
        /\ op'[a].rest = op[a].rest
    OBVIOUS
  <1> QED  BY <1>1, <1>2, <1>3, <1>4, <1>5, <1>6

\* ... what it holds is kept ...
LEMMA CheckOp ==
    ASSUME Shape, NEW a \in Agent, Check(a)
    PROVE  /\ Others(a) /\ UNCHANGED <<disk, versions, charged, read, seen, told, raced>>
           /\ op[a].pc = "check"
           /\ ~MayFail(a)
           /\ op'[a].pc = "quota"
           /\ op'[a].old = [f \in DOMAIN op[a].new |-> disk[f]]
           /\ op'[a].rest = op[a].held
           /\ op'[a].kind = op[a].kind /\ op'[a].todo = op[a].todo /\ op'[a].held = op[a].held
           /\ op'[a].locked = op[a].locked /\ op'[a].new = op[a].new /\ op'[a].raised = op[a].raised
           /\ op[a].kind = "patch" => op'[a].base = [f \in DOMAIN op[a].new |-> disk[f]]
           /\ op[a].kind # "patch" => op'[a].base = op[a].base
  <1> USE DEF Check, Shape, Fields
  <1>1. Others(a) /\ UNCHANGED <<disk, versions, charged, read, seen, told, raced>>
    BY DEF Others
  <1>2. /\ op[a].pc = "check"
        /\ ~MayFail(a)
    OBVIOUS
  <1>3. /\ op'[a].pc = "quota"
        /\ op'[a].old = [f \in DOMAIN op[a].new |-> disk[f]]
        /\ op'[a].rest = op[a].held
    OBVIOUS
  <1>4. /\ op'[a].kind = op[a].kind /\ op'[a].todo = op[a].todo /\ op'[a].held = op[a].held
        /\ op'[a].locked = op[a].locked /\ op'[a].new = op[a].new /\ op'[a].raised = op[a].raised
    OBVIOUS
  <1>5. /\ op[a].kind = "patch" => op'[a].base = [f \in DOMAIN op[a].new |-> disk[f]]
        /\ op[a].kind # "patch" => op'[a].base = op[a].base
    OBVIOUS
  <1> QED  BY <1>1, <1>2, <1>3, <1>4, <1>5

LEMMA FailOp ==
    ASSUME Shape, NEW a \in Agent, CheckFails(a)
    PROVE  /\ Others(a) /\ UNCHANGED <<disk, versions, charged, read, seen, told, raced>>
           /\ op[a].pc = "check"
           /\ op'[a].pc = "end"
           /\ op'[a].raised
           /\ op'[a].kind = op[a].kind /\ op'[a].todo = op[a].todo /\ op'[a].held = op[a].held
           /\ op'[a].locked = op[a].locked /\ op'[a].new = op[a].new /\ op'[a].base = op[a].base
           /\ op'[a].old = op[a].old /\ op'[a].rest = op[a].rest
  <1> USE DEF CheckFails, Raise, Shape, Fields
  <1>1. Others(a) /\ UNCHANGED <<disk, versions, charged, read, seen, told, raced>>
    BY DEF Others
  <1>2. op[a].pc = "check"
    OBVIOUS
  <1>3. /\ op'[a].pc = "end"
        /\ op'[a].raised
    OBVIOUS
  <1>4. /\ op'[a].kind = op[a].kind /\ op'[a].todo = op[a].todo /\ op'[a].held = op[a].held
        /\ op'[a].locked = op[a].locked /\ op'[a].new = op[a].new /\ op'[a].base = op[a].base
        /\ op'[a].old = op[a].old /\ op'[a].rest = op[a].rest
    OBVIOUS
  <1> QED  BY <1>1, <1>2, <1>3, <1>4

LEMMA QuotaOp ==
    ASSUME Shape, NEW a \in Agent, CheckQuota(a)
    PROVE  /\ Others(a) /\ UNCHANGED <<disk, versions, charged, read, seen, told, raced>>
           /\ op[a].pc = "quota"
           /\ OverQuota(a) => op'[a].raised
           /\ ~OverQuota(a) => ~op'[a].raised
           /\ OverQuota(a) => op'[a].pc = "end"
           /\ ~OverQuota(a) => op'[a].pc = "put"
           /\ op'[a].kind = op[a].kind /\ op'[a].todo = op[a].todo /\ op'[a].held = op[a].held
           /\ op'[a].locked = op[a].locked /\ op'[a].new = op[a].new /\ op'[a].base = op[a].base
           /\ op'[a].old = op[a].old /\ op'[a].rest = op[a].rest
  <1> USE DEF CheckQuota, Shape, Fields
  <1>1. Others(a) /\ UNCHANGED <<disk, versions, charged, read, seen, told, raced>>
    BY DEF Others
  <1>2. op[a].pc = "quota"
    OBVIOUS
  <1>3. /\ OverQuota(a) => op'[a].raised
        /\ ~OverQuota(a) => ~op'[a].raised
    OBVIOUS
  <1>4. /\ OverQuota(a) => op'[a].pc = "end"
        /\ ~OverQuota(a) => op'[a].pc = "put"
    OBVIOUS
  <1>5. /\ op'[a].kind = op[a].kind /\ op'[a].todo = op[a].todo /\ op'[a].held = op[a].held
        /\ op'[a].locked = op[a].locked /\ op'[a].new = op[a].new /\ op'[a].base = op[a].base
        /\ op'[a].old = op[a].old /\ op'[a].rest = op[a].rest
    OBVIOUS
  <1> QED  BY <1>1, <1>2, <1>3, <1>4, <1>5

\* ... the files are replaced one by one ...
LEMMA PutOp ==
    ASSUME Shape, NEW a \in Agent, Put(a)
    PROVE  /\ Others(a) /\ UNCHANGED <<versions, charged, seen, told, raced>>
           /\ op[a].pc = "put"
           /\ disk' = [disk EXCEPT ![Head(op[a].rest)] = op[a].new[Head(op[a].rest)]]
           /\ Touched(Head(op[a].rest))
           /\ op'[a].rest = Tail(op[a].rest)
           /\ Len(op[a].rest) = 1 => op'[a].pc = "charge"
           /\ Len(op[a].rest) # 1 => op'[a].pc = "put"
           /\ op'[a].kind = op[a].kind /\ op'[a].todo = op[a].todo /\ op'[a].held = op[a].held
           /\ op'[a].locked = op[a].locked /\ op'[a].new = op[a].new /\ op'[a].base = op[a].base
           /\ op'[a].old = op[a].old /\ op'[a].raised = op[a].raised
  <1> USE DEF Put, Shape, Fields
  <1>1. Others(a) /\ UNCHANGED <<versions, charged, seen, told, raced>>
    BY DEF Others
  <1>2. /\ op[a].pc = "put"
        /\ disk' = [disk EXCEPT ![Head(op[a].rest)] = op[a].new[Head(op[a].rest)]]
        /\ Touched(Head(op[a].rest))
    OBVIOUS
  <1>3. op'[a].rest = Tail(op[a].rest)
    OBVIOUS
  <1>4. /\ Len(op[a].rest) = 1 => op'[a].pc = "charge"
        /\ Len(op[a].rest) # 1 => op'[a].pc = "put"
    OBVIOUS
  <1>5. /\ op'[a].kind = op[a].kind /\ op'[a].todo = op[a].todo /\ op'[a].held = op[a].held
        /\ op'[a].locked = op[a].locked /\ op'[a].new = op[a].new /\ op'[a].base = op[a].base
        /\ op'[a].old = op[a].old /\ op'[a].raised = op[a].raised
    OBVIOUS
  <1> QED  BY <1>1, <1>2, <1>3, <1>4, <1>5

LEMMA ErrorOp ==
    ASSUME Shape, NEW a \in Agent, PutError(a)
    PROVE  /\ Others(a) /\ UNCHANGED <<disk, versions, charged, read, seen, told, raced>>
           /\ op[a].pc = "put" /\ op'[a].raised
           /\ op[a].kind = "batch" => op'[a].pc = "undo" /\ op'[a].rest = Reverse(op[a].held)
           /\ op[a].kind # "batch" => op'[a].pc = "end" /\ op'[a].rest = op[a].rest
           /\ op'[a].kind = op[a].kind /\ op'[a].todo = op[a].todo /\ op'[a].held = op[a].held
           /\ op'[a].locked = op[a].locked /\ op'[a].new = op[a].new /\ op'[a].base = op[a].base
           /\ op'[a].old = op[a].old
  <1> USE DEF PutError, Raise, Shape, Fields
  <1>1. op[a].pc = "put" /\ UNCHANGED <<disk, versions, charged, read, seen, told, raced>>
    OBVIOUS
  <1>2. CASE op[a].kind = "batch"
    <2>1. op' = [op EXCEPT ![a].pc = "undo", ![a].raised = TRUE, ![a].rest = Reverse(op[a].held)]
      BY <1>2
    <2>2. Others(a)
      BY <2>1 DEF Others
    <2>3. op'[a].raised /\ op'[a].pc = "undo" /\ op'[a].rest = Reverse(op[a].held)
      BY <2>1
    <2>4. /\ op'[a].kind = op[a].kind /\ op'[a].todo = op[a].todo /\ op'[a].held = op[a].held
          /\ op'[a].locked = op[a].locked /\ op'[a].new = op[a].new /\ op'[a].base = op[a].base
          /\ op'[a].old = op[a].old
      BY <2>1
    <2> QED  BY <1>1, <1>2, <2>2, <2>3, <2>4
  <1>3. CASE op[a].kind # "batch"
    <2>1. op' = [op EXCEPT ![a].pc = "end", ![a].raised = TRUE]
      BY <1>3
    <2>2. Others(a)
      BY <2>1 DEF Others
    <2>3. op'[a].raised /\ op'[a].pc = "end" /\ op'[a].rest = op[a].rest
      BY <2>1
    <2>4. /\ op'[a].kind = op[a].kind /\ op'[a].todo = op[a].todo /\ op'[a].held = op[a].held
          /\ op'[a].locked = op[a].locked /\ op'[a].new = op[a].new /\ op'[a].base = op[a].base
          /\ op'[a].old = op[a].old
      BY <2>1
    <2> QED  BY <1>1, <1>3, <2>2, <2>3, <2>4
  <1> QED  BY <1>2, <1>3

\* ... or put back ...
LEMMA UndoOp ==
    ASSUME Shape, NEW a \in Agent, Undo(a)
    PROVE  /\ Others(a) /\ UNCHANGED <<versions, charged, seen, told, raced>>
           /\ op[a].pc = "undo"
           /\ disk' = [disk EXCEPT ![Head(op[a].rest)] = op[a].old[Head(op[a].rest)]]
           /\ Touched(Head(op[a].rest))
           /\ op'[a].rest = Tail(op[a].rest)
           /\ Len(op[a].rest) = 1 => op'[a].pc = "end"
           /\ Len(op[a].rest) # 1 => op'[a].pc = "undo"
           /\ op'[a].kind = op[a].kind /\ op'[a].todo = op[a].todo /\ op'[a].held = op[a].held
           /\ op'[a].locked = op[a].locked /\ op'[a].new = op[a].new /\ op'[a].base = op[a].base
           /\ op'[a].old = op[a].old /\ op'[a].raised = op[a].raised
  <1> USE DEF Undo, Shape, Fields
  <1>1. Others(a) /\ UNCHANGED <<versions, charged, seen, told, raced>>
    BY DEF Others
  <1>2. /\ op[a].pc = "undo"
        /\ disk' = [disk EXCEPT ![Head(op[a].rest)] = op[a].old[Head(op[a].rest)]]
        /\ Touched(Head(op[a].rest))
    OBVIOUS
  <1>3. op'[a].rest = Tail(op[a].rest)
    OBVIOUS
  <1>4. /\ Len(op[a].rest) = 1 => op'[a].pc = "end"
        /\ Len(op[a].rest) # 1 => op'[a].pc = "undo"
    OBVIOUS
  <1>5. /\ op'[a].kind = op[a].kind /\ op'[a].todo = op[a].todo /\ op'[a].held = op[a].held
        /\ op'[a].locked = op[a].locked /\ op'[a].new = op[a].new /\ op'[a].base = op[a].base
        /\ op'[a].old = op[a].old /\ op'[a].raised = op[a].raised
    OBVIOUS
  <1> QED  BY <1>1, <1>2, <1>3, <1>4, <1>5

LEMMA UndoErrorOp ==
    ASSUME Shape, NEW a \in Agent, UndoError(a)
    PROVE  /\ Others(a) /\ UNCHANGED <<disk, versions, charged, read, seen, told, raced>>
           /\ op[a].pc = "undo" /\ UndoMayFail
           /\ op'[a].pc = "end"
           /\ op'[a].raised
           /\ op'[a].kind = op[a].kind /\ op'[a].todo = op[a].todo /\ op'[a].held = op[a].held
           /\ op'[a].locked = op[a].locked /\ op'[a].new = op[a].new /\ op'[a].base = op[a].base
           /\ op'[a].old = op[a].old /\ op'[a].rest = op[a].rest
  <1> USE DEF UndoError, Raise, Shape, Fields
  <1>1. Others(a) /\ UNCHANGED <<disk, versions, charged, read, seen, told, raced>>
    BY DEF Others
  <1>2. op[a].pc = "undo" /\ UndoMayFail
    OBVIOUS
  <1>3. /\ op'[a].pc = "end"
        /\ op'[a].raised
    OBVIOUS
  <1>4. /\ op'[a].kind = op[a].kind /\ op'[a].todo = op[a].todo /\ op'[a].held = op[a].held
        /\ op'[a].locked = op[a].locked /\ op'[a].new = op[a].new /\ op'[a].base = op[a].base
        /\ op'[a].old = op[a].old /\ op'[a].rest = op[a].rest
    OBVIOUS
  <1> QED  BY <1>1, <1>2, <1>3, <1>4

LEMMA ChargeOp ==
    ASSUME Shape, NEW a \in Agent, Charge(a)
    PROVE  /\ Others(a) /\ UNCHANGED <<disk, versions, read, seen, told, raced>>
           /\ op[a].pc = "charge"
           /\ op'[a].pc = "end"
           /\ op'[a].kind = op[a].kind /\ op'[a].todo = op[a].todo /\ op'[a].held = op[a].held
           /\ op'[a].locked = op[a].locked /\ op'[a].new = op[a].new /\ op'[a].base = op[a].base
           /\ op'[a].old = op[a].old /\ op'[a].rest = op[a].rest /\ op'[a].raised = op[a].raised
  <1> USE DEF Charge, Shape, Fields
  <1>1. Others(a) /\ UNCHANGED <<disk, versions, read, seen, told, raced>>
    BY DEF Others
  <1>2. op[a].pc = "charge"
    OBVIOUS
  <1>3. op'[a].pc = "end"
    OBVIOUS
  <1>4. /\ op'[a].kind = op[a].kind /\ op'[a].todo = op[a].todo /\ op'[a].held = op[a].held
        /\ op'[a].locked = op[a].locked /\ op'[a].new = op[a].new /\ op'[a].base = op[a].base
        /\ op'[a].old = op[a].old /\ op'[a].rest = op[a].rest /\ op'[a].raised = op[a].raised
    OBVIOUS
  <1> QED  BY <1>1, <1>2, <1>3, <1>4

\* ... one by one the files are let go, with the version they have by then ...
LEMMA EndOp ==
    ASSUME Shape, NEW a \in Agent, End(a)
    PROVE  /\ Others(a) /\ UNCHANGED <<disk, charged, read, told, raced>> /\ op[a].pc = "end"
           /\ op[a].raised => UNCHANGED <<versions, seen>>
           /\ ~op[a].raised =>
                 /\ versions' = [versions EXCEPT ![ServiceOf[a]][Last(op[a].held)] = disk[Last(op[a].held)]]
                 /\ seen' = [seen EXCEPT ![a][Last(op[a].held)] = op[a].new[Last(op[a].held)]]
           /\ Front(op[a].held) = <<>> => op'[a] = NoWrite
           /\ Front(op[a].held) # <<>> =>
                 /\ op'[a].held = Front(op[a].held)
                 /\ op'[a].locked = op[a].locked \ {Last(op[a].held)}
                 /\ op'[a].pc = op[a].pc /\ op'[a].kind = op[a].kind /\ op'[a].todo = op[a].todo
                 /\ op'[a].new = op[a].new /\ op'[a].base = op[a].base /\ op'[a].old = op[a].old
                 /\ op'[a].rest = op[a].rest /\ op'[a].raised = op[a].raised
  <1> USE DEF End, Shape
  <1>1. UNCHANGED <<disk, charged, read, told, raced>> /\ op[a].pc = "end"
    OBVIOUS
  <1>2. /\ op[a].raised => UNCHANGED <<versions, seen>>
        /\ ~op[a].raised =>
              /\ versions' = [versions EXCEPT ![ServiceOf[a]][Last(op[a].held)] = disk[Last(op[a].held)]]
              /\ seen' = [seen EXCEPT ![a][Last(op[a].held)] = op[a].new[Last(op[a].held)]]
    OBVIOUS
  <1>3. CASE Front(op[a].held) = <<>>
    <2>1. op' = [op EXCEPT ![a] = NoWrite]
      BY <1>3
    <2>2. op'[a] = NoWrite
      BY <2>1
    <2>3. DOMAIN NoWrite = Fields
      BY DEF NoWrite, Fields
    <2>4. Others(a)
      BY <2>1, <2>2, <2>3 DEF Others
    <2> QED  BY <1>1, <1>2, <1>3, <2>2, <2>4
  <1>4. CASE Front(op[a].held) # <<>>
    <2> DEFINE r == [op[a] EXCEPT !.held = Front(op[a].held), !.locked = op[a].locked \ {Last(op[a].held)}]
    <2>1. op' = [op EXCEPT ![a] = r] /\ DOMAIN r = Fields
      BY <1>4
    <2>2. Others(a)
      <3> HIDE DEF r
      <3> QED  BY <2>1 DEF Others
    <2>3. op'[a] = r
      <3> HIDE DEF r
      <3> QED  BY <2>1
    <2>4. op'[a].held = Front(op[a].held) /\ op'[a].locked = op[a].locked \ {Last(op[a].held)}
      BY <2>1 DEF Fields
    <2>5. /\ op'[a].pc = op[a].pc /\ op'[a].kind = op[a].kind /\ op'[a].todo = op[a].todo
          /\ op'[a].new = op[a].new /\ op'[a].base = op[a].base /\ op'[a].old = op[a].old
          /\ op'[a].rest = op[a].rest /\ op'[a].raised = op[a].raised
      BY <2>3 DEF Fields
    <2> QED  BY <1>1, <1>2, <1>4, <2>2, <2>4, <2>5
  <1> QED  BY <1>3, <1>4

\* ... and a write begins with all of its files to do.
LEMMA BeginOp ==
    ASSUME Shape, NEW a \in Agent, NEW kind, NEW new, NEW base, Begin(a, kind, new, base)
    PROVE  /\ Others(a) /\ UNCHANGED <<disk, versions, charged, read, seen, told, raced>>
           /\ op[a].pc = "idle" /\ read[a].pc = "idle"
           /\ op'[a].todo \in Orders(DOMAIN new)
           /\ op'[a].pc = "lease" /\ op'[a].kind = kind /\ op'[a].new = new /\ op'[a].base = base
           /\ op'[a].held = <<>> /\ op'[a].locked = {} /\ op'[a].old = <<>> /\ op'[a].rest = <<>>
           /\ ~op'[a].raised
  <1> USE DEF Begin, Shape
  <1>1. PICK order \in Orders(DOMAIN new) :
            op' = [op EXCEPT ![a] = [NoWrite EXCEPT
                      !.pc = "lease", !.kind = kind, !.todo = order, !.new = new, !.base = base]]
    OBVIOUS
  <1>2. DOMAIN NoWrite = Fields
    BY DEF NoWrite, Fields
  <1>3. op'[a] = [NoWrite EXCEPT !.pc = "lease", !.kind = kind, !.todo = order, !.new = new, !.base = base]
    BY <1>1
  <1>4. Others(a)
    BY <1>1, <1>2, <1>3 DEF Others
  <1>5. /\ op'[a].todo = order /\ op'[a].pc = "lease" /\ op'[a].kind = kind /\ op'[a].new = new
        /\ op'[a].base = base
    BY <1>2, <1>3 DEF Fields
  <1>6. /\ op'[a].held = <<>> /\ op'[a].locked = {} /\ op'[a].old = <<>> /\ op'[a].rest = <<>>
        /\ ~op'[a].raised
    BY <1>3 DEF NoWrite
  <1>7. UNCHANGED <<disk, versions, charged, read, seen, told, raced>> /\ op[a].pc = "idle" /\ read[a].pc = "idle"
    BY DEF Idle
  <1> QED  BY <1>4, <1>5, <1>6, <1>7

LEMMA NothingIsFormed == Form(NoWrite)
  BY EmptyOf DEF Form, Sequenced, Staged, Covered, LockedSoFar, NoWrite, Locking, Writing

\* How the record o of a write becomes p.
LEMMA LeaseForm ==
    ASSUME NEW o, NEW p, Form(o), o.pc = "lease", p.pc = "lock",
           p.todo = Tail(o.todo), p.held = Append(o.held, Head(o.todo)), p.kind = o.kind,
           p.locked = o.locked, p.new = o.new, p.old = o.old, p.rest = o.rest, p.raised = o.raised
    PROVE  Form(p) /\ ToSet(p.held) = ToSet(o.held) \cup {Head(o.todo)} /\ Last(p.held) = Head(o.todo)
           /\ Head(o.todo) \notin ToSet(o.held)
  <1> USE DEF Form
  <1>1. /\ o.held \in Seq(File) /\ Distinct(o.held) /\ o.todo \in Seq(File) /\ Distinct(o.todo)
        /\ ToSet(o.held) \cap ToSet(o.todo) = {} /\ o.todo # <<>>
    BY DEF Sequenced, Staged
  <1>2. /\ Head(o.todo) \in ToSet(o.todo) /\ Tail(o.todo) \in Seq(File) /\ Distinct(Tail(o.todo))
        /\ ToSet(Tail(o.todo)) = ToSet(o.todo) \ {Head(o.todo)}
    BY <1>1, TailOf
  <1>3. Head(o.todo) \in File /\ Head(o.todo) \notin ToSet(o.held)
    BY <1>1, <1>2
  <1>4. /\ p.held \in Seq(File) /\ p.held # <<>> /\ Distinct(p.held) /\ Last(p.held) = Head(o.todo)
        /\ ToSet(p.held) = ToSet(o.held) \cup {Head(o.todo)}
    BY <1>1, <1>3, AppendTo
  <1>5. Sequenced(p)
    BY <1>1, <1>2, <1>4 DEF Sequenced
  <1>6. Staged(p)
    BY <1>4 DEF Staged, Locking, Writing
  <1>7. Covered(p)
    BY <1>2, <1>4 DEF Covered, Locking, Writing
  <1>8. LockedSoFar(p)
    BY <1>3, <1>4 DEF LockedSoFar
  <1> QED  BY <1>3, <1>4, <1>5, <1>6, <1>7, <1>8

LEMMA LockForm ==
    ASSUME NEW o, NEW p, Form(o), o.pc = "lock", NEW moved \in BOOLEAN,
           p.locked = o.locked \cup {Last(o.held)}, moved => p.raised, ~moved => ~p.raised,
           moved => p.pc = "end", ~moved /\ o.todo # <<>> => p.pc = "lease",
           ~moved /\ o.todo = <<>> => p.pc = "check", p.held = o.held, p.todo = o.todo,
           p.kind = o.kind, p.new = o.new, p.old = o.old, p.rest = o.rest
    PROVE  Form(p) /\ Last(o.held) \in ToSet(o.held)
  <1> USE DEF Form
  <1>1. o.held \in Seq(File) /\ Distinct(o.held) /\ o.held # <<>>
    BY DEF Sequenced, Staged
  <1>2. Last(o.held) \in ToSet(o.held)
    BY <1>1, FrontOf
  <1>3. Sequenced(p)
    BY DEF Sequenced
  <1>4. Staged(p)
    BY <1>1 DEF Staged, Locking, Writing
  <1>5. Covered(p)
    BY DEF Covered, Locking, Writing
  <1>6. LockedSoFar(p)
    BY <1>2 DEF LockedSoFar
  <1> QED  BY <1>2, <1>3, <1>4, <1>5, <1>6

LEMMA CheckForm ==
    ASSUME NEW o, NEW p, Form(o), o.pc = "check", p.pc = "quota", DOMAIN p.old = DOMAIN o.new,
           \A f \in DOMAIN p.old : f \in File => p.old[f] \in Content,
           p.rest = o.held, p.held = o.held, p.todo = o.todo, p.kind = o.kind, p.locked = o.locked,
           p.new = o.new, p.raised = o.raised
    PROVE  Form(p)
  <1> USE DEF Form
  <1>1. o.held \in Seq(File) /\ o.todo = <<>> /\ DOMAIN o.new = ToSet(o.held)
    BY EmptyOf DEF Sequenced, Covered, Locking
  <1>2. ToSet(o.held) \subseteq File
    BY <1>1 DEF ToSet
  <1>3. Sequenced(p)
    BY DEF Sequenced
  <1>4. Staged(p)
    BY DEF Staged, Locking, Writing
  <1>5. Covered(p)
    BY <1>1, <1>2, EmptyOf DEF Covered, Locking, Writing
  <1>6. LockedSoFar(p)
    BY DEF LockedSoFar
  <1> QED  BY <1>3, <1>4, <1>5, <1>6

\* A write that fails, or has been charged, comes to its end with what it has.
LEMMA EndsForm ==
    ASSUME NEW o, NEW p, Form(o), o.pc \in {"check", "quota", "put", "undo", "charge"}, p.pc = "end",
           p.held = o.held, p.todo = o.todo, p.kind = o.kind, p.locked = o.locked, p.new = o.new,
           p.old = o.old, p.rest = o.rest
    PROVE  Form(p)
  <1> USE DEF Form
  <1>1. o.todo = <<>> /\ DOMAIN o.new = ToSet(o.held)
    BY EmptyOf DEF Sequenced, Covered, Locking, Writing
  <1>2. Sequenced(p)
    BY DEF Sequenced
  <1>3. Staged(p)
    BY DEF Staged, Locking, Writing
  <1>4. Covered(p)
    BY <1>1 DEF Covered, Locking, Writing
  <1>5. LockedSoFar(p)
    BY DEF LockedSoFar
  <1> QED  BY <1>2, <1>3, <1>4, <1>5

\* The files of a batch are all back.
LEMMA UndoneForm ==
    ASSUME NEW o, NEW p, Form(o), o.pc = "undo", p.pc = "end", p.rest = <<>>,
           p.held = o.held, p.todo = o.todo, p.kind = o.kind, p.locked = o.locked, p.new = o.new,
           p.old = o.old
    PROVE  Form(p)
  <1> USE DEF Form
  <1>1. o.todo = <<>> /\ DOMAIN o.new = ToSet(o.held)
    BY EmptyOf DEF Sequenced, Covered, Locking, Writing
  <1>2. Sequenced(p)
    BY EmptyOf DEF Sequenced
  <1>3. Staged(p)
    BY DEF Staged, Locking, Writing
  <1>4. Covered(p)
    BY <1>1, EmptyOf DEF Covered, Locking, Writing
  <1>5. LockedSoFar(p)
    BY DEF LockedSoFar
  <1> QED  BY <1>2, <1>3, <1>4, <1>5

\* A write that goes on with the files left, all of its files, or the rest but one.
LEMMA GoesOnForm ==
    ASSUME NEW o, NEW p, Form(o), o.pc \in {"quota", "put", "undo"},
           p.pc \in {"put", "charge", "undo"}, p.pc = "undo" <=> p.raised,
           p.pc = "undo" => o.kind = "batch",
           p.rest \in Seq(File), Distinct(p.rest), ToSet(p.rest) \subseteq ToSet(o.held),
           p.pc = "charge" <=> p.rest = <<>>,
           p.held = o.held, p.todo = o.todo, p.kind = o.kind, p.locked = o.locked, p.new = o.new,
           p.old = o.old
    PROVE  Form(p)
  <1> USE DEF Form
  <1>1. Sequenced(p)
    BY DEF Sequenced
  <1>2. Staged(p)
    BY DEF Staged, Locking, Writing
  <1>3. Covered(p)
    BY DEF Covered, Locking, Writing
  <1>4. LockedSoFar(p)
    BY DEF LockedSoFar
  <1> QED  BY <1>1, <1>2, <1>3, <1>4

LEMMA LetGoForm ==
    ASSUME NEW o, NEW p, Form(o), o.pc = "end",
           Front(o.held) = <<>> => p = NoWrite,
           Front(o.held) # <<>> =>
                 /\ p.held = Front(o.held) /\ p.locked = o.locked \ {Last(o.held)}
                 /\ p.pc = o.pc /\ p.kind = o.kind /\ p.todo = o.todo /\ p.new = o.new
                 /\ p.base = o.base /\ p.old = o.old /\ p.rest = o.rest /\ p.raised = o.raised
    PROVE  Form(p)
  <1> USE DEF Form
  <1>1. o.held \in Seq(File) /\ Distinct(o.held) /\ o.held # <<>>
    BY DEF Sequenced, Staged
  <1>2. /\ Front(o.held) \in Seq(File) /\ Distinct(Front(o.held))
        /\ ToSet(Front(o.held)) = ToSet(o.held) \ {Last(o.held)}
    BY <1>1, FrontOf
  <1>3. CASE Front(o.held) = <<>>
    BY <1>3, NothingIsFormed
  <1>4. CASE Front(o.held) # <<>>
    <2>1. /\ p.held = Front(o.held) /\ p.locked = o.locked \ {Last(o.held)}
          /\ p.pc = o.pc /\ p.kind = o.kind /\ p.todo = o.todo /\ p.new = o.new
          /\ p.base = o.base /\ p.old = o.old /\ p.rest = o.rest /\ p.raised = o.raised
      BY <1>4
    <2>2. Sequenced(p)
      BY <1>2, <2>1 DEF Sequenced
    <2>3. Staged(p)
      BY <1>4, <2>1 DEF Staged, Locking, Writing
    <2>4. Covered(p)
      BY <1>2, <2>1 DEF Covered, Locking, Writing
    <2>5. LockedSoFar(p)
      BY <1>2, <2>1 DEF LockedSoFar
    <2> QED  BY <2>2, <2>3, <2>4, <2>5
  <1> QED  BY <1>3, <1>4

LEMMA BeginForm ==
    ASSUME NEW p, p.pc = "lease", p.kind \in {"write", "patch", "batch"}, p.todo \in Seq(File),
           Distinct(p.todo), ToSet(p.todo) = DOMAIN p.new, DOMAIN p.new # {},
           \A f \in DOMAIN p.new : p.new[f] \in Content,
           p.held = <<>>, p.locked = {}, p.old = <<>>, p.rest = <<>>, ~p.raised
    PROVE  Form(p)
  <1>1. p.todo # <<>>
    BY EmptyOf
  <1>2. Sequenced(p)
    BY EmptyOf DEF Sequenced
  <1>3. Staged(p)
    BY <1>1 DEF Staged, Locking, Writing
  <1>4. Covered(p)
    BY EmptyOf DEF Covered, Locking, Writing
  <1>5. LockedSoFar(p)
    BY EmptyOf DEF LockedSoFar
  <1> QED  BY <1>2, <1>3, <1>4, <1>5 DEF Form

-----------------------------------------------------------------------------
(* The steps keep the invariant.                                           *)

\* What is locked is leased, and is a file that gets new content.
LEMMA LockedIsHeld ==
    ASSUME NEW o, Form(o)
    PROVE  o.locked \subseteq ToSet(o.held) /\ ToSet(o.held) \subseteq File
           /\ (o.pc # "lock" => o.locked = ToSet(o.held))
  BY DEF Form, Sequenced, LockedSoFar, ToSet

\* A step that changes the write of an agent and nothing else.
LEMMA Private ==
    ASSUME IInv, NEW a \in Agent, Others(a), UNCHANGED <<disk, versions, read, seen, told, raced>>,
           read[a].pc = "idle", Form(op'[a]), Keeps(op'[a]), Stands(a, op'[a]), MadeFrom(a, op'[a]),
           Excluded'
    PROVE  IInv'
  <1>1. Types' /\ Known'
    BY DEF IInv, Types, Known, Knows
  <1>2. Shape'
    BY DEF IInv, Shape, Others
  <1>3. Formed'
    BY DEF IInv, Formed, Others
  <1>4. OneAtATime'
    BY DEF IInv, OneAtATime, Others
  <1>5. Kept'
    BY DEF IInv, Kept, Others, Keeps
  <1>6. Compared'
    BY DEF IInv, Compared, Others, Stands
  <1>7. Based'
    BY DEF IInv, Based, Others, MadeFrom
  <1> QED  BY <1>1, <1>2, <1>3, <1>4, <1>5, <1>6, <1>7 DEF IInv

\* Who leases and locks no more than before disturbs nobody.
LEMMA StaysExcluded ==
    ASSUME IInv, NEW a \in Agent, Others(a), ToSet(op'[a].held) \subseteq ToSet(op[a].held),
           op'[a].locked \subseteq op[a].locked
    PROVE  Excluded'
  BY DEF IInv, Excluded, Others, Strangers

\* A write that is under way is the only thing its agent does.
LEMMA Busy ==
    ASSUME IInv, NEW a \in Agent, op[a].pc # "idle"
    PROVE  read[a].pc = "idle" /\ Form(op[a]) /\ Keeps(op[a]) /\ Stands(a, op[a]) /\ MadeFrom(a, op[a])
  BY DEF IInv, OneAtATime, Formed, Kept, Compared, Based

LEMMA LeaseStep ==
    ASSUME IInv, NEW a \in Agent, Lease(a)
    PROVE  IInv'
  <1> DEFINE f == Head(op[a].todo)
  <1>1. Shape
    BY DEF IInv
  <1>2. /\ Others(a) /\ UNCHANGED <<disk, versions, read, seen, told, raced>>
        /\ op[a].pc = "lease" /\ op'[a].pc = "lock"
        /\ \A b \in Strangers(a) : f \notin ToSet(op[b].held)
        /\ op'[a].todo = Tail(op[a].todo) /\ op'[a].held = Append(op[a].held, f)
        /\ op'[a].kind = op[a].kind /\ op'[a].locked = op[a].locked /\ op'[a].new = op[a].new
        /\ op'[a].base = op[a].base /\ op'[a].old = op[a].old /\ op'[a].rest = op[a].rest
        /\ op'[a].raised = op[a].raised
    BY <1>1, LeaseOp
  <1>3. read[a].pc = "idle" /\ Form(op[a]) /\ Stands(a, op[a]) /\ MadeFrom(a, op[a])
    BY <1>2, Busy
  <1>4. Form(op'[a]) /\ ToSet(op'[a].held) = ToSet(op[a].held) \cup {f}
    BY <1>2, <1>3, LeaseForm
  <1>5. Excluded'
    <2>1. \A b \in Agent : \A c \in Strangers(b) : ToSet(op'[b].held) \cap ToSet(op'[c].held) = {}
      <3>1. \A c \in Strangers(a) : ToSet(op'[a].held) \cap ToSet(op'[c].held) = {}
        <4> HIDE DEF f
        <4>1. ASSUME NEW c \in Strangers(a)
              PROVE  op'[c] = op[c] /\ ToSet(op[a].held) \cap ToSet(op[c].held) = {} /\ f \notin ToSet(op[c].held)
          BY <1>2 DEF IInv, Excluded, Others, Strangers
        <4> QED  BY <1>4, <4>1
      <3>2. ASSUME NEW b \in Agent \ {a}, NEW c \in Strangers(b)
            PROVE  ToSet(op'[b].held) \cap ToSet(op'[c].held) = {}
        <4>1. CASE c = a
          BY <3>1, <4>1 DEF Strangers
        <4>2. CASE c # a
          BY <1>2, <4>2 DEF IInv, Excluded, Others, Strangers
        <4> QED  BY <4>1, <4>2
      <3> QED  BY <3>1, <3>2
    <2>2. \A b, c \in Agent : b # c => op'[b].locked \cap op'[c].locked = {}
      BY <1>2 DEF IInv, Excluded, Others
    <2> QED  BY <2>1, <2>2 DEF Excluded, Strangers
  <1>6. Keeps(op'[a])
    BY <1>2 DEF Keeps
  <1>7. Stands(a, op'[a]) /\ MadeFrom(a, op'[a])
    BY <1>2, <1>3 DEF Stands, MadeFrom, Locking
  <1> QED  BY <1>2, <1>3, <1>4, <1>5, <1>6, <1>7, Private

LEMMA LockStep ==
    ASSUME IInv, NEW a \in Agent, Lock(a)
    PROVE  IInv'
  <1> DEFINE f == Last(op[a].held)
             moved == VersionMoved(a, f)
  <1>1. Shape
    BY DEF IInv
  <1>2. /\ Others(a) /\ UNCHANGED <<disk, versions, read, seen, told, raced>>
        /\ op[a].pc = "lock" /\ \A b \in Siblings(a) : f \notin op[b].locked
        /\ op'[a].locked = op[a].locked \cup {f}
        /\ op'[a].kind = op[a].kind /\ op'[a].todo = op[a].todo /\ op'[a].held = op[a].held
        /\ op'[a].new = op[a].new /\ op'[a].base = op[a].base /\ op'[a].old = op[a].old
        /\ op'[a].rest = op[a].rest
    BY <1>1, LockOp
  <1>3. /\ moved => op'[a].raised
        /\ ~moved => ~op'[a].raised
        /\ moved => op'[a].pc = "end"
        /\ ~moved /\ op[a].todo # <<>> => op'[a].pc = "lease"
        /\ ~moved /\ op[a].todo = <<>> => op'[a].pc = "check"
    BY <1>1, LockOp
  <1>4. read[a].pc = "idle" /\ Form(op[a]) /\ Stands(a, op[a]) /\ MadeFrom(a, op[a])
    BY <1>2, Busy
  <1>5. moved \in BOOLEAN
    BY DEF VersionMoved
  <1>6. Form(op'[a]) /\ f \in ToSet(op[a].held)
    <2> HIDE DEF moved
    <2> QED  BY <1>2, <1>3, <1>4, <1>5, LockForm
  <1>7. Excluded'
    <2>1. \A b \in Agent : \A c \in Strangers(b) : ToSet(op'[b].held) \cap ToSet(op'[c].held) = {}
      BY <1>2 DEF IInv, Excluded, Others, Strangers
    <2>2. \A b \in Agent \ {a} : op[b].locked \subseteq ToSet(op[b].held)
      BY LockedIsHeld DEF IInv, Formed
    <2>3. \A b \in Agent \ {a} : f \notin op[b].locked
      BY <1>2, <1>6, <2>2 DEF IInv, Excluded, Siblings, Strangers
    <2>4. \A b, c \in Agent : b # c => op'[b].locked \cap op'[c].locked = {}
      BY <1>2, <2>3 DEF IInv, Excluded, Others
    <2> QED  BY <2>1, <2>4 DEF Excluded, Strangers
  <1>8. op[a].old = <<>>
    BY <1>2, <1>4 DEF Form, Covered, Locking
  <1>9. op'[a].pc \in Locking \/ (op'[a].pc = "end" /\ op'[a].raised)
    <2> HIDE DEF moved
    <2>1. CASE moved
      BY <1>3, <2>1
    <2>2. CASE ~moved
      <3>1. op'[a].pc = "lease" \/ op'[a].pc = "check"
        BY <1>3, <2>2
      <3>2. op'[a].pc \in Locking
        BY <3>1 DEF Locking
      <3> QED  BY <3>2
    <2> QED  BY <2>1, <2>2
  <1>10. Keeps(op'[a])
    BY <1>2, <1>8, <1>9 DEF Keeps, Locking
  <1>11. Stands(a, op'[a])
    <2>1. CASE moved
      BY <1>3, <2>1 DEF Stands, Locking
    <2>2. CASE ~moved
      <3>1. /\ op[a].kind = "batch" => disk[f] = op[a].base[f]
            /\ op[a].kind = "write" => versions[ServiceOf[a]][f] \in {Unobserved, disk[f]}
        BY <2>2 DEF VersionMoved
      <3> QED  BY <1>2, <1>4, <3>1 DEF Stands, Locking
    <2> QED  BY <2>1, <2>2
  <1>12. MadeFrom(a, op'[a])
    BY <1>2, <1>4, <1>9 DEF MadeFrom, Locking
  <1> QED  BY <1>2, <1>4, <1>6, <1>7, <1>10, <1>11, <1>12, Private

\* Here the comparison of versions pays: what the agent knows of the files is what they hold.
LEMMA CheckStep ==
    ASSUME IInv, NEW a \in Agent, Check(a)
    PROVE  IInv'
  <1>1. Shape
    BY DEF IInv
  <1>2. /\ Others(a) /\ UNCHANGED <<disk, versions, read, seen, told, raced>>
        /\ op[a].pc = "check" /\ op'[a].pc = "quota" /\ ~MayFail(a)
        /\ op'[a].old = [f \in DOMAIN op[a].new |-> disk[f]] /\ op'[a].rest = op[a].held
        /\ op'[a].kind = op[a].kind /\ op'[a].todo = op[a].todo /\ op'[a].held = op[a].held
        /\ op'[a].locked = op[a].locked /\ op'[a].new = op[a].new /\ op'[a].raised = op[a].raised
        /\ op[a].kind = "patch" => op'[a].base = [f \in DOMAIN op[a].new |-> disk[f]]
        /\ op[a].kind # "patch" => op'[a].base = op[a].base
    BY <1>1, CheckOp
  <1>3. read[a].pc = "idle" /\ Form(op[a]) /\ Stands(a, op[a]) /\ MadeFrom(a, op[a])
    BY <1>2, Busy
  <1>4. /\ op[a].locked = ToSet(op[a].held) /\ ToSet(op[a].held) \subseteq File
        /\ op[a].kind \in {"write", "patch", "batch"}
        /\ DOMAIN op[a].new = ToSet(op[a].held)
    <2>1. /\ op[a].kind \in {"write", "patch", "batch"} /\ op[a].todo = <<>>
          /\ DOMAIN op[a].new = ToSet(op[a].held) \cup ToSet(op[a].todo)
      BY <1>2, <1>3 DEF Form, Staged, Covered, Locking
    <2> QED  BY <1>2, <1>3, <2>1, LockedIsHeld, EmptyOf
  <1>5. Form(op'[a])
    <2>1. /\ DOMAIN op'[a].old = DOMAIN op[a].new
          /\ \A f \in DOMAIN op'[a].old : f \in File => op'[a].old[f] \in Content
      BY <1>2 DEF IInv, Types
    <2> QED  BY <1>2, <1>3, <2>1, CheckForm
  <1>6. Excluded'
    BY <1>2, StaysExcluded
  <1>7. \A f \in ToSet(op[a].held) : op'[a].old[f] = disk[f]
    BY <1>2, <1>4
  <1>8. Keeps(op'[a])
    BY <1>2, <1>4, <1>7 DEF Keeps
  <1>9. Stands(a, op'[a])
    BY <1>2 DEF Stands, Locking
  <1>10. ASSUME op[a].kind = "write" => Alone, NEW f \in ToSet(op[a].held) \ raced
         PROVE  op'[a].base[f] = disk[f]
    <2>1. CASE op[a].kind = "patch"
      BY <1>2, <1>4, <2>1
    <2>2. CASE op[a].kind = "batch"
      BY <1>2, <1>3, <1>4, <2>2 DEF Stands, Locking
    <2>3. CASE op[a].kind = "write"
      <3>1. Alone
        BY <1>10, <2>3
      <3>2. Obedient /\ f \in File
        BY <1>4, <3>1 DEF Alone
      <3>3. f \notin told[a] /\ op[a].base[f] = seen[a][f]
        BY <1>2, <1>3, <1>4, <2>3, <3>2 DEF MadeFrom, Locking
      <3>4. versions[ServiceOf[a]][f] \in {Unobserved, disk[f]}
        BY <1>2, <1>3, <1>4, <2>3, <3>1 DEF Stands, Locking
      <3>5. \/ versions[ServiceOf[a]][f] = seen[a][f]
            \/ versions[ServiceOf[a]][f] = Unobserved /\ seen[a][f] = Absent
        BY <1>3, <3>1, <3>2, <3>3 DEF IInv, Known, Knows
      <3>6. disk[f] # Absent => versions[ServiceOf[a]][f] # Unobserved
        BY <1>2, <1>4, <2>3 DEF MayFail
      <3>7. seen[a][f] # Unobserved
        BY <3>2, FileAssumption DEF IInv, Types
      <3>8. seen[a][f] = disk[f]
        BY <3>4, <3>5, <3>6, <3>7
      <3> QED  BY <1>2, <2>3, <3>3, <3>8
    <2> QED  BY <1>4, <2>1, <2>2, <2>3
  <1>11. MadeFrom(a, op'[a])
    BY <1>2, <1>7, <1>10 DEF MadeFrom, Locking
  <1> QED  BY <1>2, <1>3, <1>5, <1>6, <1>8, <1>9, <1>11, Private

\* A write that comes to its end without another change to a file keeps what it holds until then.
LEMMA EndsStep ==
    ASSUME IInv, NEW a \in Agent, Others(a), UNCHANGED <<disk, versions, read, seen, told, raced>>,
           op[a].pc \in {"check", "quota", "put", "undo", "charge"}, op'[a].pc = "end",
           op'[a].kind = op[a].kind, op'[a].todo = op[a].todo, op'[a].held = op[a].held,
           op'[a].locked = op[a].locked, op'[a].new = op[a].new, op'[a].old = op[a].old,
           op'[a].rest = op[a].rest, Keeps(op'[a])
    PROVE  IInv'
  <1>1. read[a].pc = "idle" /\ Form(op[a])
    BY Busy
  <1>2. Form(op'[a])
    BY <1>1, EndsForm
  <1>3. Excluded'
    BY StaysExcluded
  <1>4. Stands(a, op'[a]) /\ MadeFrom(a, op'[a])
    BY DEF Stands, MadeFrom, Locking
  <1> QED  BY <1>1, <1>2, <1>3, <1>4, Private

LEMMA FailStep ==
    ASSUME IInv, NEW a \in Agent, CheckFails(a)
    PROVE  IInv'
  <1>1. Shape
    BY DEF IInv
  <1>2. /\ Others(a) /\ UNCHANGED <<disk, versions, read, seen, told, raced>>
        /\ op[a].pc = "check" /\ op'[a].pc = "end"
        /\ op'[a].kind = op[a].kind /\ op'[a].todo = op[a].todo /\ op'[a].held = op[a].held
        /\ op'[a].locked = op[a].locked /\ op'[a].new = op[a].new
        /\ op'[a].old = op[a].old /\ op'[a].rest = op[a].rest
    BY <1>1, FailOp
  <1>3. op'[a].raised
    BY <1>1, FailOp
  <1>4. op[a].old = <<>>
    BY <1>2, Busy DEF Form, Covered, Locking
  <1>5. Keeps(op'[a])
    BY <1>2, <1>3, <1>4 DEF Keeps
  <1> QED  BY <1>2, <1>5, EndsStep

LEMMA QuotaStep ==
    ASSUME IInv, NEW a \in Agent, CheckQuota(a)
    PROVE  IInv'
  <1>1. Shape
    BY DEF IInv
  <1>2. /\ Others(a) /\ UNCHANGED <<disk, versions, read, seen, told, raced>> /\ op[a].pc = "quota"
        /\ op'[a].kind = op[a].kind /\ op'[a].todo = op[a].todo /\ op'[a].held = op[a].held
        /\ op'[a].locked = op[a].locked /\ op'[a].new = op[a].new /\ op'[a].base = op[a].base
        /\ op'[a].old = op[a].old /\ op'[a].rest = op[a].rest
    BY <1>1, QuotaOp
  <1>3. read[a].pc = "idle" /\ Form(op[a]) /\ Keeps(op[a]) /\ MadeFrom(a, op[a])
    BY <1>2, Busy
  <1>4. op[a].rest = op[a].held /\ op[a].held # <<>> /\ op[a].locked = ToSet(op[a].held)
    BY <1>2, <1>3, LockedIsHeld DEF Form, Staged
  <1>5. \A f \in op[a].locked \ raced : disk[f] = op[a].old[f]
    BY <1>2, <1>3, <1>4 DEF Keeps
  <1>6. CASE OverQuota(a)
    <2>1. op'[a].raised
      BY <1>1, <1>6, QuotaOp
    <2>2. op'[a].pc = "end"
      BY <1>1, <1>6, QuotaOp
    <2>3. Keeps(op'[a])
      BY <1>2, <1>5, <2>1, <2>2 DEF Keeps
    <2> QED  BY <1>2, <2>2, <2>3, EndsStep
  <1>7. CASE ~OverQuota(a)
    <2>1. ~op'[a].raised
      BY <1>1, <1>7, QuotaOp
    <2>2. op'[a].pc = "put"
      BY <1>1, <1>7, QuotaOp
    <2>3. Form(op'[a])
      <3>1. op[a].held \in Seq(File) /\ Distinct(op[a].held)
        BY <1>3 DEF Form, Sequenced
      <3>2. op'[a].pc = "undo" <=> op'[a].raised
        BY <2>1, <2>2
      <3>3. op'[a].pc = "charge" <=> op'[a].rest = <<>>
        BY <1>2, <1>4, <2>2
      <3> QED  BY <1>2, <1>3, <1>4, <2>2, <3>1, <3>2, <3>3, GoesOnForm
    <2>4. Keeps(op'[a])
      BY <1>2, <1>4, <1>5, <2>2 DEF Keeps
    <2>5. Stands(a, op'[a]) /\ MadeFrom(a, op'[a])
      BY <1>2, <1>3, <2>2 DEF Stands, MadeFrom, Locking
    <2>6. Excluded'
      BY <1>2, StaysExcluded
    <2> QED  BY <1>2, <1>3, <2>3, <2>4, <2>5, <2>6, Private
  <1> QED  BY <1>6, <1>7

LEMMA ErrorStep ==
    ASSUME IInv, NEW a \in Agent, PutError(a)
    PROVE  IInv'
  <1>1. Shape
    BY DEF IInv
  <1>2. /\ Others(a) /\ UNCHANGED <<disk, versions, read, seen, told, raced>> /\ op[a].pc = "put"
        /\ op'[a].kind = op[a].kind /\ op'[a].todo = op[a].todo /\ op'[a].held = op[a].held
        /\ op'[a].locked = op[a].locked /\ op'[a].new = op[a].new /\ op'[a].base = op[a].base
        /\ op'[a].old = op[a].old
    BY <1>1, ErrorOp
  <1>3. op'[a].raised
    BY <1>1, ErrorOp
  <1>4. read[a].pc = "idle" /\ Form(op[a])
    BY <1>2, Busy
  <1>5. CASE op[a].kind = "batch"
    <2>1. op'[a].pc = "undo" /\ op'[a].rest = Reverse(op[a].held)
      BY <1>1, <1>5, ErrorOp
    <2>2. /\ op[a].held \in Seq(File) /\ Distinct(op[a].held) /\ op[a].held # <<>>
          /\ op[a].locked = ToSet(op[a].held)
      BY <1>2, <1>4, LockedIsHeld DEF Form, Sequenced, Staged
    <2>3. /\ op'[a].rest \in Seq(File) /\ Distinct(op'[a].rest) /\ op'[a].rest # <<>>
          /\ ToSet(op'[a].rest) = ToSet(op[a].held)
      BY <2>1, <2>2, ReverseOf
    <2>4. Form(op'[a])
      <3>1. op'[a].pc = "undo" <=> op'[a].raised
        BY <1>3, <2>1
      <3>2. op'[a].pc = "charge" <=> op'[a].rest = <<>>
        BY <2>1, <2>3
      <3> QED  BY <1>2, <1>4, <1>5, <2>1, <2>3, <3>1, <3>2, GoesOnForm
    <2>5. Keeps(op'[a])
      BY <1>2, <2>1, <2>2, <2>3 DEF Keeps
    <2>6. Stands(a, op'[a]) /\ MadeFrom(a, op'[a])
      BY <2>1 DEF Stands, MadeFrom, Locking
    <2>7. Excluded'
      BY <1>2, StaysExcluded
    <2> QED  BY <1>2, <1>4, <2>4, <2>5, <2>6, <2>7, Private
  <1>6. CASE op[a].kind # "batch"
    <2>1. op'[a].pc = "end" /\ op'[a].rest = op[a].rest
      BY <1>1, <1>6, ErrorOp
    <2>2. Keeps(op'[a])
      BY <1>2, <1>3, <1>6, <2>1 DEF Keeps
    <2> QED  BY <1>2, <2>1, <2>2, EndsStep
  <1> QED  BY <1>5, <1>6

LEMMA UndoErrorStep ==
    ASSUME IInv, NEW a \in Agent, UndoError(a)
    PROVE  IInv'
  <1>1. Shape
    BY DEF IInv
  <1>2. /\ Others(a) /\ UNCHANGED <<disk, versions, read, seen, told, raced>>
        /\ op[a].pc = "undo" /\ op'[a].pc = "end"
        /\ op'[a].kind = op[a].kind /\ op'[a].todo = op[a].todo /\ op'[a].held = op[a].held
        /\ op'[a].locked = op[a].locked /\ op'[a].new = op[a].new
        /\ op'[a].old = op[a].old /\ op'[a].rest = op[a].rest
    BY <1>1, UndoErrorOp
  <1>3. op'[a].raised /\ UndoMayFail
    BY <1>1, UndoErrorOp
  <1>4. Keeps(op'[a])
    BY <1>2, <1>3 DEF Keeps
  <1> QED  BY <1>2, <1>4, EndsStep

LEMMA ChargeStep ==
    ASSUME IInv, NEW a \in Agent, Charge(a)
    PROVE  IInv'
  <1>1. Shape
    BY DEF IInv
  <1>2. /\ Others(a) /\ UNCHANGED <<disk, versions, read, seen, told, raced>>
        /\ op[a].pc = "charge" /\ op'[a].pc = "end"
        /\ op'[a].kind = op[a].kind /\ op'[a].todo = op[a].todo /\ op'[a].held = op[a].held
        /\ op'[a].locked = op[a].locked /\ op'[a].new = op[a].new
        /\ op'[a].old = op[a].old /\ op'[a].rest = op[a].rest
    BY <1>1, ChargeOp
  <1>3. Form(op[a]) /\ Keeps(op[a])
    BY <1>2, Busy
  <1>4. ~op'[a].raised
    <2>1. ~op[a].raised
      BY <1>2, <1>3 DEF Form, Staged
    <2>2. op'[a].raised = op[a].raised
      BY <1>1, ChargeOp
    <2> QED  BY <2>1, <2>2
  <1>5. op[a].rest = <<>>
    BY <1>2, <1>3 DEF Form, Staged
  <1>6. Keeps(op'[a])
    BY <1>2, <1>3, <1>4, <1>5, EmptyOf DEF Keeps
  <1> QED  BY <1>2, <1>6, EndsStep

LEMMA BeginStep ==
    ASSUME IInv, NEW a \in Agent, NEW kind \in {"write", "patch", "batch"}, NEW new, NEW base,
           DOMAIN new \in SUBSET File, DOMAIN new # {}, \A f \in DOMAIN new : new[f] \in Content,
           Begin(a, kind, new, base),
           kind = "write" /\ Obedient =>
               DOMAIN new \cap told[a] = {} /\ \A f \in DOMAIN new : base[f] = seen[a][f]
    PROVE  IInv'
  <1>1. Shape
    BY DEF IInv
  <1>2. /\ Others(a) /\ UNCHANGED <<disk, versions, read, seen, told, raced>>
        /\ op[a].pc = "idle" /\ read[a].pc = "idle" /\ op'[a].todo \in Orders(DOMAIN new)
        /\ op'[a].pc = "lease" /\ op'[a].kind = kind /\ op'[a].new = new /\ op'[a].base = base
        /\ op'[a].held = <<>> /\ op'[a].locked = {} /\ op'[a].old = <<>> /\ op'[a].rest = <<>>
    BY <1>1, BeginOp
  <1>3. ~op'[a].raised
    BY <1>1, BeginOp
  <1>4. op'[a].todo \in Seq(File) /\ Distinct(op'[a].todo) /\ ToSet(op'[a].todo) = DOMAIN new
    BY <1>2, OrdersOf
  <1>5. Form(op'[a])
    BY <1>2, <1>3, <1>4, BeginForm
  <1>6. Excluded'
    BY <1>2, EmptyOf, StaysExcluded
  <1>7. Keeps(op'[a]) /\ Stands(a, op'[a])
    BY <1>2 DEF Keeps, Stands
  <1>8. MadeFrom(a, op'[a])
    BY <1>2 DEF MadeFrom
  <1> QED  BY <1>2, <1>5, <1>6, <1>7, <1>8, Private

\* A read that is under way learns that its file changed.
LEMMA TouchedOf ==
    ASSUME Types, NEW f, Touched(f)
    PROVE  /\ read' \in [Agent -> [pc: {"idle", "digest", "lines"}, file: File, moved: BOOLEAN]]
           /\ \A b \in Agent : read'[b].pc = read[b].pc /\ read'[b].file = read[b].file
           /\ \A b \in Agent : read[b].moved => read'[b].moved
           /\ \A b \in Agent : read[b].pc # "idle" /\ read[b].file = f => read'[b].moved
  <1>1. \A b \in Agent : read[b] \in [pc: {"idle", "digest", "lines"}, file: File, moved: BOOLEAN]
    BY DEF Types
  <1>2. read' = [b \in Agent |->
                    [read[b] EXCEPT !.moved = @ \/ (read[b].pc # "idle" /\ read[b].file = f)]]
    BY DEF Touched
  <1>3. ASSUME NEW b \in Agent
        PROVE  /\ read'[b] \in [pc: {"idle", "digest", "lines"}, file: File, moved: BOOLEAN]
               /\ read'[b].pc = read[b].pc /\ read'[b].file = read[b].file
               /\ read'[b].moved = (read[b].moved \/ (read[b].pc # "idle" /\ read[b].file = f))
    BY <1>1, <1>2
  <1>4. DOMAIN read' = Agent /\ read' = [b \in Agent |-> read'[b]]
    BY <1>2
  <1>5. read' \in [Agent -> [pc: {"idle", "digest", "lines"}, file: File, moved: BOOLEAN]]
    BY <1>3, <1>4
  <1> QED  BY <1>3, <1>5

\* The table of versions, what the agents know and what they were told do not depend on the disk;
\* a read whose file changes gives its lines up.
LEMMA KnownAfterWrite ==
    ASSUME IInv, NEW f, NEW v, disk' = [disk EXCEPT ![f] = v], Touched(f),
           UNCHANGED <<versions, seen, told>>, raced \subseteq raced'
    PROVE  Known'
  <1>1. /\ \A b \in Agent : read'[b].pc = read[b].pc /\ read'[b].file = read[b].file
        /\ \A b \in Agent : read[b].moved => read'[b].moved
        /\ \A b \in Agent : read[b].pc # "idle" /\ read[b].file = f => read'[b].moved
    BY TouchedOf DEF IInv
  <1> SUFFICES ASSUME Alone PROVE Known'
    BY DEF Known
  <1>2. ASSUME NEW b \in Agent, NEW g \in File \ (told'[b] \cup raced')
        PROVE  \/ read'[b].pc = "lines" /\ read'[b].file = g
               \/ versions'[ServiceOf[b]][g] = seen'[b][g]
               \/ versions'[ServiceOf[b]][g] = Unobserved /\ seen'[b][g] = Absent
    BY <1>1 DEF IInv, Known, Knows
  <1>3. ASSUME NEW b \in Agent, read'[b].pc = "lines", ~read'[b].moved
        PROVE  versions'[ServiceOf[b]][read'[b].file] = disk'[read'[b].file]
    <2>1. read[b].pc = "lines" /\ ~read[b].moved /\ read[b].file # f
      BY <1>1, <1>3
    <2>2. versions[ServiceOf[b]][read[b].file] = disk[read[b].file]
      BY <2>1 DEF IInv, Known, Knows
    <2>3. disk'[read[b].file] = disk[read[b].file]
      BY <2>1 DEF IInv, Types
    <2> QED  BY <1>1, <2>2, <2>3
  <1> QED  BY <1>2, <1>3 DEF Known, Knows

\* A write replaces a file that it has locked, which concerns nobody else.
LEMMA Replaces ==
    ASSUME IInv, NEW a \in Agent, Others(a), op[a].pc # "idle", NEW f \in op[a].locked,
           NEW v \in Content, disk' = [disk EXCEPT ![f] = v], Touched(f),
           UNCHANGED <<versions, seen, told, raced>>,
           op'[a].held = op[a].held, op'[a].locked = op[a].locked, Form(op'[a]),
           Keeps(op[a])', op'[a].pc \notin Locking, MadeFrom(a, op'[a])
    PROVE  IInv'
  <1>1. f \in File
    BY Busy, LockedIsHeld
  <1>2. \A b \in Agent \ {a} : op'[b] = op[b] /\ f \notin op[b].locked
    BY DEF IInv, Excluded, Others
  <1>3. \A g : g # f => disk'[g] = disk[g]
    BY <1>1 DEF IInv, Types
  <1>4. /\ read' \in [Agent -> [pc: {"idle", "digest", "lines"}, file: File, moved: BOOLEAN]]
        /\ \A b \in Agent : read'[b].pc = read[b].pc
    BY TouchedOf DEF IInv
  <1>5. Types'
    BY <1>1, <1>4 DEF IInv, Types
  <1>6. Shape'
    BY DEF IInv, Shape, Others
  <1>7. Formed'
    BY <1>2 DEF IInv, Formed
  <1>8. OneAtATime'
    BY <1>2, <1>4, Busy DEF IInv, OneAtATime
  <1>9. Excluded'
    BY StaysExcluded
  <1>10. Kept'
    <2>1. ASSUME NEW b \in Agent \ {a} PROVE Keeps(op[b])'
      <3>1. \A g \in op[b].locked : disk'[g] = disk[g]
        BY <1>2, <1>3
      <3>2. Keeps(op[b])
        BY DEF IInv, Kept
      <3> QED  BY <1>2, <3>1, <3>2 DEF Keeps
    <2> QED  BY <2>1 DEF Kept
  <1>11. Compared'
    <2>1. ASSUME NEW b \in Agent \ {a} PROVE Stands(b, op[b])'
      <3>1. \A g \in op[b].locked : disk'[g] = disk[g]
        BY <1>2, <1>3
      <3>2. Stands(b, op[b])
        BY DEF IInv, Compared
      <3> QED  BY <1>2, <3>1, <3>2 DEF Stands
    <2>2. Stands(a, op[a])'
      BY DEF Stands
    <2> QED  BY <2>1, <2>2 DEF Compared
  <1>12. Based'
    BY <1>2 DEF IInv, Based, MadeFrom
  <1>13. Known'
    BY KnownAfterWrite
  <1> QED  BY <1>5, <1>6, <1>7, <1>8, <1>9, <1>10, <1>11, <1>12, <1>13 DEF IInv

LEMMA PutStep ==
    ASSUME IInv, NEW a \in Agent, Put(a)
    PROVE  IInv'
  <1> DEFINE f == Head(op[a].rest)
             v == op[a].new[f]
  <1>1. Shape
    BY DEF IInv
  <1>2. /\ Others(a) /\ UNCHANGED <<versions, seen, told, raced>> /\ op[a].pc = "put"
        /\ disk' = [disk EXCEPT ![f] = v] /\ Touched(f) /\ op'[a].rest = Tail(op[a].rest)
        /\ op'[a].kind = op[a].kind /\ op'[a].todo = op[a].todo /\ op'[a].held = op[a].held
        /\ op'[a].locked = op[a].locked /\ op'[a].new = op[a].new /\ op'[a].base = op[a].base
        /\ op'[a].old = op[a].old
    BY <1>1, PutOp
  <1>3. /\ Len(op[a].rest) = 1 => op'[a].pc = "charge"
        /\ Len(op[a].rest) # 1 => op'[a].pc = "put"
    BY <1>1, PutOp
  <1>4. Form(op[a]) /\ Keeps(op[a]) /\ MadeFrom(a, op[a])
    BY <1>2, Busy
  <1>5. ~op'[a].raised
    <2>1. ~op[a].raised
      BY <1>2, <1>4 DEF Form, Staged
    <2>2. op'[a].raised = op[a].raised
      BY <1>1, PutOp
    <2> QED  BY <2>1, <2>2
  <1>6. /\ op[a].rest \in Seq(File) /\ Distinct(op[a].rest) /\ op[a].rest # <<>>
        /\ ToSet(op[a].rest) \subseteq ToSet(op[a].held)
        /\ op[a].locked = ToSet(op[a].held) /\ ToSet(op[a].held) \subseteq DOMAIN op[a].new
        /\ ToSet(op[a].held) \subseteq File
    BY <1>2, <1>4, LockedIsHeld DEF Form, Sequenced, Staged, Covered, Writing
  <1>7. /\ f \in ToSet(op[a].rest) /\ Tail(op[a].rest) \in Seq(File) /\ Distinct(Tail(op[a].rest))
        /\ ToSet(Tail(op[a].rest)) = ToSet(op[a].rest) \ {f}
        /\ (Len(op[a].rest) = 1 <=> Tail(op[a].rest) = <<>>)
    BY <1>6, TailOf
  <1>8. f \in op[a].locked /\ f \in File /\ v \in Content
    BY <1>2, <1>4, <1>6, <1>7 DEF Form, Covered
  <1> HIDE DEF f, v
  <1>9. op'[a].pc \in {"put", "charge"} /\ (op'[a].pc = "charge" <=> op'[a].rest = <<>>)
    BY <1>2, <1>3, <1>7
  <1>10. Form(op'[a])
    <2>1. op'[a].pc = "undo" <=> op'[a].raised
      BY <1>5, <1>9
    <2> QED  BY <1>2, <1>4, <1>6, <1>7, <1>9, <2>1, GoesOnForm
  <1>11. Keeps(op[a])'
    <2>1. /\ disk'[f] = op'[a].new[f]
          /\ \A g : g # f => disk'[g] = disk[g]
      BY <1>2, <1>8 DEF IInv, Types, v
    <2>2. ASSUME NEW g \in op'[a].locked \ raced'
          PROVE  /\ g \in ToSet(op'[a].rest) => disk'[g] = op'[a].old[g]
                 /\ g \notin ToSet(op'[a].rest) => disk'[g] = op'[a].new[g]
      <3>1. CASE g = f
        BY <1>2, <1>7, <2>1, <3>1
      <3>2. CASE g # f
        BY <1>2, <1>4, <1>7, <2>1, <3>2 DEF Keeps
      <3> QED  BY <3>1, <3>2
    <2> QED  BY <1>9, <2>2 DEF Keeps
  <1>12. MadeFrom(a, op'[a])
    BY <1>2, <1>4, <1>9 DEF MadeFrom, Locking
  <1>13. op'[a].pc \notin Locking
    BY <1>9 DEF Locking
  <1> QED  BY <1>2, <1>8, <1>10, <1>11, <1>12, <1>13, Replaces

LEMMA UndoStep ==
    ASSUME IInv, NEW a \in Agent, Undo(a)
    PROVE  IInv'
  <1> DEFINE f == Head(op[a].rest)
             v == op[a].old[f]
  <1>1. Shape
    BY DEF IInv
  <1>2. /\ Others(a) /\ UNCHANGED <<versions, seen, told, raced>> /\ op[a].pc = "undo"
        /\ disk' = [disk EXCEPT ![f] = v] /\ Touched(f) /\ op'[a].rest = Tail(op[a].rest)
        /\ op'[a].kind = op[a].kind /\ op'[a].todo = op[a].todo /\ op'[a].held = op[a].held
        /\ op'[a].locked = op[a].locked /\ op'[a].new = op[a].new /\ op'[a].base = op[a].base
        /\ op'[a].old = op[a].old
    BY <1>1, UndoOp
  <1>3. /\ Len(op[a].rest) = 1 => op'[a].pc = "end"
        /\ Len(op[a].rest) # 1 => op'[a].pc = "undo"
    BY <1>1, UndoOp
  <1>4. Form(op[a]) /\ Keeps(op[a])
    BY <1>2, Busy
  <1>5. op'[a].raised
    <2>1. op[a].raised
      BY <1>2, <1>4 DEF Form, Staged
    <2>2. op'[a].raised = op[a].raised
      BY <1>1, UndoOp
    <2> QED  BY <2>1, <2>2
  <1>6. /\ op[a].rest \in Seq(File) /\ Distinct(op[a].rest) /\ op[a].rest # <<>>
        /\ ToSet(op[a].rest) \subseteq ToSet(op[a].held) /\ op[a].kind = "batch"
        /\ op[a].locked = ToSet(op[a].held) /\ ToSet(op[a].held) \subseteq File
    BY <1>2, <1>4, LockedIsHeld DEF Form, Sequenced, Staged, Covered, Writing
  <1>7. /\ f \in ToSet(op[a].rest) /\ Tail(op[a].rest) \in Seq(File) /\ Distinct(Tail(op[a].rest))
        /\ ToSet(Tail(op[a].rest)) = ToSet(op[a].rest) \ {f}
        /\ (Len(op[a].rest) = 1 <=> Tail(op[a].rest) = <<>>)
    BY <1>6, TailOf
  <1>8. f \in op[a].locked /\ f \in File /\ v \in Content
    BY <1>2, <1>4, <1>6, <1>7 DEF Form, Covered, Writing
  <1> HIDE DEF f, v
  <1>9. \/ op'[a].pc = "undo" /\ op'[a].rest # <<>>
        \/ op'[a].pc = "end" /\ op'[a].rest = <<>>
    BY <1>2, <1>3, <1>7
  <1>10. Form(op'[a])
    <2>1. CASE op'[a].pc = "undo" /\ op'[a].rest # <<>>
      <3>1. op'[a].pc = "undo" <=> op'[a].raised
        BY <1>5, <2>1
      <3>2. op'[a].pc = "charge" <=> op'[a].rest = <<>>
        BY <2>1
      <3> QED  BY <1>2, <1>4, <1>6, <1>7, <2>1, <3>1, <3>2, GoesOnForm
    <2>2. CASE op'[a].pc = "end" /\ op'[a].rest = <<>>
      BY <1>2, <1>4, <2>2, UndoneForm
    <2> QED  BY <1>9, <2>1, <2>2
  <1>11. Keeps(op[a])'
    <2>1. /\ disk'[f] = op'[a].old[f]
          /\ \A g : g # f => disk'[g] = disk[g]
      BY <1>2, <1>8 DEF IInv, Types, v
    <2>2. ASSUME NEW g \in op'[a].locked \ raced'
          PROVE  g \notin ToSet(op'[a].rest) => disk'[g] = op'[a].old[g]
      <3>1. CASE g = f
        BY <2>1, <3>1
      <3>2. CASE g # f
        BY <1>2, <1>4, <1>7, <2>1, <3>2 DEF Keeps
      <3> QED  BY <3>1, <3>2
    <2>3. CASE op'[a].pc = "undo"
      BY <2>2, <2>3 DEF Keeps
    <2>4. CASE op'[a].pc = "end" /\ op'[a].rest = <<>>
      BY <1>5, <2>2, <2>4, EmptyOf DEF Keeps
    <2> QED  BY <1>9, <2>3, <2>4
  <1>12. op'[a].pc \notin Locking /\ op'[a].pc \notin {"quota", "put"}
    BY <1>9 DEF Locking
  <1>13. MadeFrom(a, op'[a])
    BY <1>12 DEF MadeFrom
  <1> QED  BY <1>2, <1>8, <1>10, <1>11, <1>12, <1>13, Replaces

LEMMA NoReadType ==
    /\ NoRead \in [pc: {"idle", "digest", "lines"}, file: File, moved: BOOLEAN]
    /\ NoRead.pc = "idle"
  <1>1. Head(Sorted) \in File
    BY FileAssumption DEF File, ToSet
  <1> QED  BY <1>1 DEF NoRead

\* What one agent learns, or lets go, is its own affair.
LEMMA Learns ==
    ASSUME IInv, NEW a \in Agent, Others(a), UNCHANGED <<disk, raced>>, Types', OneAtATime', Excluded',
           \A s \in Service \ {ServiceOf[a]} : versions'[s] = versions[s],
           \A b \in Agent \ {a} : seen'[b] = seen[b] /\ told'[b] = told[b] /\ read'[b] = read[b],
           Form(op'[a]), Keeps(op'[a]), op'[a].pc \notin Locking, MadeFrom(a, op'[a]),
           Alone => Knows(a)'
    PROVE  IInv'
  <1>1. \A b \in Agent \ {a} : op'[b] = op[b]
    BY DEF Others
  <1>2. \A b \in Agent \ {a} : Alone => versions'[ServiceOf[b]] = versions[ServiceOf[b]]
    BY FileAssumption DEF Alone
  <1>3. Shape'
    BY DEF IInv, Shape, Others
  <1>4. Formed'
    BY <1>1 DEF IInv, Formed
  <1>5. Kept'
    BY <1>1 DEF IInv, Kept, Keeps
  <1>6. Compared'
    <2>1. ASSUME NEW b \in Agent \ {a} PROVE Stands(b, op[b])'
      <3>1. Stands(b, op[b]) /\ op'[b] = op[b]
        BY <1>1 DEF IInv, Compared
      <3> QED  BY <1>2, <3>1 DEF Stands
    <2>2. Stands(a, op[a])'
      BY DEF Stands
    <2> QED  BY <2>1, <2>2 DEF Compared
  <1>7. Based'
    <2>1. ASSUME NEW b \in Agent \ {a} PROVE MadeFrom(b, op[b])'
      <3>1. MadeFrom(b, op[b]) /\ op'[b] = op[b]
        BY <1>1 DEF IInv, Based
      <3> QED  BY <3>1 DEF MadeFrom
    <2>2. MadeFrom(a, op[a])'
      BY DEF MadeFrom
    <2> QED  BY <2>1, <2>2 DEF Based
  <1>8. Known'
    <2> SUFFICES ASSUME Alone, NEW b \in Agent PROVE Knows(b)'
      BY DEF Known
    <2>1. CASE b = a
      BY <2>1
    <2>2. CASE b # a
      <3>1. Knows(b)
        BY DEF IInv, Known
      <3>2. versions'[ServiceOf[b]] = versions[ServiceOf[b]]
        BY <1>2, <2>2
      <3>3. seen'[b] = seen[b] /\ told'[b] = told[b] /\ read'[b] = read[b]
        BY <2>2
      <3> QED  BY <3>1, <3>2, <3>3 DEF Knows
    <2> QED  BY <2>1, <2>2
  <1> QED  BY <1>3, <1>4, <1>5, <1>6, <1>7, <1>8 DEF IInv

\* A read is nobody's write.
LEMMA ReadsStep ==
    ASSUME IInv, NEW a \in Agent, op[a].pc = "idle", UNCHANGED <<disk, op, raced>>, Types',
           \A s \in Service \ {ServiceOf[a]} : versions'[s] = versions[s],
           \A b \in Agent \ {a} : seen'[b] = seen[b] /\ told'[b] = told[b] /\ read'[b] = read[b],
           Alone => Knows(a)'
    PROVE  IInv'
  <1>1. Others(a) /\ op'[a] = op[a]
    BY DEF IInv, Shape, Others
  <1>2. Form(op'[a]) /\ Keeps(op'[a])
    BY <1>1 DEF IInv, Formed, Kept
  <1>3. OneAtATime'
    BY DEF IInv, OneAtATime
  <1>4. Excluded'
    BY <1>1, StaysExcluded
  <1>5. op'[a].pc \notin Locking /\ MadeFrom(a, op'[a])
    BY <1>1 DEF Locking, MadeFrom
  <1> QED  BY <1>1, <1>2, <1>3, <1>4, <1>5, Learns

LEMMA ReadBeginStep ==
    ASSUME IInv, NEW a \in Agent, NEW f \in File, ReadBegin(a, f)
    PROVE  IInv'
  <1>1. /\ op[a].pc = "idle" /\ read[a].pc = "idle"
        /\ UNCHANGED <<disk, versions, op, seen, told, raced>>
        /\ read' = [read EXCEPT ![a] = [pc |-> "digest", file |-> f, moved |-> FALSE]]
    BY DEF ReadBegin, Idle
  <1>2. read'[a] = [pc |-> "digest", file |-> f, moved |-> FALSE]
    BY <1>1 DEF IInv, Types
  <1>3. \A b \in Agent \ {a} : read'[b] = read[b]
    BY <1>1 DEF IInv, Types
  <1>4. Types'
    BY <1>1 DEF IInv, Types
  <1>5. Alone => Knows(a)'
    <2>1. Alone => Knows(a)
      BY DEF IInv, Known
    <2> QED  BY <1>1, <1>2, <2>1 DEF Knows
  <1> QED  BY <1>1, <1>3, <1>4, <1>5, ReadsStep

\* The version is noted and the content read, or the file is gone.
LEMMA ReadDigestStep ==
    ASSUME IInv, NEW a \in Agent, ReadDigest(a)
    PROVE  IInv'
  <1> DEFINE f == read[a].file
  <1>1. /\ read[a].pc = "digest" /\ UNCHANGED <<disk, op, seen, raced>>
        /\ \/ /\ read' = [read EXCEPT ![a] = NoRead]
              /\ told' = [told EXCEPT ![a] = @ \cup {f}]
              /\ UNCHANGED versions
           \/ /\ versions' = [versions EXCEPT ![ServiceOf[a]][f] = disk[f]]
              /\ read' = [read EXCEPT ![a].pc = "lines"]
              /\ UNCHANGED told
    BY DEF ReadDigest
  <1>2. /\ op[a].pc = "idle" /\ f \in File
        /\ read[a] \in [pc: {"idle", "digest", "lines"}, file: File, moved: BOOLEAN]
    BY <1>1 DEF IInv, OneAtATime, Types
  <1>3. Alone => Knows(a)
    BY DEF IInv, Known
  <1>4. ServiceOf[a] \in Service
    BY FileAssumption
  <1>5. CASE /\ read' = [read EXCEPT ![a] = NoRead]
             /\ told' = [told EXCEPT ![a] = @ \cup {f}]
             /\ UNCHANGED versions
    <2>1. NoRead \in [pc: {"idle", "digest", "lines"}, file: File, moved: BOOLEAN] /\ NoRead.pc = "idle"
      BY NoReadType
    <2>2. read'[a] = NoRead /\ told'[a] = told[a] \cup {f}
      BY <1>5 DEF IInv, Types
    <2>3. \A b \in Agent \ {a} : read'[b] = read[b] /\ told'[b] = told[b]
      BY <1>5 DEF IInv, Types
    <2>4. Types'
      BY <1>1, <1>2, <1>5, <2>1 DEF IInv, Types
    <2>5. Alone => Knows(a)'
      BY <1>1, <1>3, <1>5, <2>1, <2>2 DEF Knows
    <2> QED  BY <1>1, <1>2, <1>5, <2>3, <2>4, <2>5, ReadsStep
  <1>6. CASE /\ versions' = [versions EXCEPT ![ServiceOf[a]][f] = disk[f]]
             /\ read' = [read EXCEPT ![a].pc = "lines"]
             /\ UNCHANGED told
    <2>1. /\ read'[a].pc = "lines" /\ read'[a].file = f
          /\ read'[a] \in [pc: {"idle", "digest", "lines"}, file: File, moved: BOOLEAN]
      BY <1>2, <1>6 DEF IInv, Types
    <2>2. \A b \in Agent \ {a} : read'[b] = read[b]
      BY <1>6 DEF IInv, Types
    <2>3. \A s \in Service \ {ServiceOf[a]} : versions'[s] = versions[s]
      BY <1>6 DEF IInv, Types
    <2>4. /\ versions'[ServiceOf[a]][f] = disk[f]
          /\ \A g \in File \ {f} : versions'[ServiceOf[a]][g] = versions[ServiceOf[a]][g]
      BY <1>2, <1>4, <1>6 DEF IInv, Types
    <2>5. Types'
      <3>1. versions' \in [Service -> [File -> Content \cup {Unobserved}]]
        BY <1>2, <1>4, <1>6 DEF IInv, Types
      <3>2. read' \in [Agent -> [pc: {"idle", "digest", "lines"}, file: File, moved: BOOLEAN]]
        BY <1>6, <2>1 DEF IInv, Types
      <3> QED  BY <1>1, <1>6, <3>1, <3>2 DEF IInv, Types
    <2>6. Alone => Knows(a)'
      <3>1. ASSUME Alone, NEW g \in File \ (told'[a] \cup raced')
            PROVE  \/ read'[a].pc = "lines" /\ read'[a].file = g
                   \/ versions'[ServiceOf[a]][g] = seen'[a][g]
                   \/ versions'[ServiceOf[a]][g] = Unobserved /\ seen'[a][g] = Absent
        BY <1>1, <1>3, <1>6, <2>1, <2>4, <3>1 DEF Knows
      <3>2. versions'[ServiceOf[a]][read'[a].file] = disk'[read'[a].file]
        BY <1>1, <2>1, <2>4
      <3> QED  BY <3>1, <3>2 DEF Knows
    <2> QED  BY <1>1, <1>2, <1>6, <2>2, <2>3, <2>5, <2>6, ReadsStep
  <1> QED  BY <1>1, <1>5, <1>6

\* The lines are returned, with the version noted before; or the read is to be repeated.
LEMMA ReadEndStep ==
    ASSUME IInv, NEW a \in Agent, ReadEnd(a)
    PROVE  IInv'
  <1> DEFINE f == read[a].file
  <1>1. /\ read[a].pc = "lines" /\ UNCHANGED <<disk, versions, op, raced>>
        /\ read' = [read EXCEPT ![a] = NoRead]
        /\ read[a].moved => told' = [told EXCEPT ![a] = @ \cup {f}] /\ seen' = seen
        /\ ~read[a].moved => /\ told' = [told EXCEPT ![a] = @ \ {f}]
                             /\ seen' = [seen EXCEPT ![a][f] = disk[f]]
    BY DEF ReadEnd
  <1>2. /\ op[a].pc = "idle" /\ f \in File
        /\ read[a] \in [pc: {"idle", "digest", "lines"}, file: File, moved: BOOLEAN]
    BY <1>1 DEF IInv, OneAtATime, Types
  <1>3. Alone => Knows(a)
    BY DEF IInv, Known
  <1>4. NoRead \in [pc: {"idle", "digest", "lines"}, file: File, moved: BOOLEAN] /\ NoRead.pc = "idle"
    BY NoReadType
  <1>5. read' \in [Agent -> [pc: {"idle", "digest", "lines"}, file: File, moved: BOOLEAN]]
        /\ read'[a] = NoRead /\ \A b \in Agent \ {a} : read'[b] = read[b]
    BY <1>1, <1>4 DEF IInv, Types
  <1>6. CASE read[a].moved
    <2>1. /\ told' = [told EXCEPT ![a] = @ \cup {f}] /\ seen' = seen
      BY <1>1, <1>6
    <2>2. told'[a] = told[a] \cup {f} /\ \A b \in Agent \ {a} : told'[b] = told[b]
      BY <2>1 DEF IInv, Types
    <2>3. Types'
      BY <1>1, <1>2, <1>5, <2>1 DEF IInv, Types
    <2>4. Alone => Knows(a)'
      BY <1>1, <1>3, <1>4, <1>5, <2>1, <2>2 DEF Knows
    <2> QED  BY <1>1, <1>2, <1>5, <2>1, <2>2, <2>3, <2>4, ReadsStep
  <1>7. CASE ~read[a].moved
    <2>1. /\ told' = [told EXCEPT ![a] = @ \ {f}]
          /\ seen' = [seen EXCEPT ![a][f] = disk[f]]
      BY <1>1, <1>7
    <2>2. /\ told'[a] = told[a] \ {f} /\ seen'[a][f] = disk[f]
          /\ \A g \in File \ {f} : seen'[a][g] = seen[a][g]
          /\ \A b \in Agent \ {a} : told'[b] = told[b] /\ seen'[b] = seen[b]
      BY <1>2, <2>1 DEF IInv, Types
    <2>3. Types'
      <3>1. disk[f] \in Content
        BY <1>2 DEF IInv, Types
      <3>2. seen' \in [Agent -> [File -> Content]]
        BY <2>1, <3>1 DEF IInv, Types
      <3> QED  BY <1>1, <1>5, <2>1, <3>2 DEF IInv, Types
    <2>4. Alone => Knows(a)'
      <3>1. ASSUME Alone, NEW g \in File \ (told'[a] \cup raced')
            PROVE  \/ versions'[ServiceOf[a]][g] = seen'[a][g]
                   \/ versions'[ServiceOf[a]][g] = Unobserved /\ seen'[a][g] = Absent
        <4>1. CASE g = f
          <5>1. versions[ServiceOf[a]][f] = disk[f]
            BY <1>1, <1>3, <1>7, <3>1 DEF Knows
          <5> QED  BY <1>1, <2>2, <4>1, <5>1
        <4>2. CASE g # f
          BY <1>1, <1>3, <2>2, <3>1, <4>2 DEF Knows
        <4> QED  BY <4>1, <4>2
      <3>2. read'[a].pc = "idle"
        BY <1>4, <1>5
      <3> QED  BY <3>1, <3>2 DEF Knows
    <2> QED  BY <1>1, <1>2, <1>5, <2>2, <2>3, <2>4, ReadsStep
  <1> QED  BY <1>6, <1>7

\* A write lets go of its last file, and knows what it wrote to it.
LEMMA LetsGo ==
    ASSUME IInv, NEW a \in Agent, Others(a), UNCHANGED <<disk, read, told, raced>>, op[a].pc = "end",
           read[a].pc = "idle", NEW f \in ToSet(op[a].held), f \in File, disk[f] \in Content,
           op[a].new[f] \in Content, op[a].raised => UNCHANGED <<versions, seen>>,
           ~op[a].raised => /\ versions' = [versions EXCEPT ![ServiceOf[a]][f] = disk[f]]
                            /\ seen' = [seen EXCEPT ![a][f] = op[a].new[f]],
           Form(op'[a]), Excluded', Keeps(op'[a]), op'[a].pc \notin Locking, MadeFrom(a, op'[a])
    PROVE  IInv'
  <1>1. OneAtATime'
    BY DEF IInv, OneAtATime, Others
  <1>2. Alone => Knows(a)
    BY DEF IInv, Known
  <1>3. ServiceOf[a] \in Service
    BY FileAssumption
  <1>4. CASE op[a].raised
    <2>1. UNCHANGED <<versions, seen>>
      BY <1>4
    <2>2. Types'
      BY <2>1 DEF IInv, Types
    <2>3. Alone => Knows(a)'
      BY <1>2, <2>1 DEF Knows
    <2> QED  BY <1>1, <2>1, <2>2, <2>3, Learns
  <1>5. CASE ~op[a].raised
    <2>1. /\ versions' = [versions EXCEPT ![ServiceOf[a]][f] = disk[f]]
          /\ seen' = [seen EXCEPT ![a][f] = op[a].new[f]]
      BY <1>5
    <2>2. /\ versions'[ServiceOf[a]][f] = disk[f] /\ seen'[a][f] = op[a].new[f]
          /\ \A g \in File \ {f} : versions'[ServiceOf[a]][g] = versions[ServiceOf[a]][g]
          /\ \A g \in File \ {f} : seen'[a][g] = seen[a][g]
          /\ \A s \in Service \ {ServiceOf[a]} : versions'[s] = versions[s]
          /\ \A b \in Agent \ {a} : seen'[b] = seen[b]
      BY <1>3, <2>1 DEF IInv, Types
    <2>3. Types'
      <3>1. versions' \in [Service -> [File -> Content \cup {Unobserved}]]
        BY <1>3, <2>1 DEF IInv, Types
      <3>2. seen' \in [Agent -> [File -> Content]]
        BY <2>1 DEF IInv, Types
      <3> QED  BY <3>1, <3>2 DEF IInv, Types
    <2>4. f \notin raced => disk[f] = op[a].new[f]
      <3>1. Keeps(op[a]) /\ f \in op[a].locked
        BY Busy, LockedIsHeld
      <3> QED  BY <1>5, <3>1 DEF Keeps
    <2>5. Alone => Knows(a)'
      <3>1. ASSUME Alone, NEW g \in File \ (told'[a] \cup raced')
            PROVE  \/ versions'[ServiceOf[a]][g] = seen'[a][g]
                   \/ versions'[ServiceOf[a]][g] = Unobserved /\ seen'[a][g] = Absent
        <4>1. CASE g = f
          BY <2>2, <2>4, <3>1, <4>1
        <4>2. CASE g # f
          BY <1>2, <2>2, <3>1, <4>2 DEF Knows
        <4> QED  BY <4>1, <4>2
      <3> QED  BY <3>1 DEF Knows
    <2> QED  BY <1>1, <2>2, <2>3, <2>5, Learns
  <1> QED  BY <1>4, <1>5

\* The version noted at the end is that of the content the write put there, or of what an editor
\* made of it meanwhile.
LEMMA EndStep ==
    ASSUME IInv, NEW a \in Agent, End(a)
    PROVE  IInv'
  <1> DEFINE f == Last(op[a].held)
  <1>1. Shape
    BY DEF IInv
  <1>2. /\ Others(a) /\ UNCHANGED <<disk, read, told, raced>> /\ op[a].pc = "end"
        /\ op[a].raised => UNCHANGED <<versions, seen>>
        /\ ~op[a].raised => /\ versions' = [versions EXCEPT ![ServiceOf[a]][f] = disk[f]]
                            /\ seen' = [seen EXCEPT ![a][f] = op[a].new[f]]
    BY <1>1, EndOp
  <1>3. /\ Front(op[a].held) = <<>> => op'[a] = NoWrite
        /\ Front(op[a].held) # <<>> =>
              /\ op'[a].held = Front(op[a].held) /\ op'[a].locked = op[a].locked \ {f}
              /\ op'[a].pc = op[a].pc /\ op'[a].kind = op[a].kind /\ op'[a].todo = op[a].todo
              /\ op'[a].new = op[a].new /\ op'[a].base = op[a].base /\ op'[a].old = op[a].old
              /\ op'[a].rest = op[a].rest /\ op'[a].raised = op[a].raised
    BY <1>1, EndOp
  <1>4. read[a].pc = "idle" /\ Form(op[a]) /\ Keeps(op[a])
    BY <1>2, Busy
  <1>5. Form(op'[a])
    BY <1>2, <1>3, <1>4, LetGoForm
  <1>6. /\ op[a].held \in Seq(File) /\ Distinct(op[a].held) /\ op[a].held # <<>>
        /\ op[a].locked = ToSet(op[a].held) /\ ToSet(op[a].held) \subseteq File
        /\ \A g \in ToSet(op[a].held) : op[a].new[g] \in Content
    BY <1>2, <1>4, LockedIsHeld DEF Form, Sequenced, Staged, Covered
  <1>7. f \in ToSet(op[a].held) /\ ToSet(Front(op[a].held)) = ToSet(op[a].held) \ {f}
    BY <1>6, FrontOf
  <1> HIDE DEF f
  <1>8. f \in File /\ disk[f] \in Content /\ op[a].new[f] \in Content
    BY <1>6, <1>7 DEF IInv, Types
  <1>9. CASE Front(op[a].held) = <<>>
    <2>1. op'[a] = NoWrite
      BY <1>3, <1>9
    <2>2. Excluded'
      BY <1>2, <2>1, EmptyOf, StaysExcluded DEF NoWrite
    <2>3. Keeps(op'[a]) /\ op'[a].pc \notin Locking /\ MadeFrom(a, op'[a])
      BY <2>1 DEF Keeps, MadeFrom, Locking, NoWrite
    <2> QED  BY <1>2, <1>4, <1>5, <1>7, <1>8, <2>2, <2>3, LetsGo DEF f
  <1>10. CASE Front(op[a].held) # <<>>
    <2>1. /\ op'[a].held = Front(op[a].held) /\ op'[a].locked = op[a].locked \ {f}
          /\ op'[a].pc = op[a].pc /\ op'[a].kind = op[a].kind /\ op'[a].todo = op[a].todo
          /\ op'[a].new = op[a].new /\ op'[a].base = op[a].base /\ op'[a].old = op[a].old
          /\ op'[a].rest = op[a].rest /\ op'[a].raised = op[a].raised
      BY <1>3, <1>10
    <2>2. Excluded'
      BY <1>2, <1>7, <2>1, StaysExcluded
    <2>3. Keeps(op'[a])
      BY <1>2, <1>4, <2>1 DEF Keeps
    <2>4. op'[a].pc \notin Locking /\ MadeFrom(a, op'[a])
      BY <1>2, <2>1 DEF MadeFrom, Locking
    <2> QED  BY <1>2, <1>4, <1>5, <1>7, <1>8, <2>2, <2>3, <2>4, LetsGo DEF f
  <1> QED  BY <1>9, <1>10

\* An edit from outside meets no write but those it is recorded for.
LEMMA OutsideStep ==
    ASSUME IInv, NEW f \in File, NEW v \in Content, OutsideEdit(f, v)
    PROVE  IInv'
  <1>1. /\ UNCHANGED <<versions, op, seen, told>> /\ disk' = [disk EXCEPT ![f] = v] /\ Touched(f)
        /\ raced \subseteq raced' /\ raced' \subseteq raced \cup {f}
        /\ \A a \in Agent : f \in op[a].locked => f \in raced'
    BY DEF OutsideEdit
  <1>2. \A g : g # f => disk'[g] = disk[g]
    BY <1>1 DEF IInv, Types
  <1>3. /\ read' \in [Agent -> [pc: {"idle", "digest", "lines"}, file: File, moved: BOOLEAN]]
        /\ \A b \in Agent : read'[b].pc = read[b].pc
    BY <1>1, TouchedOf DEF IInv
  <1>4. Types'
    BY <1>1, <1>3 DEF IInv, Types
  <1>5. Shape' /\ Formed' /\ Excluded'
    BY <1>1 DEF IInv, Shape, Formed, Excluded, Strangers
  <1>6. OneAtATime'
    BY <1>1, <1>3 DEF IInv, OneAtATime
  <1>7. \A a \in Agent : \A g \in op[a].locked \ raced' : g \notin raced /\ disk'[g] = disk[g]
    BY <1>1, <1>2
  <1>8. Kept'
    <2>1. ASSUME NEW a \in Agent PROVE Keeps(op[a])'
      <3>1. Keeps(op[a])
        BY DEF IInv, Kept
      <3> QED  BY <1>1, <1>7, <3>1 DEF Keeps
    <2> QED  BY <2>1 DEF Kept
  <1>9. Compared'
    <2>1. ASSUME NEW a \in Agent PROVE Stands(a, op[a])'
      <3>1. Stands(a, op[a])
        BY DEF IInv, Compared
      <3> QED  BY <1>1, <1>7, <3>1 DEF Stands
    <2> QED  BY <2>1 DEF Compared
  <1>10. Based'
    <2>1. ASSUME NEW a \in Agent PROVE MadeFrom(a, op[a])'
      <3>1. MadeFrom(a, op[a])
        BY DEF IInv, Based
      <3> QED  BY <1>1, <3>1 DEF MadeFrom
    <2> QED  BY <2>1 DEF Based
  <1>11. Known'
    BY <1>1, KnownAfterWrite
  <1> QED  BY <1>4, <1>5, <1>6, <1>8, <1>9, <1>10, <1>11 DEF IInv

\* The bounds and what an agent read last do not matter.
LEMMA Still ==
    ASSUME IInv, UNCHANGED <<disk, versions, op, read, seen, told, raced>>
    PROVE  IInv'
  <1> USE DEF IInv
  <1>1. Types' /\ Shape' /\ Formed' /\ OneAtATime' /\ Excluded'
    BY DEF Types, Shape, Formed, OneAtATime, Excluded, Strangers
  <1>2. Kept'
    BY DEF Kept, Keeps
  <1>3. Compared'
    BY DEF Compared, Stands
  <1>4. Based'
    BY DEF Based, MadeFrom
  <1>5. Known'
    BY DEF Known, Knows
  <1> QED  BY <1>1, <1>2, <1>3, <1>4, <1>5

-----------------------------------------------------------------------------
(* The theorems.                                                           *)

LEMMA Initially == ASSUME Init PROVE IInv
  <1>1. /\ disk \in [File -> Content] /\ raced = {}
        /\ versions = [s \in Service |-> [f \in File |-> Unobserved]]
        /\ op = [a \in Agent |-> NoWrite] /\ read = [a \in Agent |-> NoRead]
        /\ seen = [a \in Agent |-> [f \in File |-> Absent]] /\ told = [a \in Agent |-> {}]
    BY DEF Init
  <1>2. Types
    BY <1>1, NoReadType, FileAssumption DEF Types
  <1>3. DOMAIN NoWrite = Fields
    BY DEF NoWrite, Fields
  <1>4. Shape
    BY <1>1, <1>3 DEF Shape
  <1>5. \A a \in Agent : op[a] = NoWrite /\ op[a].pc = "idle" /\ op[a].locked = {} /\ op[a].held = <<>>
    BY <1>1 DEF NoWrite
  <1>6. Formed
    BY <1>5, NothingIsFormed DEF Formed
  <1>7. OneAtATime /\ Kept /\ Compared /\ Based
    BY <1>5 DEF OneAtATime, Kept, Keeps, Compared, Stands, Based, MadeFrom, Locking
  <1>8. Excluded
    BY <1>5, EmptyOf DEF Excluded, Strangers
  <1>9. Known
    BY <1>1, NoReadType, FileAssumption DEF Known, Knows
  <1> QED  BY <1>2, <1>4, <1>6, <1>7, <1>8, <1>9 DEF IInv

\* Every step of every agent, and every edit from outside, keeps the invariant.
LEMMA Inductive == ASSUME IInv, [Next]_vars PROVE IInv'
  <1>1. ASSUME NEW a \in Agent, NEW f \in File, ReadMissing(a, f) PROVE IInv'
    <2>1. UNCHANGED <<disk, versions, op, read, seen, told, raced>>
      BY <1>1 DEF ReadMissing
    <2> QED  BY <2>1, Still
  <1>2. ASSUME NEW a \in Agent, NEW f \in File, ReadBegin(a, f) PROVE IInv'
    BY <1>2, ReadBeginStep
  <1>3. ASSUME NEW a \in Agent, NEW f \in File, NEW v \in Content \ {Absent}, WriteBegin(a, f, v)
        PROVE  IInv'
    <2> DEFINE new == [g \in {f} |-> v]
               base == [g \in {f} |-> seen[a][f]]
    <2>1. Begin(a, "write", new, base) /\ (Obedient => f \notin told[a])
      BY <1>3 DEF WriteBegin
    <2>2. DOMAIN new = {f} /\ new[f] \in Content /\ base[f] = seen[a][f]
      OBVIOUS
    <2> HIDE DEF new, base
    <2> QED  BY <2>1, <2>2, BeginStep
  <1>4. ASSUME NEW a \in Agent, NEW f \in File, NEW v \in Content \ {Absent}, PatchBegin(a, f, v)
        PROVE  IInv'
    <2> DEFINE new == [g \in {f} |-> v]
               base == [g \in {f} |-> Absent]
    <2>1. Begin(a, "patch", new, base)
      BY <1>4 DEF PatchBegin
    <2>2. DOMAIN new = {f} /\ new[f] \in Content
      OBVIOUS
    <2> HIDE DEF new, base
    <2> QED  BY <2>1, <2>2, BeginStep
  <1>5. ASSUME NEW a \in Agent, NEW new \in [File -> Content \ {Absent}], BatchBegin(a, new)
        PROVE  IInv'
    <2> DEFINE base == [f \in DOMAIN new |-> disk[f]]
    <2>1. Begin(a, "batch", new, base)
      BY <1>5 DEF BatchBegin
    <2>2. DOMAIN new = File /\ \A f \in File : new[f] \in Content
      OBVIOUS
    <2>3. File # {}
      BY NoReadType DEF NoRead
    <2> HIDE DEF base
    <2> QED  BY <2>1, <2>2, <2>3, BeginStep
  <1>6. ASSUME NEW a \in Agent, PutError(a) PROVE IInv'
    BY <1>6, ErrorStep
  <1>7. ASSUME NEW a \in Agent, Proceed(a) PROVE IInv'
    BY <1>7, ReadDigestStep, ReadEndStep, LeaseStep, LockStep, CheckStep, FailStep, QuotaStep,
       PutStep, UndoStep, UndoErrorStep, ChargeStep, EndStep DEF Proceed
  <1>8. ASSUME NEW f \in File, NEW v \in Content, OutsideEdit(f, v) PROVE IInv'
    BY <1>8, OutsideStep
  <1>9. CASE UNCHANGED vars
    BY <1>9, Still DEF vars
  <1>10. CASE Next
    BY <1>10, <1>1, <1>2, <1>3, <1>4, <1>5, <1>6, <1>7, <1>8 DEF Next
  <1> QED  BY <1>9, <1>10

THEOREM Invariance == Spec => []IInv
  BY Initially, Inductive, PTL DEF Spec

\* Of two agents, be they siblings of one session or strangers, only one has the lock of a file, and
\* of two sessions only one has its lease (the lease store and the locks of WorkspaceService).
THEOREM FilesAreExclusive == Spec => []Excluded
  BY Invariance, PTL DEF IInv

\* No write_file replaces content that its agent did not see, when each session has one agent that
\* reads again what it could not read; nor does a patch or a batch (the versions of _path_lock).
LEMMA BasedIsCurrent == ASSUME IInv, Alone PROVE NoLostUpdate
  <1> SUFFICES ASSUME NEW a \in Agent, op[a].pc = "put", NEW f \in ToSet(op[a].rest) \ raced
               PROVE  disk[f] = op[a].base[f]
    BY DEF NoLostUpdate
  <1>1. Form(op[a]) /\ Keeps(op[a]) /\ MadeFrom(a, op[a])
    BY Busy
  <1>2. f \in ToSet(op[a].held) /\ f \in op[a].locked
    BY <1>1, LockedIsHeld DEF Form, Sequenced
  <1> QED  BY <1>1, <1>2 DEF Keeps, MadeFrom
THEOREM NothingIsLost == ASSUME Alone PROVE Spec => []NoLostUpdate
  BY Invariance, BasedIsCurrent, PTL

\* A patch replaces the content it was made from, a batch that which its proposal was merged with,
\* however many agents share the table of versions of a session.
MergesLoseNothing ==
    \A a \in Agent : op[a].kind \in {"patch", "batch"} /\ op[a].pc = "put" =>
        \A f \in ToSet(op[a].rest) \ raced : disk[f] = op[a].base[f]
LEMMA MergedIsCurrent == ASSUME IInv PROVE MergesLoseNothing
  <1> SUFFICES ASSUME NEW a \in Agent, op[a].kind \in {"patch", "batch"}, op[a].pc = "put",
                      NEW f \in ToSet(op[a].rest) \ raced
               PROVE  disk[f] = op[a].base[f]
    BY DEF MergesLoseNothing
  <1>1. Form(op[a]) /\ Keeps(op[a]) /\ MadeFrom(a, op[a])
    BY Busy
  <1>2. f \in ToSet(op[a].held) /\ f \in op[a].locked
    BY <1>1, LockedIsHeld DEF Form, Sequenced
  <1> QED  BY <1>1, <1>2 DEF Keeps, MadeFrom
THEOREM MergesAreSafe == Spec => []MergesLoseNothing
  BY Invariance, MergedIsCurrent, PTL

\* A batch that lets go of its files has written all of them, or put all of them back, when putting
\* back does not fail (write_text_batch).
LEMMA LetGoWhole == ASSUME IInv, ~UndoMayFail PROVE BatchAtomic
  <1> SUFFICES ASSUME NEW a \in Agent, op[a].kind = "batch", op[a].pc = "end",
                      NEW f \in ToSet(op[a].held) \ raced
               PROVE  /\ op[a].raised /\ op[a].old # <<>> => disk[f] = op[a].old[f]
                      /\ ~op[a].raised => disk[f] = op[a].new[f]
    BY DEF BatchAtomic
  <1>1. Form(op[a]) /\ Keeps(op[a])
    BY Busy
  <1>2. f \in op[a].locked
    BY <1>1, LockedIsHeld
  <1> QED  BY <1>1, <1>2 DEF Keeps
THEOREM BatchesAreWhole == ASSUME ~UndoMayFail PROVE Spec => []BatchAtomic
  BY Invariance, LetGoWhole, PTL
=============================================================================
