--------------------- MODULE WorkspaceTransaction_proofs ---------------------
(***************************************************************************)
(* A rewind, interrupted or not, happens completely or not at all, and its *)
(* recovery runs alone and loses no completed turn: for any number of      *)
(* sessions, processes, files and contents, of crashes, errors and editors. *)
(***************************************************************************)
EXTENDS WorkspaceTransaction, WellFoundedInduction, TLAPS

InTx == {"files", "commit", "undo"}
Exclusive == {"untraced", "check", "prepare"} \cup InTx
Recovering == {"check", "restore", "delete"}

TxFields == {"id", "session", "before", "after", "saved", "live", "cursor", "outside"}
TxShape(x) == DOMAIN x = TxFields /\ TxOK(x) /\ x.live \in BOOLEAN

\* A row about a file says what it held; one that limits recovery does not.
RowOK(row) == row.path # NoPath => row.before \in Content /\ row.after \in Content

PointType == [cursor: Nat, files: [File -> Content], foreign: SUBSET File]

RecShape(r) ==
    /\ DOMAIN r = {"pc", "queue", "at", "todo"}
    /\ r.pc \in {"none", "lease"} \cup Recovering /\ r.todo \subseteq File
    /\ \A x \in r.queue : TxShape(x)

Types ==
    /\ disk \in [File -> Content]
    /\ rows \in Seq(RowType) /\ \A i \in DOMAIN rows : RowOK(rows[i])
    /\ \A x \in txs : TxShape(x)
    /\ log \in [Session -> Nat] /\ kept \in [Session -> Nat]
    /\ points \in [Session -> Seq(PointType)]
    /\ \A s \in Session : \A k \in DOMAIN points[s] : points[s][k].cursor <= Len(rows)
    /\ lease \in [Actor -> SUBSET File] /\ up \in [Proc -> BOOLEAN]
    /\ op \in [Session -> OpType]
    /\ DOMAIN rec = Proc /\ \A p \in Proc : RecShape(rec[p])

\* What the operation of a session needs of the state it is in.
Ready(s) ==
    /\ op[s].pc \in {"write", "written"} => op[s].file \in File /\ op[s].old \in Content
    /\ op[s].pc \in {"check", "prepare"} \cup InTx => op[s].point \in DOMAIN points[s]
    /\ op[s].pc = "prepare" => ~Untraceable(s, Cursor(s))
Begun == \A s \in Session : Ready(s)

\* Which leases the actors hold, and that they exclude each other.
Leased ==
    /\ \A s \in Session :
          /\ op[s].pc = "idle" => lease[s] = {}
          /\ op[s].pc \in {"write", "written"} => lease[s] = {op[s].file}
          /\ op[s].pc \in Exclusive => lease[s] = File
          /\ ~up[ProcOf[s]] => op[s].pc = "idle"
    /\ \A p \in Proc : lease[p] = IF rec[p].pc \in Recovering THEN File ELSE {}
    /\ \A a, b \in Actor : a # b => lease[a] \cap lease[b] = {}

\* A row is live exactly while its session is in the transaction; when the session is not, its
\* process is dead, unless undoing failed.
Rowed ==
    /\ \A x, y \in txs : x.id = y.id \/ (x.live /\ y.live /\ x.session = y.session) => x = y
    /\ \A x \in txs : x.live => op[x.session].pc \in InTx
    /\ \A s \in Session : op[s].pc \in InTx => \E x \in txs : x.live /\ x.session = s
    /\ ~RollbackMayFail => \A x \in txs : ~x.live => ~up[ProcOf[x.session]]

\* How far a transaction is: what it has written, or put back, is there, but for what an editor
\* changed meanwhile.
FilesHold(x, todo, content) == \A f \in DOMAIN x.before \ (todo \cup x.outside) : disk[f] = content[f]
Progress(x, o) ==
    /\ o.pc \in {"files", "undo"} => o.todo \subseteq DOMAIN x.before
    /\ o.pc = "files" => log[x.session] = x.saved /\ FilesHold(x, o.todo, x.after)
    /\ o.pc = "commit" => log[x.session] = x.saved + 1 /\ FilesHold(x, {}, x.after)
    /\ o.pc = "undo" => FilesHold(x, o.todo, x.before)
Advanced == \A x \in txs : x.live => Progress(x, op[x.session])

\* The rows a recovery has read are those in the table, and what it put back is there.
SameTx(x, y) ==
    /\ x.id = y.id /\ x.session = y.session /\ x.saved = y.saved
    /\ x.before = y.before /\ x.after = y.after
Reads(r) ==
    /\ \A x \in txs : \E y \in r.queue : SameTx(x, y)
    /\ \A y \in r.queue : \E x \in txs : SameTx(x, y)
    /\ \A y, z \in r.queue : y.id = z.id => y = z
Restores(r) ==
    /\ r.at \in r.queue /\ r.todo \subseteq DOMAIN r.at.before
    /\ \A x \in txs : x.id = r.at.id => FilesHold(x, r.todo, x.before)
    /\ r.pc = "delete" => r.todo = {} /\ (~RollbackMayFail => log[r.at.session] = r.at.saved)
Recovered ==
    \A p \in Proc :
        /\ rec[p].pc \in Recovering => Reads(rec[p])
        /\ rec[p].pc \in {"restore", "delete"} => Restores(rec[p])

\* Records of completed turns are in what a transaction saved.
Saving ==
    ~RollbackMayFail =>
        /\ \A s \in Session : kept[s] <= log[s]
        /\ \A x \in txs : kept[x.session] <= x.saved

IInv == Types /\ Begun /\ Leased /\ Rowed /\ Advanced /\ Recovered /\ Saving

-----------------------------------------------------------------------------
(* What the leases exclude.                                                *)

\* Nobody is in a transaction, and nobody recovers one.
NoTx ==
    /\ \A s \in Session : op[s].pc \notin InTx
    /\ \A p \in Proc : rec[p].pc \notin Recovering
    /\ \A x \in txs : ~x.live

\* An actor that holds a file keeps out whoever holds the project.
LEMMA Holding ==
    ASSUME IInv, NEW a \in Actor, NEW f \in lease[a]
    PROVE  /\ \A s \in Session : op[s].pc \in Exclusive => s = a
           /\ \A p \in Proc : rec[p].pc \in Recovering => p = a
  <1>1. f \in File
    BY DEF IInv, Types
  <1>2. ASSUME NEW b \in Actor, lease[b] = File PROVE b = a
    BY <1>1, <1>2 DEF IInv, Leased
  <1>3. ASSUME NEW s \in Session, op[s].pc \in Exclusive PROVE s = a
    BY <1>2, <1>3 DEF IInv, Leased, Actor
  <1>4. ASSUME NEW p \in Proc, rec[p].pc \in Recovering PROVE p = a
    BY <1>2, <1>4 DEF IInv, Leased, Actor
  <1> QED  BY <1>3, <1>4

\* A write that is under way: nobody rewinds or recovers.
LEMMA WhileWriting ==
    ASSUME IInv, NEW s \in Session, op[s].pc \in {"write", "written"}
    PROVE  NoTx /\ \A t \in Session : op[t].pc \notin Exclusive
  <1>1. s \in Actor /\ op[s].file \in lease[s]
    BY DEF IInv, Leased, Actor
  <1>2. op[s].pc \notin Exclusive /\ \A p \in Proc : p # s
    BY TransactionAssumption DEF Exclusive, InTx
  <1>3. \A t \in Session : op[t].pc \notin Exclusive
    BY <1>1, <1>2, Holding
  <1>4. \A p \in Proc : rec[p].pc \notin Recovering
    BY <1>1, <1>2, Holding
  <1>5. \A x \in txs : ~x.live
    BY <1>3 DEF IInv, Rowed, Types, TxShape, TxOK, Exclusive
  <1> QED  BY <1>3, <1>4, <1>5 DEF NoTx, Exclusive

\* A session that has the project has it for itself.
LEMMA WhileExclusive ==
    ASSUME IInv, NEW s \in Session, op[s].pc \in Exclusive
    PROVE  /\ lease[s] = File
           /\ \A t \in Session \ {s} : op[t].pc = "idle"
           /\ \A p \in Proc : rec[p].pc \notin Recovering
           /\ \A b \in Actor \ {s} : lease[b] = {}
           /\ \A x \in txs : x.live => x.session = s
  <1>1. lease[s] = File /\ s \in Actor
    BY DEF IInv, Leased, Actor
  <1>2. \A b \in Actor \ {s} : lease[b] = {}
    BY <1>1 DEF IInv, Leased, Types
  <1>3. ASSUME NEW t \in Session \ {s} PROVE op[t].pc = "idle"
    <2>1. lease[t] = {} /\ File # {}
      BY <1>2, TransactionAssumption DEF Actor
    <2>2. op[t].pc \in {"idle", "write", "written"} \cup Exclusive
      BY DEF IInv, Types, OpType, Exclusive, InTx
    <2> QED  BY <2>1, <2>2 DEF IInv, Leased
  <1>4. ASSUME NEW p \in Proc PROVE rec[p].pc \notin Recovering
    <2>1. lease[p] = {} /\ File # {}
      BY <1>2, TransactionAssumption DEF Actor
    <2> QED  BY <2>1 DEF IInv, Leased
  <1>5. ASSUME NEW x \in txs, x.live PROVE x.session = s
    <2>1. x.session \in Session /\ op[x.session].pc # "idle"
      BY <1>5 DEF IInv, Rowed, Types, TxShape, TxOK, InTx
    <2> QED  BY <1>3, <2>1
  <1> QED  BY <1>1, <1>2, <1>3, <1>4, <1>5

\* ... and so does a recovery.
LEMMA WhileRecovering ==
    ASSUME IInv, NEW p \in Proc, rec[p].pc \in Recovering
    PROVE  /\ lease[p] = File
           /\ \A s \in Session : op[s].pc = "idle"
           /\ \A q \in Proc \ {p} : rec[q].pc \notin Recovering
           /\ \A b \in Actor \ {p} : lease[b] = {}
           /\ \A x \in txs : ~x.live
  <1>1. lease[p] = File /\ p \in Actor
    BY DEF IInv, Leased, Actor
  <1>2. \A b \in Actor \ {p} : lease[b] = {}
    BY <1>1 DEF IInv, Leased, Types
  <1>3. ASSUME NEW t \in Session PROVE op[t].pc = "idle"
    <2>1. lease[t] = {} /\ File # {}
      BY <1>2, TransactionAssumption DEF Actor
    <2>2. op[t].pc \in {"idle", "write", "written"} \cup Exclusive
      BY DEF IInv, Types, OpType, Exclusive, InTx
    <2> QED  BY <2>1, <2>2 DEF IInv, Leased
  <1>4. ASSUME NEW q \in Proc \ {p} PROVE rec[q].pc \notin Recovering
    <2>1. lease[q] = {} /\ File # {}
      BY <1>2, TransactionAssumption DEF Actor
    <2> QED  BY <2>1 DEF IInv, Leased
  <1>5. \A x \in txs : ~x.live
    BY <1>3 DEF IInv, Rowed, Types, TxShape, TxOK, InTx
  <1> QED  BY <1>1, <1>2, <1>3, <1>4, <1>5

\* A lease is granted to a session: nobody rewinds or recovers.
LEMMA WhenGranted ==
    ASSUME IInv, NEW s \in Session, op[s].pc = "idle",
           NEW files \in SUBSET File, files # {}, Free(files, s)
    PROVE  NoTx /\ \A t \in Session : op[t].pc \notin Exclusive
  <1>1. PICK f \in files : f \in File
    OBVIOUS
  <1>2. ASSUME NEW b \in Actor \ {s} PROVE lease[b] # File
    BY <1>1 DEF Free
  <1>3. \A t \in Session : op[t].pc \notin Exclusive
    <2>1. ASSUME NEW t \in Session, op[t].pc \in Exclusive PROVE FALSE
      <3>1. t # s /\ lease[t] = File
        BY <2>1 DEF IInv, Leased, Exclusive, InTx
      <3> QED  BY <1>2, <3>1 DEF Actor
    <2> QED  BY <2>1
  <1>4. \A p \in Proc : rec[p].pc \notin Recovering
    <2>1. ASSUME NEW p \in Proc, rec[p].pc \in Recovering PROVE FALSE
      <3>1. p # s /\ lease[p] = File
        BY <2>1, TransactionAssumption DEF IInv, Leased
      <3> QED  BY <1>2, <3>1 DEF Actor
    <2> QED  BY <2>1
  <1>5. \A x \in txs : ~x.live
    BY <1>3 DEF IInv, Rowed, Types, TxShape, TxOK, Exclusive
  <1> QED  BY <1>3, <1>4, <1>5 DEF NoTx, Exclusive

\* What is said of the transactions outlives every step in which there is none.
LEMMA CalmStep ==
    ASSUME IInv, NoTx, UNCHANGED <<txs, log, kept, up>>,
           \A s \in Session : op'[s].pc \notin InTx,
           \A p \in Proc : rec'[p].pc \notin Recovering
    PROVE  Rowed' /\ Advanced' /\ Recovered' /\ Saving'
  <1>1. Rowed'
    BY DEF IInv, Rowed, NoTx
  <1>2. Advanced'
    BY DEF Advanced, NoTx
  <1>3. Recovered'
    BY DEF Recovered, Recovering
  <1>4. Saving'
    BY DEF IInv, Saving
  <1> QED  BY <1>1, <1>2, <1>3, <1>4

\* A session takes, keeps or gives back a lease; the processes do not.
LEMMA LeaseMoves ==
    ASSUME IInv, NEW s \in Session, up' = up, rec' = rec, lease'[s] \subseteq File,
           \A b \in Actor \ {s} : lease'[b] = lease[b] /\ lease[b] \cap lease'[s] = {},
           \A t \in Session \ {s} : op'[t] = op[t],
           op'[s].pc = "idle" => lease'[s] = {},
           op'[s].pc \in {"write", "written"} => lease'[s] = {op'[s].file},
           op'[s].pc \in Exclusive => lease'[s] = File,
           ~up[ProcOf[s]] => op'[s].pc = "idle"
    PROVE  Leased'
  <1>1. ASSUME NEW t \in Session
        PROVE  /\ op'[t].pc = "idle" => lease'[t] = {}
               /\ op'[t].pc \in {"write", "written"} => lease'[t] = {op'[t].file}
               /\ op'[t].pc \in Exclusive => lease'[t] = File
               /\ ~up'[ProcOf[t]] => op'[t].pc = "idle"
    <2>1. CASE t = s
      BY <2>1
    <2>2. CASE t # s
      BY <2>2 DEF IInv, Leased, Actor
    <2> QED  BY <2>1, <2>2
  <1>2. ASSUME NEW p \in Proc PROVE lease'[p] = IF rec'[p].pc \in Recovering THEN File ELSE {}
    BY TransactionAssumption DEF IInv, Leased, Actor
  <1>3. ASSUME NEW a \in Actor, NEW b \in Actor, a # b PROVE lease'[a] \cap lease'[b] = {}
    BY <1>3 DEF IInv, Leased
  <1> QED  BY <1>1, <1>2, <1>3 DEF Leased

\* The points of all sessions keep their cursors.
SamePoints ==
    /\ points' \in [Session -> Seq(PointType)]
    /\ \A t \in Session :
          /\ DOMAIN points'[t] = DOMAIN points[t]
          /\ \A k \in DOMAIN points[t] : points'[t][k].cursor = points[t][k].cursor

\* ... and so they do when it is noted with them that a file changed ...
LEMMA ForeignPoints ==
    ASSUME Types, NEW a, NEW f \in File, points' = Foreign(a, f)
    PROVE  SamePoints
  <1>1. ASSUME NEW t \in Session
        PROVE  /\ points'[t] \in Seq(PointType) /\ DOMAIN points'[t] = DOMAIN points[t]
               /\ \A k \in DOMAIN points[t] : points'[t][k].cursor = points[t][k].cursor
    <2>1. CASE t = a
      BY <2>1 DEF Foreign, Types
    <2>2. CASE t # a
      <3>1. points'[t] = [k \in DOMAIN points[t] |-> [points[t][k] EXCEPT !.foreign = @ \cup {f}]]
        BY <2>2 DEF Foreign
      <3>2. /\ Len(points[t]) \in Nat /\ DOMAIN points[t] = 1 .. Len(points[t])
            /\ \A k \in DOMAIN points[t] : points[t][k] \in PointType
        BY DEF Types
      <3>3. \A k \in DOMAIN points[t] :
               points'[t][k] \in PointType /\ points'[t][k].cursor = points[t][k].cursor
        BY <3>1, <3>2 DEF PointType
      <3>4. points'[t] \in [1 .. Len(points[t]) -> PointType]
        BY <3>1, <3>2, <3>3
      <3> QED  BY <3>2, <3>3, <3>4
    <2> QED  BY <2>1, <2>2
  <1>2. points' = [t \in Session |-> points'[t]]
    BY DEF Foreign
  <1>3. points' \in [Session -> Seq(PointType)]
    BY <1>1, <1>2
  <1> QED  BY <1>1, <1>3 DEF SamePoints

\* ... or none did.
LEMMA UnchangedPoints ==
    ASSUME Types, points' = points
    PROVE  SamePoints
  BY DEF Types, SamePoints

\* A step is of no matter to a session it does not move, when the points keep their cursors, and the
\* changes that were found traceable are the ones in the table.
LEMMA StaysReady ==
    ASSUME IInv, NEW t \in Session, op'[t] = op[t], DOMAIN points'[t] = DOMAIN points[t],
           \A k \in DOMAIN points[t] : points'[t][k].cursor = points[t][k].cursor,
           rows' = rows \/ op[t].pc # "prepare"
    PROVE  Ready(t)'
  <1>1. /\ op'[t].pc \in {"write", "written"} => op'[t].file \in File /\ op'[t].old \in Content
        /\ op'[t].pc \in {"check", "prepare"} \cup InTx => op'[t].point \in DOMAIN points'[t]
    BY DEF IInv, Begun, Ready
  <1>2. ASSUME op'[t].pc = "prepare", Untraceable(t, Cursor(t))' PROVE FALSE
    <2>1. rows' = rows /\ ~Untraceable(t, Cursor(t))
          /\ points'[t][op[t].point].cursor = points[t][op[t].point].cursor
      BY <1>2 DEF IInv, Begun, Ready
    <2>2. PICK i \in OwnedChanges(t, Cursor(t))' : rows'[i].path = NoPath
      BY <1>2 DEF Untraceable
    <2>3. i \in OwnedChanges(t, Cursor(t))
      BY <2>1, <2>2 DEF OwnedChanges, Cursor
    <2> QED  BY <2>1, <2>2, <2>3 DEF Untraceable
  <1> QED  BY <1>1, <1>2 DEF Ready

\* What a session does outside its transactions, while there is none, disturbs nothing.
LEMMA CalmSession ==
    ASSUME IInv, NoTx, Types', SamePoints, NEW s \in Session, UNCHANGED <<txs, log, kept, up, rec>>,
           \A t \in Session \ {s} : op'[t] = op[t],
           op'[s].pc \notin InTx, Ready(s)',
           rows' = rows \/ \A t \in Session \ {s} : op[t].pc # "prepare",
           \A b \in Actor \ {s} : lease'[b] = lease[b] /\ lease[b] \cap lease'[s] = {},
           op'[s].pc = "idle" => lease'[s] = {},
           op'[s].pc \in {"write", "written"} => lease'[s] = {op'[s].file},
           op'[s].pc \in Exclusive => lease'[s] = File,
           up[ProcOf[s]]
    PROVE  IInv'
  <1>1. ASSUME NEW t \in Session \ {s} PROVE Ready(t)'
    BY StaysReady DEF SamePoints
  <1>2. Begun'
    BY <1>1 DEF Begun
  <1>3. Leased'
    <2>1. s \in Actor /\ lease'[s] \subseteq File
      BY DEF Types, Actor
    <2> QED  BY <2>1, LeaseMoves
  <1>4. \A t \in Session : op'[t].pc \notin InTx
    BY DEF NoTx
  <1>5. \A p \in Proc : rec'[p].pc \notin Recovering
    BY DEF NoTx
  <1>6. Rowed' /\ Advanced' /\ Recovered' /\ Saving'
    BY <1>4, <1>5, CalmStep
  <1> QED  BY <1>2, <1>3, <1>6 DEF IInv

-----------------------------------------------------------------------------
(* The steps of turns and writes.                                          *)

LEMMA CompleteTurnStep ==
    ASSUME IInv, NEW s \in Session, CompleteTurn(s)
    PROVE  IInv'
  <1> USE DEF CompleteTurn, Idle
  <1>1. Types'
    <2>1. log' \in [Session -> Nat] /\ kept' \in [Session -> Nat]
      BY DEF IInv, Types
    <2>2. points[s] \in Seq(PointType) /\ Len(rows) \in Nat
      BY DEF IInv, Types
    <2>3. [cursor |-> Len(rows), files |-> disk, foreign |-> {}] \in PointType
      BY <2>2 DEF IInv, Types, PointType
    <2>4. points'[s] = Append(points[s], [cursor |-> Len(rows), files |-> disk, foreign |-> {}])
      BY DEF IInv, Types
    <2>5. points'[s] \in Seq(PointType)
      BY <2>2, <2>3, <2>4
    <2>6. points' \in [Session -> Seq(PointType)]
      BY <2>5 DEF IInv, Types
    <2>7. ASSUME NEW t \in Session, NEW k \in DOMAIN points'[t] PROVE points'[t][k].cursor <= Len(rows)
      <3>1. CASE t = s
        BY <2>2, <2>3, <2>4, <3>1 DEF IInv, Types
      <3>2. CASE t # s
        BY <3>2 DEF IInv, Types
      <3> QED  BY <3>1, <3>2
    <2> QED  BY <2>1, <2>6, <2>7 DEF IInv, Types
  <1>2. Begun'
    <2>1. \A t \in Session \ {s} : points'[t] = points[t] /\ op'[t] = op[t]
      BY DEF IInv, Types
    <2>2. \A t \in Session \ {s} : Ready(t)'
      BY <2>1, StaysReady
    <2>3. Ready(s)'
      BY DEF Ready, InTx
    <2> QED  BY <2>2, <2>3 DEF Begun
  <1>3. Leased' /\ Rowed'
    BY DEF IInv, Leased, Rowed
  <1>4. ASSUME NEW x \in txs, x.live PROVE x.session # s
    BY <1>4 DEF IInv, Rowed, InTx
  <1>5. ASSUME NEW x \in txs, ~RollbackMayFail PROVE x.session # s
    BY <1>4, <1>5 DEF IInv, Rowed
  <1>6. \A t \in Session \ {s} : log'[t] = log[t] /\ kept'[t] = kept[t]
    BY DEF IInv, Types
  <1>7. Advanced'
    <2>1. ASSUME NEW x \in txs, x.live PROVE Progress(x, op[x.session])'
      <3>1. x.session \in Session \ {s} /\ Progress(x, op[x.session])
        BY <1>4, <2>1 DEF IInv, Advanced, Types, TxShape, TxOK
      <3> QED  BY <1>6, <3>1 DEF Progress, FilesHold
    <2> QED  BY <2>1 DEF Advanced
  <1>8. Recovered'
    <2>1. ASSUME NEW p \in Proc, rec[p].pc \in {"restore", "delete"} PROVE Restores(rec[p])'
      <3>1. Reads(rec[p]) /\ Restores(rec[p])
        BY <2>1 DEF IInv, Recovered, Recovering
      <3>2. ASSUME ~RollbackMayFail PROVE log'[rec[p].at.session] = log[rec[p].at.session]
        <4>1. PICK x \in txs : x.session = rec[p].at.session
          BY <3>1 DEF Reads, Restores, SameTx
        <4> QED  BY <1>5, <1>6, <3>2, <4>1 DEF IInv, Types, TxShape, TxOK
      <3>3. rec' = rec /\ txs' = txs /\ disk' = disk
        OBVIOUS
      <3> HIDE DEF CompleteTurn
      <3>4. rec'[p].at \in rec'[p].queue /\ rec'[p].todo \subseteq DOMAIN rec'[p].at.before
        BY <3>1, <3>3 DEF Restores
      <3>5. \A x \in txs' : x.id = rec'[p].at.id => FilesHold(x, rec[p].todo, x.before)'
        BY <3>1, <3>3 DEF Restores, FilesHold
      <3>6. rec'[p].pc = "delete" =>
               rec'[p].todo = {} /\ (~RollbackMayFail => log'[rec'[p].at.session] = rec'[p].at.saved)
        BY <3>1, <3>2, <3>3 DEF Restores
      <3> QED  BY <3>3, <3>4, <3>5, <3>6 DEF Restores
    <2>2. ASSUME NEW p \in Proc, rec[p].pc \in Recovering PROVE Reads(rec[p])'
      BY <2>2 DEF IInv, Recovered, Reads
    <2> QED  BY <2>1, <2>2 DEF Recovered
  <1>9. Saving'
    <2>1. ASSUME ~RollbackMayFail, NEW t \in Session PROVE kept'[t] <= log'[t]
      BY <2>1 DEF IInv, Saving, Types
    <2>2. ASSUME ~RollbackMayFail, NEW x \in txs PROVE kept'[x.session] <= x.saved
      BY <1>5, <1>6, <2>2 DEF IInv, Saving, Types, TxShape, TxOK
    <2> QED  BY <2>1, <2>2 DEF Saving
  <1> QED  BY <1>1, <1>2, <1>3, <1>7, <1>8, <1>9 DEF IInv

LEMMA WriteBeginStep ==
    ASSUME IInv, NEW s \in Session, NEW f \in File, WriteBegin(s, f)
    PROVE  IInv'
  <1> USE DEF WriteBegin, Idle
  <1>1. NoTx
    <2>1. {f} \in SUBSET File /\ {f} # {} /\ Free({f}, s) /\ op[s].pc = "idle"
      OBVIOUS
    <2> QED  BY <2>1, WhenGranted
  <1>2. /\ op'[s] = [pc |-> "write", file |-> f, old |-> disk[f], point |-> 0, todo |-> {}]
        /\ \A t \in Session \ {s} : op'[t] = op[t]
    BY DEF IInv, Types, Resting
  <1>3. lease'[s] = {f} /\ \A b \in Actor \ {s} : lease'[b] = lease[b] /\ lease[b] \cap {f} = {}
    BY DEF IInv, Types, Free, Actor
  <1>4. Types'
    <2>1. [Resting EXCEPT !.pc = "write", !.file = f, !.old = disk[f]] \in OpType
      BY DEF IInv, Types, OpType, Resting
    <2>2. op' \in [Session -> OpType]
      BY <2>1 DEF IInv, Types
    <2>3. lease' \in [Actor -> SUBSET File]
      BY DEF IInv, Types, Actor
    <2> QED  BY <2>2, <2>3 DEF IInv, Types
  <1>5. Ready(s)'
    BY <1>2 DEF IInv, Types, Ready, InTx
  <1>6. SamePoints
    BY UnchangedPoints DEF IInv
  <1>7. op'[s].pc \notin InTx \cup Exclusive
    BY <1>2 DEF InTx, Exclusive
  <1> QED  BY <1>1, <1>2, <1>3, <1>4, <1>5, <1>6, <1>7, CalmSession

LEMMA WriteFileStep ==
    ASSUME IInv, NEW s \in Session, NEW v \in Content, WriteFile(s, v)
    PROVE  IInv'
  <1> USE DEF WriteFile
  <1>1. NoTx /\ op[s].file \in File /\ op[s].old \in Content
    BY WhileWriting DEF IInv, Begun, Ready
  <1>2. /\ op'[s].pc = "written" /\ op'[s].file = op[s].file /\ op'[s].old = op[s].old
        /\ \A t \in Session \ {s} : op'[t] = op[t]
    BY DEF IInv, Types, OpType
  <1>3. SamePoints
    BY <1>1, ForeignPoints DEF IInv
  <1>4. Types'
    <2>1. disk' \in [File -> Content] /\ op' \in [Session -> OpType]
      BY DEF IInv, Types, OpType
    <2>2. \A t \in Session : \A k \in DOMAIN points'[t] : points'[t][k].cursor <= Len(rows)
      BY <1>3 DEF IInv, Types, SamePoints
    <2> QED  BY <1>3, <2>1, <2>2 DEF IInv, Types, SamePoints
  <1>5. Ready(s)'
    BY <1>1, <1>2 DEF Ready, InTx
  <1>6. lease'[s] = {op'[s].file} /\ up[ProcOf[s]]
    BY <1>2 DEF IInv, Leased
  <1>7. \A b \in Actor \ {s} : lease'[b] = lease[b] /\ lease[b] \cap lease'[s] = {}
    BY DEF IInv, Leased, Actor
  <1>8. op'[s].pc \notin InTx \cup Exclusive
    BY <1>2 DEF InTx, Exclusive
  <1> QED  BY <1>1, <1>2, <1>3, <1>4, <1>5, <1>6, <1>7, <1>8, CalmSession

\* One more row.
LEMMA OneMoreRow ==
    ASSUME Types, NEW row \in RowType, RowOK(row)
    PROVE  /\ Append(rows, row) \in Seq(RowType) /\ Len(rows) <= Len(Append(rows, row))
           /\ \A i \in DOMAIN Append(rows, row) : RowOK(Append(rows, row)[i])
  <1>1. rows \in Seq(RowType) /\ Len(rows) \in Nat /\ DOMAIN rows = 1 .. Len(rows)
    BY DEF Types
  <1>2. /\ Append(rows, row) \in Seq(RowType) /\ Len(Append(rows, row)) = Len(rows) + 1
        /\ DOMAIN Append(rows, row) = 1 .. Len(rows) + 1
        /\ \A i \in 1 .. Len(rows) : Append(rows, row)[i] = rows[i]
        /\ Append(rows, row)[Len(rows) + 1] = row
    BY <1>1
  <1> QED  BY <1>1, <1>2 DEF Types

\* Points stay behind the table, which does not shrink.
LEMMA BehindTheTable ==
    ASSUME Types, SamePoints, Len(rows) \in Nat, Len(rows') \in Nat, Len(rows) <= Len(rows')
    PROVE  \A t \in Session : \A k \in DOMAIN points'[t] : points'[t][k].cursor <= Len(rows')
  <1>1. ASSUME NEW t \in Session, NEW k \in DOMAIN points'[t] PROVE points'[t][k].cursor <= Len(rows')
    <2>1. points'[t][k].cursor = points[t][k].cursor /\ points[t][k].cursor <= Len(rows)
      BY DEF Types, SamePoints
    <2>2. points'[t][k] \in PointType
      <3>1. points'[t] \in Seq(PointType)
        BY DEF SamePoints
      <3> QED  BY <3>1
    <2> QED  BY <2>1, <2>2 DEF PointType
  <1> QED  BY <1>1

LEMMA WriteEndStep ==
    ASSUME IInv, NEW s \in Session, WriteEnd(s)
    PROVE  IInv'
  <1> USE DEF WriteEnd
  <1>1. /\ NoTx /\ op[s].file \in File /\ op[s].old \in Content
        /\ \A t \in Session : op[t].pc # "prepare"
    BY WhileWriting DEF IInv, Begun, Ready, Exclusive
  <1>2. /\ op'[s].pc = "idle" /\ \A t \in Session \ {s} : op'[t] = op[t]
        /\ lease'[s] = {} /\ \A b \in Actor \ {s} : lease'[b] = lease[b]
    BY DEF IInv, Types, Resting, Actor
  <1>3. SamePoints
    BY UnchangedPoints DEF IInv
  <1>4. Types'
    <2>1. Resting \in OpType /\ disk[op[s].file] \in Content
      BY <1>1 DEF IInv, Types, OpType, Resting
    <2>2. op' \in [Session -> OpType] /\ lease' \in [Actor -> SUBSET File]
      BY <2>1 DEF IInv, Types
    <2>3. ChangeRow(s, op[s].file, op[s].old, disk[op[s].file]) \in RowType
      BY <1>1, <2>1 DEF ChangeRow, RowType
    <2>4. RowOK(ChangeRow(s, op[s].file, op[s].old, disk[op[s].file]))
      BY <1>1, <2>1 DEF ChangeRow, RowOK
    <2>5. /\ rows' \in Seq(RowType) /\ Len(rows) <= Len(rows') /\ \A i \in DOMAIN rows' : RowOK(rows'[i])
          /\ Len(rows) \in Nat /\ Len(rows') \in Nat
      BY <2>3, <2>4, OneMoreRow DEF IInv, Recorded, Types
    <2>6. \A t \in Session : \A k \in DOMAIN points'[t] : points'[t][k].cursor <= Len(rows')
      BY <1>3, <2>5, BehindTheTable DEF IInv
    <2> QED  BY <2>2, <2>5, <2>6 DEF IInv, Types
  <1>5. Ready(s)'
    BY <1>2 DEF Ready, InTx
  <1>6. up[ProcOf[s]]
    BY DEF IInv, Leased
  <1>7. op'[s].pc \notin InTx \cup Exclusive
    BY <1>2 DEF InTx, Exclusive
  <1> QED  BY <1>1, <1>2, <1>3, <1>4, <1>5, <1>6, <1>7, CalmSession

\* The session keeps out whoever rewinds or recovers, and is in no transaction yet.
LEMMA BeforeTx ==
    ASSUME IInv, NEW s \in Session, op[s].pc \in {"untraced", "check", "prepare"}
    PROVE  /\ NoTx /\ up[ProcOf[s]] /\ lease[s] = File
           /\ \A t \in Session \ {s} : op[t].pc = "idle"
           /\ \A b \in Actor \ {s} : lease[b] = {}
  <1>1. op[s].pc \in Exclusive /\ op[s].pc \notin InTx /\ op[s].pc # "idle"
    BY DEF Exclusive, InTx
  <1>2. /\ lease[s] = File /\ \A t \in Session \ {s} : op[t].pc = "idle"
        /\ \A p \in Proc : rec[p].pc \notin Recovering
        /\ \A b \in Actor \ {s} : lease[b] = {}
        /\ \A x \in txs : x.live => x.session = s
    BY <1>1, WhileExclusive
  <1>3. \A x \in txs : ~x.live
    BY <1>1, <1>2 DEF IInv, Rowed
  <1>4. up[ProcOf[s]]
    BY <1>1 DEF IInv, Leased
  <1> QED  BY <1>1, <1>2, <1>3, <1>4 DEF NoTx, InTx

LEMMA UntracedBeginStep ==
    ASSUME IInv, NEW s \in Session, UntracedBegin(s)
    PROVE  IInv'
  <1> USE DEF UntracedBegin, Idle
  <1>1. NoTx /\ \A t \in Session : op[t].pc # "prepare"
    <2>1. File \in SUBSET File /\ File # {}
      BY TransactionAssumption
    <2> QED  BY <2>1, WhenGranted DEF Exclusive
  <1>2. /\ op'[s].pc = "untraced" /\ \A t \in Session \ {s} : op'[t] = op[t]
        /\ lease'[s] = File /\ \A b \in Actor \ {s} : lease'[b] = lease[b] /\ lease[b] \cap File = {}
    BY DEF IInv, Types, Resting, Free, Actor
  <1>3. SamePoints
    BY UnchangedPoints DEF IInv
  <1>4. Types'
    <2>1. [Resting EXCEPT !.pc = "untraced"] \in OpType
      BY DEF OpType, Resting
    <2>2. op' \in [Session -> OpType] /\ lease' \in [Actor -> SUBSET File]
      BY <2>1 DEF IInv, Types
    <2>3. ChangeRow(s, NoPath, None, None) \in RowType /\ RowOK(ChangeRow(s, NoPath, None, None))
      BY DEF ChangeRow, RowType, RowOK
    <2>4. /\ rows' \in Seq(RowType) /\ Len(rows) <= Len(rows') /\ \A i \in DOMAIN rows' : RowOK(rows'[i])
          /\ Len(rows) \in Nat /\ Len(rows') \in Nat
      BY <2>3, OneMoreRow DEF IInv, Types
    <2>5. \A t \in Session : \A k \in DOMAIN points'[t] : points'[t][k].cursor <= Len(rows')
      BY <1>3, <2>4, BehindTheTable DEF IInv
    <2> QED  BY <2>2, <2>4, <2>5 DEF IInv, Types
  <1>5. Ready(s)'
    BY <1>2 DEF Ready, InTx
  <1>6. op'[s].pc \notin InTx \cup {"idle", "write", "written"}
    BY <1>2 DEF InTx
  <1> QED  BY <1>1, <1>2, <1>3, <1>4, <1>5, <1>6, CalmSession

LEMMA UntracedEndStep ==
    ASSUME IInv, NEW s \in Session, UntracedEnd(s)
    PROVE  IInv'
  <1> USE DEF UntracedEnd
  <1>1. NoTx /\ up[ProcOf[s]]
    BY BeforeTx
  <1>2. /\ op'[s].pc = "idle" /\ \A t \in Session \ {s} : op'[t] = op[t]
        /\ lease'[s] = {} /\ \A b \in Actor \ {s} : lease'[b] = lease[b]
    BY DEF IInv, Types, Resting, Actor
  <1>3. PICK f \in File, v \in Content : disk' = [disk EXCEPT ![f] = v] /\ points' = Foreign(s, f)
    OBVIOUS
  <1>4. SamePoints
    BY <1>3, ForeignPoints DEF IInv
  <1>5. Types'
    <2>1. Resting \in OpType
      BY DEF OpType, Resting
    <2>2. op' \in [Session -> OpType] /\ lease' \in [Actor -> SUBSET File] /\ disk' \in [File -> Content]
      BY <1>3, <2>1 DEF IInv, Types
    <2>3. \A t \in Session : \A k \in DOMAIN points'[t] : points'[t][k].cursor <= Len(rows)
      BY <1>4 DEF IInv, Types, SamePoints
    <2> QED  BY <1>4, <2>2, <2>3 DEF IInv, Types, SamePoints
  <1>6. Ready(s)'
    BY <1>2 DEF Ready, InTx
  <1>7. op'[s].pc \notin InTx \cup Exclusive
    BY <1>2 DEF InTx, Exclusive
  <1> QED  BY <1>1, <1>2, <1>4, <1>5, <1>6, <1>7, CalmSession

-----------------------------------------------------------------------------
(* The steps of a rewind.                                                  *)

LEMMA RewindBeginStep ==
    ASSUME IInv, NEW s \in Session, NEW k, RewindBegin(s, k)
    PROVE  IInv'
  <1> USE DEF RewindBegin, Idle
  <1>1. NoTx
    <2>1. File \in SUBSET File /\ File # {}
      BY TransactionAssumption
    <2> QED  BY <2>1, WhenGranted
  <1>2. /\ op'[s].pc = "check" /\ op'[s].point = k /\ \A t \in Session \ {s} : op'[t] = op[t]
        /\ lease'[s] = File /\ \A b \in Actor \ {s} : lease'[b] = lease[b] /\ lease[b] \cap File = {}
    BY DEF IInv, Types, Resting, Free, Actor
  <1>3. SamePoints
    BY UnchangedPoints DEF IInv
  <1>4. Types'
    <2>1. k \in Nat
      <3>1. points[s] \in Seq(PointType)
        BY DEF IInv, Types
      <3> QED  BY <3>1
    <2>2. [Resting EXCEPT !.pc = "check", !.point = k] \in OpType
      BY <2>1 DEF OpType, Resting
    <2>3. op' \in [Session -> OpType] /\ lease' \in [Actor -> SUBSET File]
      BY <2>2 DEF IInv, Types
    <2> QED  BY <2>3 DEF IInv, Types
  <1>5. Ready(s)'
    BY <1>2 DEF Ready, InTx
  <1>6. op'[s].pc \notin InTx \cup {"idle", "write", "written"}
    BY <1>2 DEF InTx
  <1> QED  BY <1>1, <1>2, <1>3, <1>4, <1>5, <1>6, CalmSession

LEMMA RewindRefuseStep ==
    ASSUME IInv, NEW s \in Session, RewindRefuse(s)
    PROVE  IInv'
  <1> USE DEF RewindRefuse
  <1>1. NoTx /\ up[ProcOf[s]]
    BY BeforeTx
  <1>2. /\ op'[s].pc = "idle" /\ \A t \in Session \ {s} : op'[t] = op[t]
        /\ lease'[s] = {} /\ \A b \in Actor \ {s} : lease'[b] = lease[b]
    BY DEF IInv, Types, Resting, Actor
  <1>3. SamePoints
    BY UnchangedPoints DEF IInv
  <1>4. Types'
    <2>1. Resting \in OpType
      BY DEF OpType, Resting
    <2>2. op' \in [Session -> OpType] /\ lease' \in [Actor -> SUBSET File]
      BY <2>1 DEF IInv, Types
    <2> QED  BY <2>2 DEF IInv, Types
  <1>5. Ready(s)'
    BY <1>2 DEF Ready, InTx
  <1>6. op'[s].pc \notin InTx \cup Exclusive
    BY <1>2 DEF InTx, Exclusive
  <1> QED  BY <1>1, <1>2, <1>3, <1>4, <1>5, <1>6, CalmSession

LEMMA RewindCheckStep ==
    ASSUME IInv, NEW s \in Session, RewindCheck(s)
    PROVE  IInv'
  <1> USE DEF RewindCheck
  <1>1. /\ NoTx /\ up[ProcOf[s]] /\ lease[s] = File /\ \A b \in Actor \ {s} : lease[b] = {}
    BY BeforeTx
  <1>2. /\ op'[s].pc = "prepare" /\ op'[s].point = op[s].point
        /\ \A t \in Session \ {s} : op'[t] = op[t]
    BY DEF IInv, Types, OpType
  <1>3. SamePoints
    BY UnchangedPoints DEF IInv
  <1>4. Types'
    <2>1. op' \in [Session -> OpType]
      BY DEF IInv, Types, OpType
    <2> QED  BY <2>1 DEF IInv, Types
  <1>5. Ready(s)'
    <2>1. op'[s].point \in DOMAIN points'[s]
      BY <1>2 DEF IInv, Begun, Ready
    <2>2. ~Untraceable(s, Cursor(s))'
      <3>1. Cursor(s)' = Cursor(s) /\ rows' = rows /\ ~Untraceable(s, Cursor(s))
        BY <1>2 DEF Cursor, MayRewind
      <3> QED  BY <1>2, <3>1 DEF Untraceable, OwnedChanges, Cursor
    <2> QED  BY <1>2, <2>1, <2>2 DEF Ready
  <1>6. op'[s].pc \notin InTx \cup {"idle", "write", "written"}
    BY <1>2 DEF InTx
  <1> QED  BY <1>1, <1>2, <1>3, <1>4, <1>5, <1>6, CalmSession

\* The first change of a file is one of its changes, and none comes before it.
LEMMA FirstIsOne ==
    ASSUME NEW S \in SUBSET Nat, S # {}
    PROVE  Min(S) \in S /\ \A i \in S : Min(S) <= i
  <1> DEFINE R == OpToRel(<, Nat)
  <1>1. IsWellFoundedOn(R, Nat)
    BY NatLessThanWellFounded
  <1> HIDE DEF R
  <1>2. PICK x \in S : \A y \in S : ~(<<y, x>> \in R)
    BY <1>1, WFMin
  <1>3. R = {ss \in Nat \X Nat : ss[1] < ss[2]}
    BY Zenon DEF R, OpToRel
  <1>4. ASSUME NEW y \in S, y < x PROVE FALSE
    <2>1. <<y, x>> \in Nat \X Nat /\ <<y, x>>[1] < <<y, x>>[2]
      BY <1>4
    <2>2. <<y, x>> \in {ss \in Nat \X Nat : ss[1] < ss[2]}
      BY <2>1, Zenon
    <2> QED  BY <1>2, <1>3, <2>2, Zenon
  <1>5. \A y \in S : x <= y
    BY <1>4
  <1> QED  BY <1>5 DEF Min

\* What the rewind of a file writes is something a file may hold.
LEMMA TargetIsContent ==
    ASSUME IInv, NEW s \in Session, op[s].pc = "prepare", NEW f \in ChangedFiles(s, Cursor(s))
    PROVE  f \in File /\ Target(s, Cursor(s), f) \in Content
  <1>1. /\ rows \in Seq(RowType) /\ Len(rows) \in Nat /\ DOMAIN rows = 1 .. Len(rows)
        /\ \A i \in DOMAIN rows : RowOK(rows[i])
    BY DEF IInv, Types
  <1>2. Cursor(s) \in Nat
    <2>1. op[s].point \in DOMAIN points[s] /\ points[s] \in Seq(PointType)
      BY DEF IInv, Begun, Ready, Types
    <2>2. points[s][op[s].point] \in PointType
      BY <2>1
    <2> QED  BY <2>2 DEF Cursor, PointType
  <1>3. \A i \in OwnedChanges(s, Cursor(s)) : i \in DOMAIN rows /\ rows[i].path # NoPath
    <2>1. ~Untraceable(s, Cursor(s))
      BY DEF IInv, Begun, Ready
    <2> QED  BY <1>1, <1>2, <2>1 DEF Untraceable, OwnedChanges
  <1>4. f \in File
    <2>1. PICK i \in OwnedChanges(s, Cursor(s)) : rows[i].path = f
      BY DEF ChangedFiles
    <2>2. rows[i] \in RowType /\ rows[i].path # NoPath
      BY <1>1, <1>3, <2>1
    <2> QED  BY <2>1, <2>2 DEF RowType
  <1>5. ChangesOf(s, Cursor(s), f) \in SUBSET Nat /\ ChangesOf(s, Cursor(s), f) # {}
    BY <1>1, <1>3 DEF ChangesOf, ChangedFiles
  <1>6. Min(ChangesOf(s, Cursor(s), f)) \in ChangesOf(s, Cursor(s), f)
    BY <1>5, FirstIsOne
  <1>7. PICK i \in OwnedChanges(s, Cursor(s)) : i = Min(ChangesOf(s, Cursor(s), f))
    BY <1>6 DEF ChangesOf
  <1>8. rows[i].before \in Content
    BY <1>1, <1>3, <1>7 DEF RowOK
  <1> QED  BY <1>4, <1>7, <1>8 DEF Target

LEMMA RewindPrepareStep ==
    ASSUME IInv, NEW s \in Session, RewindPrepare(s)
    PROVE  IInv'
  <1> DEFINE files == ChangedFiles(s, Cursor(s))
  <1>1. /\ NoTx /\ up[ProcOf[s]] /\ lease[s] = File /\ \A b \in Actor \ {s} : lease[b] = {}
        /\ \A t \in Session \ {s} : op[t].pc = "idle"
    BY BeforeTx DEF RewindPrepare
  <1>2. files \in SUBSET File /\ \A f \in files : Target(s, Cursor(s), f) \in Content
    BY TargetIsContent DEF RewindPrepare
  <1>3. PICK n \in 1 .. MaxRewinds :
           /\ FreshId(n)
           /\ txs' = txs \cup
                 {[id |-> n, session |-> s,
                   before |-> [f \in files |-> disk[f]],
                   after |-> [f \in files |-> Target(s, Cursor(s), f)],
                   saved |-> Saved(s), live |-> TRUE, cursor |-> Len(rows),
                   outside |-> {}]}
    BY DEF RewindPrepare
  <1>4. op' = [op EXCEPT ![s].pc = "files", ![s].todo = files]
        /\ UNCHANGED <<disk, rows, log, kept, points, lease, up, rec, budget>>
    BY DEF RewindPrepare
  <1>5. PICK x \in txs' : /\ txs' = txs \cup {x} /\ x.id = n /\ x.session = s /\ x.live
                          /\ x.saved = log[s] /\ DOMAIN x.before = files /\ TxShape(x)
    <2> DEFINE x == [id |-> n, session |-> s,
                     before |-> [f \in files |-> disk[f]],
                     after |-> [f \in files |-> Target(s, Cursor(s), f)],
                     saved |-> Saved(s), live |-> TRUE, cursor |-> Len(rows), outside |-> {}]
    <2>1. DOMAIN x = TxFields
      BY DEF TxFields
    <2>2. log[s] \in Nat /\ \A f \in files : disk[f] \in Content
      BY <1>2 DEF IInv, Types
    <2>3. x.before \in [files -> Content] /\ x.after \in [files -> Content] /\ DOMAIN x.before = files
      BY <1>2, <2>2
    <2>4. x.session = s /\ x.saved = log[s] /\ x.live = TRUE /\ x.id = n
      BY DEF Saved
    <2>5. TxShape(x)
      BY <1>2, <2>1, <2>2, <2>3, <2>4 DEF TxShape, TxOK
    <2> QED  BY <1>3, <2>3, <2>4, <2>5
  <1>6. /\ op'[s].pc = "files" /\ op'[s].todo = files /\ op'[s].point = op[s].point
        /\ \A t \in Session \ {s} : op'[t] = op[t]
    BY <1>4 DEF IInv, Types, OpType, RewindPrepare
  <1> HIDE DEF files
  <1>7. Types'
    <2>1. op[s] \in OpType /\ op \in [Session -> OpType]
      BY DEF IInv, Types
    <2>2. [op[s] EXCEPT !.pc = "files", !.todo = files] \in OpType
      BY <1>2, <2>1 DEF OpType
    <2>3. op' \in [Session -> OpType]
      BY <1>4, <2>1, <2>2
    <2>4. \A y \in txs' : TxShape(y)
      BY <1>5 DEF IInv, Types
    <2> QED  BY <1>4, <2>3, <2>4 DEF IInv, Types
  <1>8. Begun'
    <2>1. Ready(s)'
      BY <1>4, <1>6 DEF IInv, Begun, Ready, RewindPrepare, InTx
    <2>2. ASSUME NEW t \in Session \ {s} PROVE Ready(t)'
      BY <1>1, <1>6 DEF Ready, InTx
    <2> QED  BY <2>1, <2>2 DEF Begun
  <1>9. Leased'
    <2>1. op'[s].pc \notin {"idle", "write", "written"} /\ s \in Actor
      BY <1>6 DEF Actor
    <2> QED  BY <1>1, <1>4, <1>6, <2>1, LeaseMoves
  <1>10. Rowed'
    <2>1. \A y \in txs : y.id # n /\ ~y.live
      BY <1>1, <1>3 DEF FreshId, NoTx
    <2>2. \A y, z \in txs' : y.id = z.id \/ (y.live /\ z.live /\ y.session = z.session) => y = z
      BY <1>5, <2>1 DEF IInv, Rowed
    <2>3. \A y \in txs' : y.live => op'[y.session].pc \in InTx
      BY <1>5, <1>6, <2>1 DEF InTx
    <2>4. \A t \in Session : op'[t].pc \in InTx => \E y \in txs' : y.live /\ y.session = t
      BY <1>1, <1>5, <1>6 DEF NoTx
    <2>5. ~RollbackMayFail => \A y \in txs' : ~y.live => ~up'[ProcOf[y.session]]
      BY <1>4, <1>5 DEF IInv, Rowed
    <2> QED  BY <2>2, <2>3, <2>4, <2>5 DEF Rowed
  <1>11. Advanced'
    <2>1. ASSUME NEW y \in txs', y.live PROVE Progress(y, op[y.session])'
      <3>1. y = x
        BY <1>1, <1>5, <2>1 DEF NoTx
      <3>2. DOMAIN x.before \ (files \cup x.outside) = {}
        BY <1>5
      <3> QED  BY <1>4, <1>5, <1>6, <3>1, <3>2 DEF Progress, FilesHold
    <2> QED  BY <2>1 DEF Advanced
  <1>12. Recovered'
    BY <1>1, <1>4 DEF Recovered, NoTx, Recovering
  <1>13. Saving'
    BY <1>4, <1>5 DEF IInv, Saving
  <1> QED  BY <1>7, <1>8, <1>9, <1>10, <1>11, <1>12, <1>13 DEF IInv

\* A session in its transaction: it is the only live one, and the session has the project.
LEMMA InItsTx ==
    ASSUME IInv, NEW s \in Session, op[s].pc \in InTx
    PROVE  /\ TxOf(s) \in txs /\ TxOf(s).live /\ TxOf(s).session = s /\ TxShape(TxOf(s))
           /\ \A x \in txs : x.live => x = TxOf(s)
           /\ Progress(TxOf(s), op[s])
           /\ up[ProcOf[s]] /\ lease[s] = File
           /\ \A t \in Session \ {s} : op[t].pc = "idle"
           /\ \A p \in Proc : rec[p].pc \notin Recovering
           /\ \A b \in Actor \ {s} : lease[b] = {}
  <1>1. PICK x \in txs : x.live /\ x.session = s
    BY DEF IInv, Rowed
  <1>2. TxOf(s) \in txs /\ TxOf(s).session = s /\ TxOf(s).live
    BY <1>1 DEF TxOf
  <1>3. op[s].pc \in Exclusive
    BY DEF Exclusive
  <1>4. /\ lease[s] = File
        /\ \A t \in Session \ {s} : op[t].pc = "idle"
        /\ \A p \in Proc : rec[p].pc \notin Recovering
        /\ \A b \in Actor \ {s} : lease[b] = {}
        /\ \A y \in txs : y.live => y.session = s
    BY <1>3, WhileExclusive
  <1>5. \A y \in txs : y.live => y = TxOf(s)
    BY <1>2, <1>4 DEF IInv, Rowed
  <1>6. Progress(TxOf(s), op[s]) /\ TxShape(TxOf(s))
    BY <1>2 DEF IInv, Advanced, Types
  <1>7. up[ProcOf[s]]
    BY DEF IInv, Leased, InTx
  <1> QED  BY <1>2, <1>4, <1>5, <1>6, <1>7

\* A step within the transaction: what is left to show is how far it is now.
LEMMA TxStep ==
    ASSUME IInv, Types', SamePoints, NEW s \in Session, op[s].pc \in InTx, op'[s].pc \in InTx,
           UNCHANGED <<rows, txs, kept, lease, up, rec>>,
           op'[s].point = op[s].point, \A t \in Session \ {s} : op'[t] = op[t] /\ log'[t] = log[t],
           ~RollbackMayFail => kept[s] <= log'[s],
           Progress(TxOf(s), op[s])'
    PROVE  IInv'
  <1>1. /\ TxOf(s) \in txs /\ TxOf(s).live /\ TxOf(s).session = s
        /\ \A x \in txs : x.live => x = TxOf(s)
        /\ up[ProcOf[s]] /\ lease[s] = File
        /\ \A t \in Session \ {s} : op[t].pc = "idle"
        /\ \A p \in Proc : rec[p].pc \notin Recovering
        /\ \A b \in Actor \ {s} : lease[b] = {}
    BY InItsTx
  <1>2. TxOf(s)' = TxOf(s)
    BY DEF TxOf
  <1>3. Begun'
    <2>1. Ready(s)'
      BY DEF IInv, Begun, Ready, SamePoints, InTx
    <2>2. ASSUME NEW t \in Session \ {s} PROVE Ready(t)'
      BY <1>1 DEF Ready, InTx
    <2> QED  BY <2>1, <2>2 DEF Begun
  <1>4. Leased'
    <2>1. op'[s].pc \notin {"idle", "write", "written"} /\ s \in Actor
      BY DEF Actor, InTx
    <2> QED  BY <1>1, <2>1, LeaseMoves
  <1>5. Rowed'
    BY <1>1 DEF IInv, Rowed
  <1>6. Advanced'
    BY <1>1, <1>2 DEF Advanced
  <1>7. Recovered'
    BY <1>1 DEF Recovered, Recovering
  <1>8. Saving'
    BY DEF IInv, Saving
  <1> QED  BY <1>3, <1>4, <1>5, <1>6, <1>7, <1>8 DEF IInv

LEMMA RewindFileStep ==
    ASSUME IInv, NEW s \in Session, NEW f \in File, RewindFile(s, f)
    PROVE  IInv'
  <1> USE DEF RewindFile
  <1>1. op[s].pc \in InTx
    BY DEF InTx
  <1>2. TxOf(s) \in txs /\ TxShape(TxOf(s)) /\ TxOf(s).session = s /\ Progress(TxOf(s), op[s])
    BY <1>1, InItsTx
  <1>3. /\ op'[s].pc = "files" /\ op'[s].point = op[s].point /\ op'[s].todo = op[s].todo \ {f}
        /\ \A t \in Session \ {s} : op'[t] = op[t]
    BY DEF IInv, Types, OpType
  <1>4. SamePoints
    BY ForeignPoints DEF IInv
  <1>5. TxOf(s).after[f] \in Content /\ f \in DOMAIN TxOf(s).before
    BY <1>2 DEF Progress, TxShape, TxOK
  <1>6. Types'
    <2>1. op[s] \in OpType /\ op \in [Session -> OpType]
      BY DEF IInv, Types
    <2>2. op' \in [Session -> OpType]
      BY <2>1 DEF OpType
    <2>3. disk' \in [File -> Content]
      BY <1>5 DEF IInv, Types
    <2>4. \A t \in Session : \A k \in DOMAIN points'[t] : points'[t][k].cursor <= Len(rows)
      BY <1>4 DEF IInv, Types, SamePoints
    <2> QED  BY <1>4, <2>2, <2>3, <2>4 DEF IInv, Types, SamePoints
  <1>7. TxOf(s)' = TxOf(s)
    BY DEF TxOf
  <1>8. Progress(TxOf(s), op[s])'
    <2>1. ASSUME NEW g \in DOMAIN TxOf(s).before \ (op'[s].todo \cup TxOf(s).outside)
          PROVE disk'[g] = TxOf(s).after[g]
      <3>1. g \in File
        BY <1>2 DEF TxShape, TxOK
      <3>2. CASE g = f
        BY <3>1, <3>2 DEF IInv, Types
      <3>3. CASE g # f
        <4>1. disk[g] = TxOf(s).after[g]
          BY <1>2, <1>3, <3>3 DEF Progress, FilesHold
        <4> QED  BY <3>1, <3>3, <4>1 DEF IInv, Types
      <3> QED  BY <3>2, <3>3
    <2>2. FilesHold(TxOf(s), op[s].todo, TxOf(s).after)'
      BY <1>7, <2>1 DEF FilesHold
    <2> QED  BY <1>2, <1>3, <1>7, <2>2 DEF Progress
  <1>9. op'[s].pc \in InTx
    BY <1>3 DEF InTx
  <1>10. ~RollbackMayFail => kept[s] <= log'[s]
    BY DEF IInv, Saving
  <1> QED  BY <1>1, <1>3, <1>4, <1>6, <1>8, <1>9, <1>10, TxStep

LEMMA RewindParticipantsStep ==
    ASSUME IInv, NEW s \in Session, RewindParticipants(s)
    PROVE  IInv'
  <1> USE DEF RewindParticipants
  <1>1. op[s].pc \in InTx
    BY DEF InTx
  <1>2. TxOf(s) \in txs /\ TxShape(TxOf(s)) /\ TxOf(s).session = s /\ Progress(TxOf(s), op[s])
    BY <1>1, InItsTx
  <1>3. /\ op'[s].pc = "commit" /\ op'[s].point = op[s].point
        /\ \A t \in Session \ {s} : op'[t] = op[t] /\ log'[t] = log[t]
        /\ log[s] \in Nat /\ log'[s] = log[s] + 1
    BY DEF IInv, Types, OpType
  <1>4. SamePoints
    BY UnchangedPoints DEF IInv
  <1>5. Types'
    <2>1. op[s] \in OpType /\ op \in [Session -> OpType]
      BY DEF IInv, Types
    <2>2. op' \in [Session -> OpType]
      BY <2>1 DEF OpType
    <2>3. log' \in [Session -> Nat]
      BY <1>3 DEF IInv, Types
    <2> QED  BY <2>2, <2>3 DEF IInv, Types
  <1>6. TxOf(s)' = TxOf(s)
    BY DEF TxOf
  <1>7. Progress(TxOf(s), op[s])'
    <2>1. log[s] = TxOf(s).saved /\ FilesHold(TxOf(s), {}, TxOf(s).after)
      BY <1>2 DEF Progress
    <2>2. FilesHold(TxOf(s), {}, TxOf(s).after)'
      BY <1>6, <2>1 DEF FilesHold
    <2>3. log'[s] = TxOf(s).saved + 1
      BY <1>3, <2>1
    <2> QED  BY <1>2, <1>3, <1>6, <2>2, <2>3 DEF Progress
  <1>8. op'[s].pc \in InTx
    BY <1>3 DEF InTx
  <1>9. ~RollbackMayFail => kept[s] <= log'[s]
    BY <1>3 DEF IInv, Saving, Types
  <1> QED  BY <1>1, <1>3, <1>4, <1>5, <1>7, <1>8, <1>9, TxStep

LEMMA RewindErrorStep ==
    ASSUME IInv, NEW s \in Session, RewindError(s)
    PROVE  IInv'
  <1> USE DEF RewindError
  <1>1. op[s].pc \in InTx
    BY DEF InTx
  <1>2. TxOf(s) \in txs /\ TxShape(TxOf(s)) /\ TxOf(s).session = s
    BY <1>1, InItsTx
  <1>3. /\ op'[s].pc = "undo" /\ op'[s].point = op[s].point /\ op'[s].todo = DOMAIN TxOf(s).before
        /\ \A t \in Session \ {s} : op'[t] = op[t]
    BY DEF IInv, Types, OpType
  <1>4. SamePoints
    BY UnchangedPoints DEF IInv
  <1>5. Types'
    <2>1. op[s] \in OpType /\ op \in [Session -> OpType] /\ DOMAIN TxOf(s).before \in SUBSET File
      BY <1>2 DEF IInv, Types, TxShape, TxOK
    <2>2. op' \in [Session -> OpType]
      BY <2>1 DEF OpType
    <2> QED  BY <2>2 DEF IInv, Types
  <1>6. TxOf(s)' = TxOf(s)
    BY DEF TxOf
  <1>7. Progress(TxOf(s), op[s])'
    BY <1>3, <1>6 DEF Progress, FilesHold
  <1>8. op'[s].pc \in InTx
    BY <1>3 DEF InTx
  <1>9. ~RollbackMayFail => kept[s] <= log'[s]
    BY DEF IInv, Saving
  <1> QED  BY <1>1, <1>3, <1>4, <1>5, <1>7, <1>8, <1>9, TxStep

LEMMA RollbackFileStep ==
    ASSUME IInv, NEW s \in Session, NEW f \in File, RollbackFile(s, f)
    PROVE  IInv'
  <1> USE DEF RollbackFile
  <1>1. op[s].pc \in InTx
    BY DEF InTx
  <1>2. TxOf(s) \in txs /\ TxShape(TxOf(s)) /\ TxOf(s).session = s /\ Progress(TxOf(s), op[s])
    BY <1>1, InItsTx
  <1>3. /\ op'[s].pc = "undo" /\ op'[s].point = op[s].point /\ op'[s].todo = op[s].todo \ {f}
        /\ \A t \in Session \ {s} : op'[t] = op[t]
    BY DEF IInv, Types, OpType
  <1>4. SamePoints
    BY ForeignPoints DEF IInv
  <1>5. TxOf(s).before[f] \in Content /\ f \in DOMAIN TxOf(s).before
    BY <1>2 DEF Progress, TxShape, TxOK
  <1>6. Types'
    <2>1. op[s] \in OpType /\ op \in [Session -> OpType]
      BY DEF IInv, Types
    <2>2. op' \in [Session -> OpType]
      BY <2>1 DEF OpType
    <2>3. disk' \in [File -> Content]
      BY <1>5 DEF IInv, Types
    <2>4. \A t \in Session : \A k \in DOMAIN points'[t] : points'[t][k].cursor <= Len(rows)
      BY <1>4 DEF IInv, Types, SamePoints
    <2> QED  BY <1>4, <2>2, <2>3, <2>4 DEF IInv, Types, SamePoints
  <1>7. TxOf(s)' = TxOf(s)
    BY DEF TxOf
  <1>8. Progress(TxOf(s), op[s])'
    <2>1. ASSUME NEW g \in DOMAIN TxOf(s).before \ (op'[s].todo \cup TxOf(s).outside)
          PROVE disk'[g] = TxOf(s).before[g]
      <3>1. g \in File
        BY <1>2 DEF TxShape, TxOK
      <3>2. CASE g = f
        BY <3>1, <3>2 DEF IInv, Types
      <3>3. CASE g # f
        <4>1. disk[g] = TxOf(s).before[g]
          BY <1>2, <1>3, <3>3 DEF Progress, FilesHold
        <4> QED  BY <3>1, <3>3, <4>1 DEF IInv, Types
      <3> QED  BY <3>2, <3>3
    <2>2. FilesHold(TxOf(s), op[s].todo, TxOf(s).before)'
      BY <1>7, <2>1 DEF FilesHold
    <2> QED  BY <1>2, <1>3, <1>7, <2>2 DEF Progress
  <1>9. op'[s].pc \in InTx
    BY <1>3 DEF InTx
  <1>10. ~RollbackMayFail => kept[s] <= log'[s]
    BY DEF IInv, Saving
  <1> QED  BY <1>1, <1>3, <1>4, <1>6, <1>8, <1>9, <1>10, TxStep

\* The end of a transaction, however it ends: its session is idle again, no row is live.
LEMMA TxEnds ==
    ASSUME IInv, Types', NEW s \in Session, op[s].pc \in InTx, UNCHANGED <<up, rec>>,
           op'[s].pc = "idle", \A t \in Session \ {s} : op'[t] = op[t],
           lease'[s] = {}, \A b \in Actor \ {s} : lease'[b] = lease[b],
           \A y \in txs' : ~y.live,
           \A y, z \in txs' : y.id = z.id => y = z,
           ~RollbackMayFail => \A y \in txs' : ~up[ProcOf[y.session]],
           Saving'
    PROVE  IInv'
  <1>1. /\ up[ProcOf[s]]
        /\ \A t \in Session \ {s} : op[t].pc = "idle"
        /\ \A p \in Proc : rec[p].pc \notin Recovering
    BY InItsTx
  <1>2. \A t \in Session : op'[t].pc = "idle"
    BY <1>1
  <1>3. Begun'
    BY <1>2 DEF Begun, Ready, InTx
  <1>4. Leased'
    <2>1. op'[s].pc \notin {"write", "written"} \cup Exclusive /\ s \in Actor
      BY DEF Actor, Exclusive, InTx
    <2> QED  BY <1>1, <2>1, LeaseMoves
  <1>5. Rowed'
    BY <1>2 DEF Rowed, InTx
  <1>6. Advanced'
    BY DEF Advanced
  <1>7. Recovered'
    BY <1>1 DEF Recovered, Recovering
  <1> QED  BY <1>3, <1>4, <1>5, <1>6, <1>7 DEF IInv

\* What is left in the table when the transaction of a session is taken out of it.
LEMMA TheRest ==
    ASSUME IInv, NEW s \in Session, op[s].pc \in InTx
    PROVE  \A y \in WithoutTx(TxOf(s)) :
              /\ y \in txs /\ ~y.live
              /\ ~RollbackMayFail => ~up[ProcOf[y.session]] /\ y.session # s
  <1>1. TxOf(s) \in txs /\ up[ProcOf[s]] /\ \A x \in txs : x.live => x = TxOf(s)
    BY InItsTx
  <1> QED  BY <1>1 DEF IInv, Rowed, WithoutTx

LEMMA RewindCommitStep ==
    ASSUME IInv, NEW s \in Session, RewindCommit(s)
    PROVE  IInv'
  <1> USE DEF RewindCommit
  <1>1. op[s].pc \in InTx
    BY DEF InTx
  <1>2. /\ op'[s].pc = "idle" /\ \A t \in Session \ {s} : op'[t] = op[t]
        /\ lease'[s] = {} /\ \A b \in Actor \ {s} : lease'[b] = lease[b]
    BY DEF IInv, Types, Resting, Actor
  <1>3. /\ rows \in Seq(RowType) /\ Len(rows) \in Nat /\ DOMAIN rows = 1 .. Len(rows)
        /\ \A i \in DOMAIN rows : rows[i] \in RowType /\ RowOK(rows[i])
    BY DEF IInv, Types
  <1>4. ASSUME NEW i \in DOMAIN rows PROVE rows'[i] \in RowType /\ RowOK(rows'[i])
    <2>1. /\ rows'[i] = [rows[i] EXCEPT !.reverted = @ \/ i \in OwnedChanges(s, Cursor(s))]
          /\ rows[i] \in RowType /\ RowOK(rows[i])
      BY <1>3
    <2>2. (rows[i].reverted \/ i \in OwnedChanges(s, Cursor(s))) \in BOOLEAN
      BY Zenon
    <2>3. rows'[i] \in RowType
      BY <2>1, <2>2 DEF RowType
    <2>4. rows'[i].path = rows[i].path /\ rows'[i].before = rows[i].before /\ rows'[i].after = rows[i].after
      BY <2>1 DEF RowType
    <2> QED  BY <2>1, <2>3, <2>4 DEF RowOK
  <1>5. rows' \in Seq(RowType) /\ Len(rows') = Len(rows) /\ DOMAIN rows' = DOMAIN rows
    <2>1. DOMAIN rows' = 1 .. Len(rows) /\ rows' = [i \in 1 .. Len(rows) |-> rows'[i]]
      BY <1>3
    <2>2. rows' \in [1 .. Len(rows) -> RowType]
      BY <1>3, <1>4, <2>1
    <2> QED  BY <1>3, <2>1, <2>2
  <1>6. /\ points' \in [Session -> Seq(PointType)]
        /\ \A t \in Session : \A k \in DOMAIN points'[t] : points'[t][k].cursor <= Len(rows)
    <2>1. /\ points[s] \in Seq(PointType) /\ op[s].point \in 1 .. Len(points[s]) /\ Len(points[s]) \in Nat
          /\ \A k \in DOMAIN points[s] : points[s][k].cursor <= Len(rows)
      BY <1>1 DEF IInv, Types, Begun, Ready
    <2>2. points'[s] = SubSeq(points[s], 1, op[s].point)
      BY DEF IInv, Types
    <2>3. points'[s] \in Seq(PointType) /\ \A k \in DOMAIN points'[s] :
             k \in DOMAIN points[s] /\ points'[s][k] = points[s][k]
      BY <2>1, <2>2
    <2>4. \A t \in Session \ {s} : points'[t] = points[t]
      BY DEF IInv, Types
    <2>5. points' \in [Session -> Seq(PointType)]
      BY <2>3 DEF IInv, Types
    <2>6. ASSUME NEW t \in Session, NEW k \in DOMAIN points'[t] PROVE points'[t][k].cursor <= Len(rows)
      <3>1. CASE t = s
        BY <2>1, <2>3, <2>6, <3>1
      <3>2. CASE t # s
        BY <2>4, <2>6, <3>2 DEF IInv, Types
      <3> QED  BY <3>1, <3>2
    <2> QED  BY <2>5, <2>6
  <1>7. \A y \in txs' : y \in txs /\ ~y.live
                        /\ (~RollbackMayFail => ~up[ProcOf[y.session]] /\ y.session # s)
    BY <1>1, TheRest
  <1>8. Types'
    <2>1. Resting \in OpType
      BY DEF OpType, Resting
    <2>2. op' \in [Session -> OpType] /\ lease' \in [Actor -> SUBSET File]
      BY <2>1 DEF IInv, Types
    <2>3. kept' \in [Session -> Nat]
      BY DEF IInv, Types
    <2> QED  BY <1>4, <1>5, <1>6, <1>7, <2>2, <2>3 DEF IInv, Types
  <1>9. \A y, z \in txs' : y.id = z.id => y = z
    BY <1>7 DEF IInv, Rowed
  <1>10. Saving'
    <2>1. /\ \A t \in Session \ {s} : kept'[t] = kept[t]
          /\ kept'[s] = log[s] /\ log[s] \in Nat
      BY DEF IInv, Types
    <2>2. ASSUME ~RollbackMayFail, NEW t \in Session PROVE kept'[t] <= log'[t]
      BY <2>1, <2>2 DEF IInv, Saving
    <2>3. ASSUME ~RollbackMayFail, NEW y \in txs' PROVE kept'[y.session] <= y.saved
      BY <1>7, <2>1, <2>3 DEF IInv, Saving, Types, TxShape, TxOK
    <2> QED  BY <2>2, <2>3 DEF Saving
  <1> QED  BY <1>1, <1>2, <1>7, <1>8, <1>9, <1>10, TxEnds

LEMMA RollbackDoneStep ==
    ASSUME IInv, NEW s \in Session, RollbackDone(s)
    PROVE  IInv'
  <1> USE DEF RollbackDone
  <1>1. op[s].pc \in InTx
    BY DEF InTx
  <1>2. /\ op'[s].pc = "idle" /\ \A t \in Session \ {s} : op'[t] = op[t]
        /\ lease'[s] = {} /\ \A b \in Actor \ {s} : lease'[b] = lease[b]
    BY DEF IInv, Types, Resting, Actor
  <1>3. TxOf(s) \in txs /\ TxOf(s).session = s /\ TxOf(s).saved \in Nat
    BY <1>1, InItsTx DEF TxShape, TxOK
  <1>4. \A y \in txs' : y \in txs /\ ~y.live /\ (~RollbackMayFail => ~up[ProcOf[y.session]])
    BY <1>1, TheRest
  <1>5. Types'
    <2>1. Resting \in OpType
      BY DEF OpType, Resting
    <2>2. op' \in [Session -> OpType] /\ lease' \in [Actor -> SUBSET File]
      BY <2>1 DEF IInv, Types
    <2>3. log' \in [Session -> Nat]
      BY <1>3 DEF IInv, Types
    <2> QED  BY <1>4, <2>2, <2>3 DEF IInv, Types
  <1>6. \A y, z \in txs' : y.id = z.id => y = z
    BY <1>4 DEF IInv, Rowed
  <1>7. Saving'
    <2>1. log'[s] = TxOf(s).saved /\ \A t \in Session \ {s} : log'[t] = log[t]
      BY DEF IInv, Types
    <2>2. ASSUME ~RollbackMayFail, NEW t \in Session PROVE kept'[t] <= log'[t]
      <3>1. kept[s] <= TxOf(s).saved
        BY <1>3, <2>2 DEF IInv, Saving
      <3> QED  BY <2>1, <2>2, <3>1 DEF IInv, Saving
    <2>3. ASSUME ~RollbackMayFail, NEW y \in txs' PROVE kept'[y.session] <= y.saved
      BY <1>4, <2>3 DEF IInv, Saving
    <2> QED  BY <2>2, <2>3 DEF Saving
  <1> QED  BY <1>1, <1>2, <1>4, <1>5, <1>6, <1>7, TxEnds

\* Rows that say the same, but who is in them and what an editor changed.
Variant(x, y) ==
    /\ SameTx(x, y) /\ y.cursor = x.cursor /\ x.outside \subseteq y.outside
    /\ y.live \in BOOLEAN /\ (y.live => x.live) /\ (TxShape(x) => TxShape(y))

\* The table still has the rows it had, each in a variant of its own.
Varied ==
    /\ \A x \in txs : \E y \in txs' : Variant(x, y)
    /\ \A y \in txs' : \E x \in txs : Variant(x, y)
    /\ \A y, z \in txs' : y.id = z.id => y = z

LEMMA VariedTypes ==
    ASSUME Types, Varied
    PROVE  \A y \in txs' : TxShape(y)
  BY DEF Types, Varied, Variant

LEMMA AbandonedVaries ==
    ASSUME IInv, NEW s \in Session, txs' = Abandoned(s)
    PROVE  Varied /\ \A y \in txs' : y.session = s => ~y.live
  <1>1. ASSUME NEW x \in txs PROVE Variant(x, [x EXCEPT !.live = @ /\ x.session # s])
    <2> DEFINE y == [x EXCEPT !.live = @ /\ x.session # s]
    <2>1. TxShape(x)
      BY DEF IInv, Types
    <2>2. /\ y.id = x.id /\ y.session = x.session /\ y.saved = x.saved /\ y.before = x.before
          /\ y.after = x.after /\ y.cursor = x.cursor /\ y.outside = x.outside
          /\ DOMAIN y = TxFields
      BY <2>1 DEF TxShape, TxFields
    <2>3. y.live = (x.live /\ x.session # s)
      BY <2>1 DEF TxShape, TxFields
    <2>4. TxShape(y)
      BY <2>1, <2>2, <2>3 DEF TxShape, TxOK
    <2>5. y.live \in BOOLEAN /\ (y.live => x.live)
      BY <2>3
    <2> HIDE DEF y
    <2>6. Variant(x, y)
      BY <2>2, <2>4, <2>5 DEF Variant, SameTx
    <2> QED  BY <2>6 DEF y
  <1>2. \A x \in txs : \E y \in txs' : Variant(x, y)
    BY <1>1 DEF Abandoned
  <1>3. \A y \in txs' : \E x \in txs : Variant(x, y)
    BY <1>1 DEF Abandoned
  <1>4. ASSUME NEW y \in txs', NEW z \in txs', y.id = z.id PROVE y = z
    <2>1. PICK x \in txs : y = [x EXCEPT !.live = @ /\ x.session # s]
      BY DEF Abandoned
    <2>2. PICK w \in txs : z = [w EXCEPT !.live = @ /\ w.session # s]
      BY DEF Abandoned
    <2>3. x.id = y.id /\ w.id = z.id
      BY <1>1, <2>1, <2>2 DEF Variant, SameTx
    <2>4. x = w
      BY <1>4, <2>3 DEF IInv, Rowed
    <2> QED  BY <2>1, <2>2, <2>4
  <1>5. ASSUME NEW y \in txs', y.session = s PROVE ~y.live
    <2>1. PICK x \in txs : y = [x EXCEPT !.live = @ /\ x.session # s]
      BY DEF Abandoned
    <2>2. x.session = s
      BY <1>1, <1>5, <2>1 DEF Variant, SameTx
    <2>3. "live" \in DOMAIN x
      BY DEF IInv, Types, TxShape, TxFields
    <2>4. y.live = (x.live /\ x.session # s)
      BY <2>1, <2>3
    <2> QED  BY <2>2, <2>4
  <1> QED  BY <1>2, <1>3, <1>4, <1>5 DEF Varied

LEMMA RollbackErrorStep ==
    ASSUME IInv, NEW s \in Session, RollbackError(s)
    PROVE  IInv'
  <1> USE DEF RollbackError
  <1>1. op[s].pc \in InTx
    BY DEF InTx
  <1>2. /\ op'[s].pc = "idle" /\ \A t \in Session \ {s} : op'[t] = op[t]
        /\ lease'[s] = {} /\ \A b \in Actor \ {s} : lease'[b] = lease[b]
    BY DEF IInv, Types, Resting, Actor
  <1>3. /\ TxOf(s) \in txs /\ TxOf(s).session = s /\ TxOf(s).saved \in Nat
        /\ \A x \in txs : x.live => x.session = s
    BY <1>1, InItsTx DEF TxShape, TxOK
  <1>4. Varied /\ \A y \in txs' : y.session = s => ~y.live
    BY AbandonedVaries
  <1>5. \A y \in txs' : ~y.live
    BY <1>3, <1>4 DEF Varied, Variant, SameTx
  <1>6. Types'
    <2>1. Resting \in OpType
      BY DEF OpType, Resting
    <2>2. op' \in [Session -> OpType] /\ lease' \in [Actor -> SUBSET File]
      BY <2>1 DEF IInv, Types
    <2>3. log' \in [Session -> Nat]
      BY <1>3 DEF IInv, Types
    <2>4. \A y \in txs' : TxShape(y)
      BY <1>4, VariedTypes DEF IInv
    <2> QED  BY <2>2, <2>3, <2>4 DEF IInv, Types
  <1>7. Saving'
    BY DEF Saving
  <1> QED  BY <1>1, <1>2, <1>4, <1>5, <1>6, <1>7, TxEnds DEF Varied

-----------------------------------------------------------------------------
(* Editors outside, and processes that die.                                *)

\* Points keep their cursors when files are marked in all of them.
LEMMA MarkedPoints ==
    ASSUME Types, NEW files \in SUBSET File,
           points' = [t \in Session |->
                         [k \in DOMAIN points[t] |->
                             [points[t][k] EXCEPT !.foreign = @ \cup files]]]
    PROVE  SamePoints
  <1>1. ASSUME NEW t \in Session
        PROVE  /\ points'[t] \in Seq(PointType) /\ DOMAIN points'[t] = DOMAIN points[t]
               /\ \A k \in DOMAIN points[t] : points'[t][k].cursor = points[t][k].cursor
    <2>1. points'[t] = [k \in DOMAIN points[t] |-> [points[t][k] EXCEPT !.foreign = @ \cup files]]
      OBVIOUS
    <2>2. /\ Len(points[t]) \in Nat /\ DOMAIN points[t] = 1 .. Len(points[t])
          /\ \A k \in DOMAIN points[t] : points[t][k] \in PointType
      BY DEF Types
    <2>3. \A k \in DOMAIN points[t] :
             points'[t][k] \in PointType /\ points'[t][k].cursor = points[t][k].cursor
      BY <2>1, <2>2 DEF PointType
    <2>4. points'[t] \in [1 .. Len(points[t]) -> PointType]
      BY <2>1, <2>2, <2>3
    <2>5. points'[t] \in Seq(PointType)
      <3> HIDE DEF PointType
      <3>1. \A n \in Nat : \A q \in [1 .. n -> PointType] : q \in Seq(PointType)
        OBVIOUS
      <3> QED  BY <2>2, <2>4, <3>1
    <2>6. DOMAIN points'[t] = DOMAIN points[t]
      BY <2>1
    <2> QED  BY <2>3, <2>5, <2>6
  <1>2. points' = [t \in Session |-> points'[t]]
    OBVIOUS
  <1>3. points' \in [Session -> Seq(PointType)]
    BY <1>1, <1>2
  <1> QED  BY <1>1, <1>3 DEF SamePoints

\* A recovery still has the rows it read ...
LEMMA ReadsVaried ==
    ASSUME IInv, Varied, NEW p \in Proc, Reads(rec[p]), rec'[p] = rec[p]
    PROVE  Reads(rec[p])'
  <1>1. ASSUME NEW y \in txs' PROVE \E z \in rec[p].queue : SameTx(y, z)
    <2>1. PICK x \in txs : SameTx(x, y)
      BY DEF Varied, Variant
    <2>2. PICK z \in rec[p].queue : SameTx(x, z)
      BY DEF Reads
    <2> QED  BY <2>1, <2>2 DEF SameTx
  <1>2. ASSUME NEW z \in rec[p].queue PROVE \E y \in txs' : SameTx(y, z)
    <2>1. PICK x \in txs : SameTx(x, z)
      BY DEF Reads
    <2>2. PICK y \in txs' : SameTx(x, y)
      BY DEF Varied, Variant
    <2> QED  BY <2>1, <2>2 DEF SameTx
  <1> QED  BY <1>1, <1>2 DEF Reads

\* ... and what it put back is there, but for what an editor changed.
LEMMA RestoresVaried ==
    ASSUME IInv, Varied, NEW p \in Proc, Restores(rec[p]), rec'[p] = rec[p], log' = log,
           \A f \in File : disk'[f] = disk[f] \/ \A y \in txs' : f \in y.outside
    PROVE  Restores(rec[p])'
  <1>1. ASSUME NEW y \in txs', y.id = rec[p].at.id PROVE FilesHold(y, rec[p].todo, y.before)'
    <2>1. PICK x \in txs : Variant(x, y)
      BY DEF Varied
    <2>2. x.id = y.id /\ x.before = y.before /\ x.outside \subseteq y.outside
      BY <2>1 DEF Variant, SameTx
    <2>3. FilesHold(x, rec[p].todo, x.before) /\ DOMAIN x.before \subseteq File
      BY <1>1, <2>2 DEF Restores, IInv, Types, TxShape, TxOK
    <2> QED  BY <2>2, <2>3 DEF FilesHold
  <1>2. rec'[p].at \in rec'[p].queue /\ rec'[p].todo \subseteq DOMAIN rec'[p].at.before
    BY DEF Restores
  <1>3. rec'[p].pc = "delete" =>
           rec'[p].todo = {} /\ (~RollbackMayFail => log'[rec'[p].at.session] = rec'[p].at.saved)
    BY DEF Restores
  <1> QED  BY <1>1, <1>2, <1>3 DEF Restores

\* Rows vary, processes die and take their operations with them, editors change files.
LEMMA VariedStep ==
    ASSUME IInv, Varied, UNCHANGED <<log, kept>>,
           \A f \in File : disk'[f] = disk[f] \/ \A y \in txs' : f \in y.outside,
           \A q \in Proc : up'[q] => up[q],
           \A s \in Session : IF up'[ProcOf[s]] THEN op'[s] = op[s] ELSE op'[s].pc = "idle",
           \A x \in txs, y \in txs' :
               Variant(x, y) => (y.live <=> x.live /\ up'[ProcOf[x.session]]),
           \A q \in Proc : rec'[q] = rec[q] \/ rec'[q].pc \notin Recovering
    PROVE  Rowed' /\ Advanced' /\ Recovered' /\ Saving'
  <1>1. ASSUME NEW x \in txs PROVE x.session \in Session /\ ProcOf[x.session] \in Proc
    BY TransactionAssumption DEF IInv, Types, TxShape, TxOK
  <1>2. Rowed'
    <2>1. ASSUME NEW y \in txs', NEW z \in txs', y.live, z.live, y.session = z.session PROVE y = z
      <3>1. PICK x \in txs : Variant(x, y)
        BY DEF Varied
      <3>2. PICK w \in txs : Variant(w, z)
        BY DEF Varied
      <3>3. x.live /\ w.live /\ x.session = w.session
        BY <2>1, <3>1, <3>2 DEF Variant, SameTx
      <3>4. x = w
        BY <3>3 DEF IInv, Rowed
      <3>5. y.id = z.id
        BY <3>1, <3>2, <3>4 DEF Variant, SameTx
      <3> QED  BY <3>5 DEF Varied
    <2>2. ASSUME NEW y \in txs', y.live PROVE op'[y.session].pc \in InTx
      <3>1. PICK x \in txs : Variant(x, y)
        BY DEF Varied
      <3>2. x.live /\ up'[ProcOf[x.session]] /\ x.session = y.session
        BY <2>2, <3>1 DEF Variant, SameTx
      <3> QED  BY <1>1, <3>2 DEF IInv, Rowed
    <2>3. ASSUME NEW s \in Session, op'[s].pc \in InTx PROVE \E y \in txs' : y.live /\ y.session = s
      <3>1. up'[ProcOf[s]] /\ op[s].pc \in InTx
        BY <2>3 DEF InTx
      <3>2. PICK x \in txs : x.live /\ x.session = s
        BY <3>1 DEF IInv, Rowed
      <3>3. PICK y \in txs' : Variant(x, y)
        BY DEF Varied
      <3> QED  BY <3>1, <3>2, <3>3 DEF Variant, SameTx
    <2>4. ASSUME ~RollbackMayFail, NEW y \in txs', ~y.live PROVE ~up'[ProcOf[y.session]]
      <3>1. PICK x \in txs : Variant(x, y)
        BY DEF Varied
      <3>2. x.session = y.session /\ ~(x.live /\ up'[ProcOf[x.session]])
        BY <2>4, <3>1 DEF Variant, SameTx
      <3> QED  BY <1>1, <2>4, <3>2 DEF IInv, Rowed
    <2> QED  BY <2>1, <2>2, <2>3, <2>4 DEF Rowed, Varied
  <1>3. Advanced'
    <2>1. ASSUME NEW y \in txs', y.live PROVE Progress(y, op[y.session])'
      <3>1. PICK x \in txs : Variant(x, y)
        BY DEF Varied
      <3>2. x.live /\ up'[ProcOf[x.session]]
        BY <2>1, <3>1
      <3>3. /\ x.session = y.session /\ x.saved = y.saved /\ x.before = y.before /\ x.after = y.after
            /\ x.outside \subseteq y.outside
        BY <3>1 DEF Variant, SameTx
      <3>4. Progress(x, op[x.session]) /\ op'[x.session] = op[x.session] /\ DOMAIN x.before \subseteq File
        BY <1>1, <3>2 DEF IInv, Advanced, Types, TxShape, TxOK
      <3>5. ASSUME NEW todo, FilesHold(x, todo, x.after) PROVE FilesHold(y, todo, y.after)'
        BY <3>3, <3>4, <3>5 DEF FilesHold
      <3>6. ASSUME NEW todo, FilesHold(x, todo, x.before) PROVE FilesHold(y, todo, y.before)'
        BY <3>3, <3>4, <3>6 DEF FilesHold
      <3>7. op'[y.session].pc \in {"files", "undo"} => op'[y.session].todo \subseteq DOMAIN y.before
        BY <3>3, <3>4 DEF Progress
      <3>8. op'[y.session].pc = "files" =>
               log'[y.session] = y.saved /\ FilesHold(y, op[y.session].todo, y.after)'
        BY <3>3, <3>4, <3>5 DEF Progress
      <3>9. op'[y.session].pc = "commit" =>
               log'[y.session] = y.saved + 1 /\ FilesHold(y, {}, y.after)'
        BY <3>3, <3>4, <3>5 DEF Progress
      <3>10. op'[y.session].pc = "undo" => FilesHold(y, op[y.session].todo, y.before)'
        BY <3>3, <3>4, <3>6 DEF Progress
      <3> QED  BY <3>7, <3>8, <3>9, <3>10 DEF Progress
    <2> QED  BY <2>1 DEF Advanced
  <1>4. Recovered'
    BY ReadsVaried, RestoresVaried DEF IInv, Recovered, Recovering
  <1>5. Saving'
    <2>1. ASSUME ~RollbackMayFail, NEW y \in txs' PROVE kept'[y.session] <= y.saved
      BY <2>1 DEF IInv, Saving, Varied, Variant, SameTx
    <2> QED  BY <2>1 DEF IInv, Saving
  <1> QED  BY <1>2, <1>3, <1>4, <1>5

LEMMA OutsideEditStep ==
    ASSUME IInv, NEW f \in File, NEW v \in Content, OutsideEdit(f, v)
    PROVE  IInv'
  <1> USE DEF OutsideEdit
  <1>1. ASSUME NEW x \in txs
        PROVE  LET y == [x EXCEPT !.outside = @ \cup {f}]
               IN  Variant(x, y) /\ f \in y.outside /\ y.live = x.live
    <2> DEFINE y == [x EXCEPT !.outside = @ \cup {f}]
    <2>1. TxShape(x)
      BY DEF IInv, Types
    <2>2. /\ y.id = x.id /\ y.session = x.session /\ y.saved = x.saved /\ y.before = x.before
          /\ y.after = x.after /\ y.cursor = x.cursor /\ y.live = x.live /\ DOMAIN y = TxFields
      BY <2>1 DEF TxShape, TxFields
    <2>3. y.outside = x.outside \cup {f}
      BY <2>1 DEF TxShape, TxFields
    <2>4. TxShape(y) /\ y.live \in BOOLEAN
      BY <2>1, <2>2 DEF TxShape, TxOK
    <2> HIDE DEF y
    <2>5. Variant(x, y) /\ f \in y.outside /\ y.live = x.live
      BY <2>2, <2>3, <2>4 DEF Variant, SameTx
    <2> QED  BY <2>5 DEF y
  <1>2. \A y \in txs' : \E x \in txs : y = [x EXCEPT !.outside = @ \cup {f}]
    OBVIOUS
  <1>3. Varied
    <2>1. ASSUME NEW y \in txs', NEW z \in txs', y.id = z.id PROVE y = z
      <3>1. PICK x \in txs : y = [x EXCEPT !.outside = @ \cup {f}]
        BY <1>2
      <3>2. PICK w \in txs : z = [w EXCEPT !.outside = @ \cup {f}]
        BY <1>2
      <3>3. x.id = y.id /\ w.id = z.id
        BY <1>1, <3>1, <3>2 DEF Variant, SameTx
      <3>4. x = w
        BY <2>1, <3>3 DEF IInv, Rowed
      <3> QED  BY <3>1, <3>2, <3>4
    <2>2. \A x \in txs : \E y \in txs' : Variant(x, y)
      BY <1>1
    <2>3. \A y \in txs' : \E x \in txs : Variant(x, y)
      BY <1>1, <1>2
    <2> QED  BY <2>1, <2>2, <2>3 DEF Varied
  <1>4. ASSUME NEW x \in txs, NEW y \in txs', Variant(x, y)
        PROVE  y.live <=> x.live /\ up'[ProcOf[x.session]]
    <2>1. PICK w \in txs : y = [w EXCEPT !.outside = @ \cup {f}]
      BY <1>2
    <2>2. w.id = y.id /\ y.live = w.live
      BY <1>1, <2>1 DEF Variant, SameTx
    <2>3. w = x
      BY <1>4, <2>2 DEF Variant, SameTx, IInv, Rowed
    <2>4. x.live => up[ProcOf[x.session]]
      BY DEF IInv, Rowed, Leased, Types, TxShape, TxOK, InTx
    <2> QED  BY <2>2, <2>3, <2>4
  <1>5. SamePoints
    BY ForeignPoints DEF IInv
  <1>6. Types'
    <2>1. disk' \in [File -> Content] /\ \A y \in txs' : TxShape(y)
      BY <1>3, VariedTypes DEF IInv, Types
    <2>2. \A t \in Session : \A k \in DOMAIN points'[t] : points'[t][k].cursor <= Len(rows)
      BY <1>5 DEF IInv, Types, SamePoints
    <2> QED  BY <1>5, <2>1, <2>2 DEF IInv, Types, SamePoints
  <1>7. Begun'
    <2>1. ASSUME NEW t \in Session PROVE Ready(t)'
      BY <1>5, StaysReady DEF SamePoints
    <2> QED  BY <2>1 DEF Begun
  <1>8. Leased'
    BY DEF IInv, Leased
  <1>9. \A g \in File : disk'[g] = disk[g] \/ \A y \in txs' : g \in y.outside
    <2>1. \A g \in File \ {f} : disk'[g] = disk[g]
      BY DEF IInv, Types
    <2>2. \A y \in txs' : f \in y.outside
      BY <1>1, <1>2
    <2> QED  BY <2>1, <2>2
  <1>10. \A s \in Session : IF up'[ProcOf[s]] THEN op'[s] = op[s] ELSE op'[s].pc = "idle"
    BY DEF IInv, Leased
  <1>11. Rowed' /\ Advanced' /\ Recovered' /\ Saving'
    <2>1. UNCHANGED <<log, kept, up, rec>>
      OBVIOUS
    <2> HIDE DEF OutsideEdit
    <2> QED  BY <1>3, <1>4, <1>9, <1>10, <2>1, VariedStep
  <1> QED  BY <1>6, <1>7, <1>8, <1>11 DEF IInv

LEMMA CrashStep ==
    ASSUME IInv, NEW p \in Proc, Crash(p)
    PROVE  IInv'
  <1> DEFINE lost == {op[s].file : s \in {t \in Session : ProcOf[t] = p /\ op[t].pc = "written"}}
  <1>1. /\ up' = [up EXCEPT ![p] = FALSE]
        /\ lease' = [a \in Actor |->
                        IF a = p \/ (a \in Session /\ ProcOf[a] = p) THEN {} ELSE lease[a]]
        /\ op' = [s \in Session |-> IF ProcOf[s] = p THEN Resting ELSE op[s]]
        /\ rec' = [rec EXCEPT ![p] = NotRecovering]
        /\ txs' = {[x EXCEPT !.live = @ /\ ProcOf[x.session] # p] : x \in txs}
        /\ points' = [t \in Session |->
                        [k \in DOMAIN points[t] |->
                            [points[t][k] EXCEPT !.foreign = @ \cup lost]]]
        /\ UNCHANGED <<disk, rows, log, kept>>
    BY DEF Crash
  <1>2. lost \in SUBSET File
    BY DEF IInv, Begun, Ready
  <1> HIDE DEF lost
  <1>3. SamePoints
    BY <1>1, <1>2, MarkedPoints DEF IInv
  <1>4. ASSUME NEW x \in txs
        PROVE  LET y == [x EXCEPT !.live = @ /\ ProcOf[x.session] # p]
               IN  Variant(x, y) /\ (y.live <=> x.live /\ ProcOf[x.session] # p)
    <2> DEFINE y == [x EXCEPT !.live = @ /\ ProcOf[x.session] # p]
    <2>1. TxShape(x)
      BY DEF IInv, Types
    <2>2. /\ y.id = x.id /\ y.session = x.session /\ y.saved = x.saved /\ y.before = x.before
          /\ y.after = x.after /\ y.cursor = x.cursor /\ y.outside = x.outside /\ DOMAIN y = TxFields
      BY <2>1 DEF TxShape, TxFields
    <2>3. y.live = (x.live /\ ProcOf[x.session] # p)
      BY <2>1 DEF TxShape, TxFields
    <2>4. y.live \in BOOLEAN /\ (y.live <=> x.live /\ ProcOf[x.session] # p)
      BY <2>3
    <2>5. TxShape(y)
      BY <2>1, <2>2, <2>4 DEF TxShape, TxOK
    <2> HIDE DEF y
    <2>6. Variant(x, y) /\ (y.live <=> x.live /\ ProcOf[x.session] # p)
      BY <2>2, <2>4, <2>5 DEF Variant, SameTx
    <2> QED  BY <2>6 DEF y
  <1>5. \A y \in txs' : \E x \in txs : y = [x EXCEPT !.live = @ /\ ProcOf[x.session] # p]
    BY <1>1
  <1>6. Varied
    <2>1. ASSUME NEW y \in txs', NEW z \in txs', y.id = z.id PROVE y = z
      <3>1. PICK x \in txs : y = [x EXCEPT !.live = @ /\ ProcOf[x.session] # p]
        BY <1>5
      <3>2. PICK w \in txs : z = [w EXCEPT !.live = @ /\ ProcOf[w.session] # p]
        BY <1>5
      <3>3. x.id = y.id /\ w.id = z.id
        BY <1>4, <3>1, <3>2 DEF Variant, SameTx
      <3>4. x = w
        BY <2>1, <3>3 DEF IInv, Rowed
      <3> QED  BY <3>1, <3>2, <3>4
    <2>2. ASSUME NEW x \in txs PROVE \E y \in txs' : Variant(x, y)
      <3>1. [x EXCEPT !.live = @ /\ ProcOf[x.session] # p] \in txs'
        BY <1>1
      <3> QED  BY <1>4, <3>1
    <2>3. \A y \in txs' : \E x \in txs : Variant(x, y)
      BY <1>4, <1>5
    <2> QED  BY <2>1, <2>2, <2>3 DEF Varied
  <1>7. \A q \in Proc : up'[q] <=> up[q] /\ q # p
    BY <1>1 DEF IInv, Types
  <1>8. ASSUME NEW x \in txs, NEW y \in txs', Variant(x, y)
        PROVE  y.live <=> x.live /\ up'[ProcOf[x.session]]
    <2>1. PICK w \in txs : y = [w EXCEPT !.live = @ /\ ProcOf[w.session] # p]
      BY <1>5
    <2>2. w.id = y.id /\ (y.live <=> w.live /\ ProcOf[w.session] # p)
      BY <1>4, <2>1 DEF Variant, SameTx
    <2>3. w = x
      BY <1>8, <2>2 DEF Variant, SameTx, IInv, Rowed
    <2>4. x.session \in Session /\ ProcOf[x.session] \in Proc
      BY TransactionAssumption DEF IInv, Types, TxShape, TxOK
    <2>5. x.live => up[ProcOf[x.session]]
      BY <2>4 DEF IInv, Rowed, Leased, InTx
    <2> QED  BY <1>7, <2>2, <2>3, <2>4, <2>5
  <1>9. Types'
    <2>1. Resting \in OpType
      BY DEF OpType, Resting
    <2>2. op' \in [Session -> OpType] /\ lease' \in [Actor -> SUBSET File] /\ up' \in [Proc -> BOOLEAN]
      BY <1>1, <2>1 DEF IInv, Types
    <2>3. RecShape(NotRecovering)
      BY DEF RecShape, NotRecovering
    <2>4. DOMAIN rec' = Proc /\ \A q \in Proc : RecShape(rec'[q])
      BY <1>1, <2>3 DEF IInv, Types
    <2>5. \A y \in txs' : TxShape(y)
      BY <1>6, VariedTypes DEF IInv
    <2>6. \A t \in Session : \A k \in DOMAIN points'[t] : points'[t][k].cursor <= Len(rows)
      BY <1>3 DEF IInv, Types, SamePoints
    <2> QED  BY <1>1, <1>3, <2>2, <2>4, <2>5, <2>6 DEF IInv, Types, SamePoints
  <1>10. ASSUME NEW s \in Session
         PROVE  IF up'[ProcOf[s]] THEN op'[s] = op[s] ELSE op'[s].pc = "idle"
    BY <1>1, <1>7, TransactionAssumption DEF IInv, Leased, Resting
  <1>11. Begun'
    <2>1. ASSUME NEW t \in Session PROVE Ready(t)'
      <3>1. CASE ProcOf[t] = p
        BY <1>1, <3>1 DEF Ready, InTx, Resting
      <3>2. CASE ProcOf[t] # p
        BY <1>1, <1>3, <3>2, StaysReady DEF SamePoints
      <3> QED  BY <3>1, <3>2
    <2> QED  BY <2>1 DEF Begun
  <1>12. Leased'
    <2>1. ASSUME NEW s \in Session
          PROVE  /\ op'[s].pc = "idle" => lease'[s] = {}
                 /\ op'[s].pc \in {"write", "written"} => lease'[s] = {op'[s].file}
                 /\ op'[s].pc \in Exclusive => lease'[s] = File
                 /\ ~up'[ProcOf[s]] => op'[s].pc = "idle"
      <3>1. CASE ProcOf[s] = p
        BY <1>1, <3>1 DEF Actor, Resting, Exclusive, InTx
      <3>2. CASE ProcOf[s] # p
        <4>1. op'[s] = op[s] /\ lease'[s] = lease[s]
          BY <1>1, <3>2, TransactionAssumption DEF Actor
        <4> QED  BY <1>10, <4>1 DEF IInv, Leased
      <3> QED  BY <3>1, <3>2
    <2>2. ASSUME NEW q \in Proc PROVE lease'[q] = IF rec'[q].pc \in Recovering THEN File ELSE {}
      <3>1. CASE q = p
        BY <1>1, <3>1 DEF Actor, NotRecovering, Recovering, IInv, Types
      <3>2. CASE q # p
        <4>1. lease'[q] = lease[q] /\ rec'[q] = rec[q]
          BY <1>1, <3>2, TransactionAssumption DEF Actor, IInv, Types
        <4> QED  BY <4>1 DEF IInv, Leased
      <3> QED  BY <3>1, <3>2
    <2>3. ASSUME NEW a \in Actor, NEW b \in Actor, a # b PROVE lease'[a] \cap lease'[b] = {}
      <3>1. (lease'[a] = lease[a] \/ lease'[a] = {}) /\ (lease'[b] = lease[b] \/ lease'[b] = {})
        BY <1>1
      <3> QED  BY <2>3, <3>1 DEF IInv, Leased
    <2> QED  BY <2>1, <2>2, <2>3 DEF Leased
  <1>13. \A q \in Proc : rec'[q] = rec[q] \/ rec'[q].pc \notin Recovering
    BY <1>1 DEF IInv, Types, NotRecovering, Recovering
  <1>14. Rowed' /\ Advanced' /\ Recovered' /\ Saving'
    <2>1. /\ UNCHANGED <<log, kept>> /\ \A f \in File : disk'[f] = disk[f]
          /\ \A q \in Proc : up'[q] => up[q]
      BY <1>1, <1>7
    <2> QED  BY <1>6, <1>8, <1>10, <1>13, <2>1, VariedStep
  <1> QED  BY <1>9, <1>11, <1>12, <1>14 DEF IInv

-----------------------------------------------------------------------------
(* Coordinators are constructed and recover.                               *)

\* Nobody but this coordinator is at work on the files.
Alone(p) ==
    /\ \A s \in Session : op[s].pc = "idle"
    /\ \A q \in Proc \ {p} : rec[q].pc \notin Recovering
    /\ \A b \in Actor \ {p} : lease[b] = {}
    /\ \A x \in txs : ~x.live

\* What a coordinator does while it is alone: what is left to show is its own part.
LEMMA AloneStep ==
    ASSUME IInv, Types', SamePoints, NEW p \in Proc, Alone(p), op' = op,
           \A q \in Proc \ {p} : rec'[q] = rec[q],
           \A b \in Actor \ {p} : lease'[b] = lease[b],
           lease'[p] = IF rec'[p].pc \in Recovering THEN File ELSE {},
           txs' \subseteq txs, up' = up \/ txs' = {},
           rec'[p].pc \in Recovering => Reads(rec[p])',
           rec'[p].pc \in {"restore", "delete"} => Restores(rec[p])',
           Saving'
    PROVE  IInv'
  <1>1. Begun'
    BY DEF Begun, Ready, InTx, Alone
  <1>2. Leased'
    <2>1. \A s \in Session : s # p /\ lease'[s] = {} /\ op'[s].pc = "idle"
      BY TransactionAssumption DEF Alone, Actor
    <2>2. \A q \in Proc : lease'[q] = IF rec'[q].pc \in Recovering THEN File ELSE {}
      BY DEF IInv, Leased, Actor
    <2>3. \A b \in Actor \ {p} : lease'[b] = {}
      BY DEF Alone
    <2>4. \A a, b \in Actor : a # b => lease'[a] \cap lease'[b] = {}
      BY <2>3
    <2>5. \A s \in Session : op'[s].pc \notin {"write", "written"} \cup Exclusive
      BY <2>1 DEF Exclusive, InTx
    <2> QED  BY <2>1, <2>2, <2>4, <2>5 DEF Leased
  <1>3. Rowed'
    BY DEF IInv, Rowed, Alone, InTx
  <1>4. Advanced'
    BY DEF Advanced, Alone
  <1>5. Recovered'
    BY DEF Recovered, Alone, Recovering
  <1> QED  BY <1>1, <1>2, <1>3, <1>4, <1>5 DEF IInv

LEMMA RecoveringIsAlone ==
    ASSUME IInv, NEW p \in Proc, rec[p].pc \in Recovering
    PROVE  Alone(p) /\ Reads(rec[p]) /\ lease[p] = File
  BY WhileRecovering DEF IInv, Recovered, Alone

LEMMA OpenCleanStep ==
    ASSUME IInv, NEW p \in Proc, OpenClean(p)
    PROVE  IInv'
  <1> USE DEF OpenClean
  <1>1. Types'
    <2>1. up' \in [Proc -> BOOLEAN]
      BY DEF IInv, Types
    <2> QED  BY <2>1 DEF IInv, Types
  <1>2. \A q \in Proc : up[q] => up'[q]
    BY DEF IInv, Types
  <1>3. Begun'
    BY DEF IInv, Begun, Ready, Untraceable, OwnedChanges, Cursor
  <1>4. Leased'
    BY <1>2, TransactionAssumption DEF IInv, Leased
  <1>5. Rowed' /\ Advanced' /\ Recovered' /\ Saving'
    <2>1. Rowed'
      BY DEF IInv, Rowed
    <2>2. Recovered'
      BY DEF IInv, Recovered, Reads, Restores
    <2> QED  BY <2>1, <2>2 DEF IInv, Advanced, Saving
  <1> QED  BY <1>1, <1>3, <1>4, <1>5 DEF IInv

LEMMA OpenPendingStep ==
    ASSUME IInv, NEW p \in Proc, OpenPending(p)
    PROVE  IInv'
  <1> USE DEF OpenPending
  <1>1. /\ rec'[p].pc = "lease" /\ \A q \in Proc \ {p} : rec'[q] = rec[q]
        /\ RecShape(rec'[p]) /\ DOMAIN rec' = Proc
    BY DEF IInv, Types, RecShape
  <1>2. Types'
    BY <1>1 DEF IInv, Types
  <1>3. Begun'
    BY DEF IInv, Begun, Ready, Untraceable, OwnedChanges, Cursor
  <1>4. Leased'
    BY <1>1 DEF IInv, Leased, Recovering
  <1>5. Rowed' /\ Advanced' /\ Saving'
    BY DEF IInv, Rowed, Advanced, Progress, FilesHold, Saving
  <1>6. Recovered'
    <2>1. ASSUME NEW q \in Proc \ {p}, rec[q].pc \in Recovering PROVE Reads(rec[q])'
      BY <1>1, <2>1 DEF IInv, Recovered, Reads
    <2>2. ASSUME NEW q \in Proc \ {p}, rec[q].pc \in {"restore", "delete"} PROVE Restores(rec[q])'
      BY <1>1, <2>2 DEF IInv, Recovered, Restores, FilesHold
    <2> QED  BY <1>1, <2>1, <2>2 DEF Recovered, Recovering
  <1> QED  BY <1>2, <1>3, <1>4, <1>5, <1>6 DEF IInv

LEMMA RecoverLeaseStep ==
    ASSUME IInv, NEW p \in Proc, RecoverLease(p)
    PROVE  IInv'
  <1> USE DEF RecoverLease
  <1>1. \A b \in Actor \ {p} : lease[b] = {}
    BY DEF IInv, Types, Free
  <1>2. Alone(p)
    <2>1. ASSUME NEW s \in Session PROVE op[s].pc = "idle"
      <3>1. lease[s] = {} /\ File # {}
        BY <1>1, TransactionAssumption DEF Actor
      <3>2. op[s].pc \in {"idle", "write", "written"} \cup Exclusive
        BY DEF IInv, Types, OpType, Exclusive, InTx
      <3> QED  BY <3>1, <3>2 DEF IInv, Leased
    <2>2. ASSUME NEW q \in Proc \ {p} PROVE rec[q].pc \notin Recovering
      <3>1. lease[q] = {} /\ File # {}
        BY <1>1, TransactionAssumption DEF Actor
      <3> QED  BY <3>1 DEF IInv, Leased
    <2>3. \A x \in txs : ~x.live
      BY <2>1 DEF IInv, Rowed, Types, TxShape, TxOK, InTx
    <2> QED  BY <1>1, <2>1, <2>2, <2>3 DEF Alone
  <1>3. /\ rec'[p].pc = "check" /\ rec'[p].queue = txs /\ rec'[p].todo = rec[p].todo
        /\ DOMAIN rec'[p] = DOMAIN rec[p] /\ DOMAIN rec' = Proc
        /\ \A q \in Proc \ {p} : rec'[q] = rec[q]
    BY DEF IInv, Types, RecShape
  <1>4. p \in Actor /\ lease'[p] = File /\ \A b \in Actor \ {p} : lease'[b] = lease[b]
    BY DEF IInv, Types, Actor
  <1>5. SamePoints
    BY UnchangedPoints DEF IInv
  <1>6. Types'
    <2>1. RecShape(rec'[p])
      BY <1>3 DEF IInv, Types, RecShape, Recovering
    <2>2. lease' \in [Actor -> SUBSET File]
      BY DEF IInv, Types
    <2> QED  BY <1>3, <2>1, <2>2 DEF IInv, Types
  <1>7. Reads(rec[p])'
    BY <1>3 DEF Reads, SameTx, IInv, Rowed
  <1>8. Saving'
    BY DEF IInv, Saving
  <1>9. rec'[p].pc \in Recovering /\ rec'[p].pc \notin {"restore", "delete"}
    BY <1>3 DEF Recovering
  <1> QED  BY <1>2, <1>3, <1>4, <1>5, <1>6, <1>7, <1>8, <1>9, AloneStep

LEMMA RecoverRefuseStep ==
    ASSUME IInv, NEW p \in Proc, RecoverRefuse(p)
    PROVE  IInv'
  <1> USE DEF RecoverRefuse
  <1>1. Alone(p)
    BY RecoveringIsAlone DEF Recovering
  <1>2. /\ rec'[p] = NotRecovering /\ DOMAIN rec' = Proc /\ \A q \in Proc \ {p} : rec'[q] = rec[q]
        /\ lease'[p] = {} /\ \A b \in Actor \ {p} : lease'[b] = lease[b]
    BY DEF IInv, Types, Actor
  <1>3. rec'[p].pc \notin Recovering /\ rec'[p].pc \notin {"restore", "delete"} /\ RecShape(rec'[p])
    BY <1>2 DEF NotRecovering, Recovering, RecShape
  <1>4. Types'
    <2>1. lease' \in [Actor -> SUBSET File]
      BY DEF IInv, Types
    <2> QED  BY <1>2, <1>3, <2>1 DEF IInv, Types
  <1>5. SamePoints
    BY UnchangedPoints DEF IInv
  <1>6. Saving'
    BY DEF IInv, Saving
  <1> QED  BY <1>1, <1>2, <1>3, <1>4, <1>5, <1>6, AloneStep

LEMMA RecoverCheckStep ==
    ASSUME IInv, NEW p \in Proc, RecoverCheck(p)
    PROVE  IInv'
  <1> USE DEF RecoverCheck
  <1>1. Alone(p) /\ Reads(rec[p]) /\ lease[p] = File
    BY RecoveringIsAlone DEF Recovering
  <1>2. PICK x \in rec[p].queue :
           rec' = [rec EXCEPT ![p].pc = "restore", ![p].at = x, ![p].todo = DOMAIN x.before]
    OBVIOUS
  <1>3. /\ rec'[p].pc = "restore" /\ rec'[p].queue = rec[p].queue /\ rec'[p].at = x
        /\ rec'[p].todo = DOMAIN x.before /\ DOMAIN rec'[p] = DOMAIN rec[p]
        /\ DOMAIN rec' = Proc /\ \A q \in Proc \ {p} : rec'[q] = rec[q]
    BY <1>2 DEF IInv, Types, RecShape
  <1>4. TxShape(x)
    BY DEF IInv, Types, RecShape
  <1>5. Types'
    <2>1. RecShape(rec'[p])
      BY <1>3, <1>4 DEF IInv, Types, RecShape, Recovering, TxShape, TxOK
    <2> QED  BY <1>3, <2>1 DEF IInv, Types
  <1>6. SamePoints
    BY UnchangedPoints DEF IInv
  <1>7. Reads(rec[p])'
    BY <1>1, <1>3 DEF Reads
  <1>8. Restores(rec[p])'
    <2>1. ASSUME NEW y \in txs, y.id = x.id PROVE y.before = x.before
      BY <1>1, <2>1 DEF Reads, SameTx
    <2> QED  BY <1>3, <2>1 DEF Restores, FilesHold
  <1>9. Saving'
    BY DEF IInv, Saving
  <1>10. rec'[p].pc \in Recovering
    BY <1>3 DEF Recovering
  <1> QED  BY <1>1, <1>3, <1>5, <1>6, <1>7, <1>8, <1>9, <1>10, AloneStep

LEMMA RecoverFileStep ==
    ASSUME IInv, NEW p \in Proc, NEW f \in File, RecoverFile(p, f)
    PROVE  IInv'
  <1> USE DEF RecoverFile
  <1>1. Alone(p) /\ Reads(rec[p]) /\ lease[p] = File
    BY RecoveringIsAlone DEF Recovering
  <1>2. Restores(rec[p])
    BY DEF IInv, Recovered
  <1>3. /\ rec'[p].pc = "restore" /\ rec'[p].queue = rec[p].queue /\ rec'[p].at = rec[p].at
        /\ rec'[p].todo = rec[p].todo \ {f} /\ DOMAIN rec'[p] = DOMAIN rec[p]
        /\ DOMAIN rec' = Proc /\ \A q \in Proc \ {p} : rec'[q] = rec[q]
    BY DEF IInv, Types, RecShape
  <1>4. TxShape(rec[p].at) /\ f \in DOMAIN rec[p].at.before
    BY <1>2 DEF IInv, Types, RecShape, Restores
  <1>5. SamePoints
    BY ForeignPoints DEF IInv
  <1>6. Types'
    <2>1. RecShape(rec'[p])
      BY <1>3 DEF IInv, Types, RecShape
    <2>2. disk' \in [File -> Content]
      BY <1>4 DEF IInv, Types, TxShape, TxOK
    <2>3. \A t \in Session : \A k \in DOMAIN points'[t] : points'[t][k].cursor <= Len(rows)
      BY <1>5 DEF IInv, Types, SamePoints
    <2> QED  BY <1>3, <1>5, <2>1, <2>2, <2>3 DEF IInv, Types, SamePoints
  <1>7. Reads(rec[p])'
    BY <1>1, <1>3 DEF Reads
  <1>8. Restores(rec[p])'
    <2>1. ASSUME NEW x \in txs, x.id = rec[p].at.id,
                 NEW g \in DOMAIN x.before \ (rec'[p].todo \cup x.outside)
          PROVE disk'[g] = x.before[g]
      <3>1. x.before = rec[p].at.before
        BY <1>1, <1>2, <2>1 DEF Reads, Restores, SameTx
      <3>2. g \in File
        BY <1>4, <3>1 DEF TxShape, TxOK
      <3>3. CASE g = f
        BY <3>1, <3>2, <3>3 DEF IInv, Types
      <3>4. CASE g # f
        <4>1. disk[g] = x.before[g]
          BY <1>2, <1>3, <2>1, <3>4 DEF Restores, FilesHold
        <4> QED  BY <3>2, <3>4, <4>1 DEF IInv, Types
      <3> QED  BY <3>3, <3>4
    <2>2. \A x \in txs' : x.id = rec'[p].at.id => FilesHold(x, rec[p].todo, x.before)'
      BY <1>3, <2>1 DEF FilesHold
    <2>3. rec'[p].at \in rec'[p].queue /\ rec'[p].todo \subseteq DOMAIN rec'[p].at.before
      BY <1>2, <1>3 DEF Restores
    <2> QED  BY <1>3, <2>2, <2>3 DEF Restores
  <1>9. Saving'
    BY DEF IInv, Saving
  <1>10. rec'[p].pc \in Recovering
    BY <1>3 DEF Recovering
  <1> QED  BY <1>1, <1>3, <1>5, <1>6, <1>7, <1>8, <1>9, <1>10, AloneStep

LEMMA RecoverParticipantsStep ==
    ASSUME IInv, NEW p \in Proc, RecoverParticipants(p)
    PROVE  IInv'
  <1> USE DEF RecoverParticipants
  <1>1. Alone(p) /\ Reads(rec[p]) /\ lease[p] = File
    BY RecoveringIsAlone DEF Recovering
  <1>2. Restores(rec[p])
    BY DEF IInv, Recovered
  <1>3. /\ rec'[p].pc = "delete" /\ rec'[p].queue = rec[p].queue /\ rec'[p].at = rec[p].at
        /\ rec'[p].todo = {} /\ DOMAIN rec'[p] = DOMAIN rec[p]
        /\ DOMAIN rec' = Proc /\ \A q \in Proc \ {p} : rec'[q] = rec[q]
    BY DEF IInv, Types, RecShape
  <1>4. rec[p].at.session \in Session /\ rec[p].at.saved \in Nat
    BY <1>2 DEF IInv, Types, RecShape, Restores, TxShape, TxOK
  <1>5. /\ log'[rec[p].at.session] = rec[p].at.saved
        /\ \A t \in Session \ {rec[p].at.session} : log'[t] = log[t]
    BY <1>4 DEF IInv, Types
  <1>6. SamePoints
    BY UnchangedPoints DEF IInv
  <1>7. Types'
    <2>1. RecShape(rec'[p])
      BY <1>3 DEF IInv, Types, RecShape, Recovering
    <2>2. log' \in [Session -> Nat]
      BY <1>4 DEF IInv, Types
    <2> QED  BY <1>3, <2>1, <2>2 DEF IInv, Types
  <1>8. Reads(rec[p])'
    BY <1>1, <1>3 DEF Reads
  <1>9. Restores(rec[p])'
    <2>1. \A x \in txs' : x.id = rec'[p].at.id => FilesHold(x, rec[p].todo, x.before)'
      BY <1>2, <1>3 DEF Restores, FilesHold
    <2>2. rec'[p].at \in rec'[p].queue /\ rec'[p].todo \subseteq DOMAIN rec'[p].at.before
      BY <1>2, <1>3 DEF Restores
    <2> QED  BY <1>3, <1>5, <2>1, <2>2 DEF Restores
  <1>10. Saving'
    <2>1. PICK x \in txs : x.session = rec[p].at.session /\ x.saved = rec[p].at.saved
      BY <1>1, <1>2 DEF Reads, Restores, SameTx
    <2>2. ASSUME ~RollbackMayFail, NEW t \in Session PROVE kept'[t] <= log'[t]
      BY <1>5, <2>1, <2>2 DEF IInv, Saving
    <2> QED  BY <2>2 DEF IInv, Saving
  <1>11. rec'[p].pc \in Recovering
    BY <1>3 DEF Recovering
  <1> QED  BY <1>1, <1>3, <1>6, <1>7, <1>8, <1>9, <1>10, <1>11, AloneStep

LEMMA RecoverDeleteStep ==
    ASSUME IInv, NEW p \in Proc, RecoverDelete(p)
    PROVE  IInv'
  <1> USE DEF RecoverDelete
  <1>1. Alone(p) /\ Reads(rec[p]) /\ lease[p] = File
    BY RecoveringIsAlone DEF Recovering
  <1>2. Restores(rec[p])
    BY DEF IInv, Recovered
  <1>3. /\ rec'[p].pc = "check" /\ rec'[p].queue = rec[p].queue \ {rec[p].at}
        /\ rec'[p].todo = rec[p].todo /\ DOMAIN rec'[p] = DOMAIN rec[p]
        /\ DOMAIN rec' = Proc /\ \A q \in Proc \ {p} : rec'[q] = rec[q]
    BY DEF IInv, Types, RecShape
  <1>4. \A y \in txs' : y \in txs /\ y.id # rec[p].at.id
    BY DEF WithoutTx
  <1>5. SamePoints
    BY UnchangedPoints DEF IInv
  <1>6. Types'
    <2>1. RecShape(rec'[p])
      BY <1>3 DEF IInv, Types, RecShape, Recovering
    <2> QED  BY <1>3, <1>4, <2>1 DEF IInv, Types
  <1>7. Reads(rec[p])'
    <2>1. ASSUME NEW x \in txs' PROVE \E y \in rec'[p].queue : SameTx(x, y)
      <3>1. PICK y \in rec[p].queue : SameTx(x, y)
        BY <1>1, <1>4 DEF Reads
      <3> QED  BY <1>3, <1>4, <3>1 DEF SameTx
    <2>2. ASSUME NEW y \in rec'[p].queue PROVE \E x \in txs' : SameTx(x, y)
      <3>1. y \in rec[p].queue /\ y # rec[p].at
        BY <1>3
      <3>2. y.id # rec[p].at.id
        BY <1>1, <1>2, <3>1 DEF Reads, Restores
      <3>3. PICK x \in txs : SameTx(x, y)
        BY <1>1, <3>1 DEF Reads
      <3> QED  BY <3>2, <3>3 DEF SameTx, WithoutTx
    <2> QED  BY <1>1, <1>3, <2>1, <2>2 DEF Reads
  <1>8. Saving'
    BY <1>4 DEF IInv, Saving
  <1>9. rec'[p].pc \in Recovering /\ rec'[p].pc \notin {"restore", "delete"}
    BY <1>3 DEF Recovering
  <1> QED  BY <1>1, <1>3, <1>4, <1>5, <1>6, <1>7, <1>8, <1>9, AloneStep

LEMMA RecoverDoneStep ==
    ASSUME IInv, NEW p \in Proc, RecoverDone(p)
    PROVE  IInv'
  <1> USE DEF RecoverDone, Opened
  <1>1. Alone(p) /\ txs = {}
    BY RecoveringIsAlone DEF Recovering, Reads
  <1>2. /\ rec'[p] = NotRecovering /\ DOMAIN rec' = Proc /\ \A q \in Proc \ {p} : rec'[q] = rec[q]
        /\ lease'[p] = {} /\ \A b \in Actor \ {p} : lease'[b] = lease[b]
    BY DEF IInv, Types, Actor
  <1>3. rec'[p].pc \notin Recovering /\ rec'[p].pc \notin {"restore", "delete"} /\ RecShape(rec'[p])
    BY <1>2 DEF NotRecovering, Recovering, RecShape
  <1>4. Types'
    <2>1. lease' \in [Actor -> SUBSET File] /\ up' \in [Proc -> BOOLEAN]
      BY DEF IInv, Types
    <2> QED  BY <1>2, <1>3, <2>1 DEF IInv, Types
  <1>5. SamePoints
    BY UnchangedPoints DEF IInv
  <1>6. Saving'
    BY DEF IInv, Saving
  <1> QED  BY <1>1, <1>2, <1>3, <1>4, <1>5, <1>6, AloneStep

-----------------------------------------------------------------------------
(* The invariant.                                                          *)

LEMMA Initially ==
    ASSUME Init
    PROVE  IInv
  <1> USE DEF Init
  <1>1. Types
    <2>1. disk \in [File -> Content] /\ Resting \in OpType /\ RecShape(NotRecovering)
      BY TransactionAssumption DEF Resting, OpType, RecShape, NotRecovering
    <2>2. [cursor |-> 0, files |-> disk, foreign |-> {}] \in PointType
      BY <2>1 DEF PointType
    <2>3. \A s \in Session : points[s] = <<[cursor |-> 0, files |-> disk, foreign |-> {}]>>
      OBVIOUS
    <2>4. points \in [Session -> Seq(PointType)]
      BY <2>2
    <2>5. rows \in Seq(RowType) /\ DOMAIN rows = {} /\ Len(rows) = 0
      OBVIOUS
    <2>6. \A s \in Session : \A k \in DOMAIN points[s] : points[s][k].cursor <= Len(rows)
      BY <2>3, <2>5
    <2>7. log \in [Session -> Nat] /\ kept \in [Session -> Nat] /\ lease \in [Actor -> SUBSET File]
          /\ up \in [Proc -> BOOLEAN] /\ op \in [Session -> OpType]
      BY <2>1
    <2>8. DOMAIN rec = Proc /\ \A p \in Proc : RecShape(rec[p])
      BY <2>1
    <2> QED  BY <2>1, <2>4, <2>5, <2>6, <2>7, <2>8 DEF Types
  <1>2. Begun
    BY DEF Begun, Ready, Resting, InTx
  <1>3. Leased
    BY TransactionAssumption DEF Leased, Actor, Resting, NotRecovering, Exclusive, InTx, Recovering
  <1>4. Rowed
    BY DEF Rowed, Resting, InTx
  <1>5. Advanced
    BY DEF Advanced
  <1>6. Recovered
    BY DEF Recovered, NotRecovering, Recovering
  <1>7. Saving
    BY DEF Saving
  <1> QED  BY <1>1, <1>2, <1>3, <1>4, <1>5, <1>6, <1>7 DEF IInv

LEMMA Stuttering ==
    ASSUME IInv, UNCHANGED vars
    PROVE  IInv'
  <1> USE DEF vars
  <1>1. Types'
    BY DEF IInv, Types
  <1>2. Begun'
    BY DEF IInv, Begun, Ready, Untraceable, OwnedChanges, Cursor
  <1>3. Leased' /\ Rowed' /\ Saving'
    BY DEF IInv, Leased, Rowed, Saving
  <1>4. Advanced'
    BY DEF IInv, Advanced, Progress, FilesHold
  <1>5. Recovered'
    BY DEF IInv, Recovered, Reads, Restores, FilesHold
  <1> QED  BY <1>1, <1>2, <1>3, <1>4, <1>5 DEF IInv

LEMMA Inductive ==
    ASSUME IInv, [Next]_vars
    PROVE  IInv'
  <1>1. ASSUME NEW s \in Session, CompleteTurn(s) PROVE IInv'
    BY <1>1, CompleteTurnStep
  <1>2. ASSUME NEW s \in Session, NEW f \in File, WriteBegin(s, f) PROVE IInv'
    BY <1>2, WriteBeginStep
  <1>3. ASSUME NEW s \in Session, UntracedBegin(s) PROVE IInv'
    BY <1>3, UntracedBeginStep
  <1>4. ASSUME NEW s \in Session, NEW k \in 1 .. MaxTurns + 1, RewindBegin(s, k) PROVE IInv'
    BY <1>4, RewindBeginStep
  <1>5. ASSUME NEW s \in Session, RewindError(s) PROVE IInv'
    BY <1>5, RewindErrorStep
  <1>6. ASSUME NEW s \in Session, Proceed(s) PROVE IInv'
    BY <1>6, WriteFileStep, WriteEndStep, UntracedEndStep, RewindRefuseStep, RewindCheckStep,
       RewindPrepareStep, RewindFileStep, RewindParticipantsStep, RewindCommitStep,
       RollbackFileStep, RollbackDoneStep, RollbackErrorStep DEF Proceed
  <1>7. ASSUME NEW f \in File, NEW v \in Content, OutsideEdit(f, v) PROVE IInv'
    BY <1>7, OutsideEditStep
  <1>8. ASSUME NEW p \in Proc, Crash(p) \/ OpenClean(p) \/ OpenPending(p) PROVE IInv'
    BY <1>8, CrashStep, OpenCleanStep, OpenPendingStep
  <1>9. ASSUME NEW p \in Proc, Recover(p) PROVE IInv'
    BY <1>9, RecoverLeaseStep, RecoverRefuseStep, RecoverCheckStep, RecoverFileStep,
       RecoverParticipantsStep, RecoverDeleteStep, RecoverDoneStep DEF Recover
  <1>10. CASE UNCHANGED vars
    BY <1>10, Stuttering
  <1> QED  BY <1>1, <1>2, <1>3, <1>4, <1>5, <1>6, <1>7, <1>8, <1>9, <1>10 DEF Next

LEMMA InvariantHolds == Spec => []IInv
  <1>1. Init => IInv
    BY Initially
  <1>2. IInv /\ [Next]_vars => IInv'
    BY Inductive
  <1> QED  BY <1>1, <1>2, PTL DEF Spec

\* What the invariant says of the properties.
LEMMA Typed ==
    ASSUME IInv
    PROVE  TypeOK
  <1>1. \A i \in DOMAIN rows : rows[i] \in RowType
    BY DEF IInv, Types
  <1>2. \A x \in txs : TxOK(x)
    BY DEF IInv, Types, TxShape
  <1>3. ASSUME NEW s \in Session, NEW k \in DOMAIN points[s] PROVE PointOK(points[s][k])
    <2>1. points[s] \in Seq(PointType) /\ Len(rows) \in Nat
      BY DEF IInv, Types
    <2>2. points[s][k] \in PointType /\ points[s][k].cursor <= Len(rows)
      BY <2>1 DEF IInv, Types
    <2> QED  BY <2>1, <2>2 DEF PointOK, PointType
  <1>4. \A p \in Proc : rec[p].pc \in {"none", "lease", "check", "restore", "delete"}
    BY DEF IInv, Types, RecShape, Recovering
  <1> QED  BY <1>1, <1>2, <1>3, <1>4 DEF TypeOK, IInv, Types

LEMMA RunsAlone ==
    ASSUME IInv
    PROVE  RecoveryRunsAlone
  <1>1. ASSUME NEW p \in Proc, rec[p].pc \in Recovering PROVE \A s \in Session : op[s].pc = "idle"
    BY <1>1, WhileRecovering
  <1> QED  BY <1>1 DEF RecoveryRunsAlone, Recovering, IInv, Types

-----------------------------------------------------------------------------
(* How transactions end.                                                   *)

\* Only a commit, the end of an except block and a recovery's delete take rows out of the table.
LEMMA WholeWhenKept ==
    ASSUME \A x \in txs : \E y \in txs' : y.id = x.id
    PROVE  EndsWhole
  BY DEF EndsWhole

LEMMA CommitIsWhole ==
    ASSUME IInv, NEW s \in Session, RewindCommit(s)
    PROVE  EndsWhole
  <1> DEFINE x == TxOf(s)
  <1>1. op[s].pc \in InTx /\ op[s].pc = "commit"
    BY DEF RewindCommit, InTx
  <1>2. x \in txs /\ x.live /\ x.session = s /\ TxShape(x) /\ Progress(x, op[s])
    BY <1>1, InItsTx
  <1>3. \A z \in txs : (\A y \in txs' : y.id # z.id) => z = x
    BY <1>2 DEF RewindCommit, WithoutTx, IInv, Rowed
  <1> HIDE DEF x
  <1>4. FilesAre(x, x.after) /\ log'[x.session] = x.saved + 1
    <2>1. DOMAIN x.after = DOMAIN x.before
      BY <1>2 DEF TxShape, TxOK
    <2> QED  BY <1>1, <1>2, <2>1 DEF Progress, FilesHold, FilesAre, RewindCommit
  <1>5. ASSUME NEW i \in Cursor(s) + 1 .. Len(rows), rows'[i].session = s PROVE rows'[i].reverted
    <2>1. rows \in Seq(RowType) /\ Len(rows) \in Nat /\ DOMAIN rows = 1 .. Len(rows)
      BY DEF IInv, Types
    <2>2. Cursor(s) \in Nat
      <3>1. op[s].point \in DOMAIN points[s] /\ points[s] \in Seq(PointType)
        BY <1>1 DEF IInv, Begun, Ready, Types
      <3>2. points[s][op[s].point] \in PointType
        BY <3>1
      <3> QED  BY <3>2 DEF Cursor, PointType
    <2>3. i \in DOMAIN rows /\ rows[i] \in RowType
      BY <2>1, <2>2
    <2>4. rows'[i] = [rows[i] EXCEPT !.reverted = @ \/ i \in OwnedChanges(s, Cursor(s))]
      BY <2>3 DEF RewindCommit
    <2>5. rows[i].session = s /\ rows'[i].reverted = (rows[i].reverted \/ i \in OwnedChanges(s, Cursor(s)))
      BY <1>5, <2>3, <2>4 DEF RowType
    <2>6. rows[i].reverted \/ i \in OwnedChanges(s, Cursor(s))
      BY <2>5 DEF OwnedChanges
    <2> QED  BY <2>5, <2>6
  <1>6. Done(x)
    BY <1>2, <1>4, <1>5 DEF Done
  <1> QED  BY <1>3, <1>6 DEF EndsWhole

LEMMA RollbackIsWhole ==
    ASSUME IInv, NEW s \in Session, RollbackDone(s)
    PROVE  EndsWhole
  <1> DEFINE x == TxOf(s)
  <1>1. op[s].pc \in InTx /\ op[s].pc = "undo" /\ op[s].todo = {}
    BY DEF RollbackDone, InTx
  <1>2. x \in txs /\ x.session = s /\ Progress(x, op[s])
    BY <1>1, InItsTx
  <1>3. \A z \in txs : (\A y \in txs' : y.id # z.id) => z = x
    BY <1>2 DEF RollbackDone, WithoutTx, IInv, Rowed
  <1>4. log'[s] = x.saved /\ disk' = disk /\ rows' = rows
    BY DEF RollbackDone, IInv, Types
  <1> HIDE DEF x
  <1>5. Undone(x)
    BY <1>1, <1>2, <1>4 DEF Progress, FilesHold, FilesAre, Undone
  <1> QED  BY <1>3, <1>5 DEF EndsWhole

LEMMA RecoveryIsWhole ==
    ASSUME IInv, ~RollbackMayFail, NEW p \in Proc, RecoverDelete(p)
    PROVE  EndsWhole
  <1>1. Reads(rec[p]) /\ Restores(rec[p]) /\ rec[p].pc = "delete"
    BY DEF RecoverDelete, IInv, Recovered, Recovering
  <1>2. ASSUME NEW z \in txs, \A y \in txs' : y.id # z.id PROVE Undone(z)
    <2>1. z.id = rec[p].at.id
      BY <1>2 DEF RecoverDelete, WithoutTx
    <2>2. SameTx(z, rec[p].at)
      BY <1>1, <2>1 DEF Reads, Restores, SameTx
    <2>3. FilesHold(z, {}, z.before) /\ log[z.session] = z.saved
      BY <1>1, <2>1, <2>2 DEF Restores, SameTx
    <2>4. disk' = disk /\ log' = log /\ rows' = rows
      BY DEF RecoverDelete
    <2> QED  BY <2>3, <2>4 DEF Undone, FilesHold, FilesAre
  <1> QED  BY <1>2 DEF EndsWhole

LEMMA EveryEndIsWhole ==
    ASSUME IInv, ~RollbackMayFail, [Next]_vars
    PROVE  EndsWhole
  <1> DEFINE Kept == \A x \in txs : \E y \in txs' : y.id = x.id
  <1>1. txs' = txs => Kept
    OBVIOUS
  <1>2. ASSUME NEW s \in Session, CompleteTurn(s) \/ UntracedBegin(s) \/ RewindError(s) PROVE Kept
    BY <1>1, <1>2 DEF CompleteTurn, UntracedBegin, RewindError
  <1>3. ASSUME NEW s \in Session, NEW f \in File, WriteBegin(s, f) PROVE Kept
    BY <1>1, <1>3 DEF WriteBegin
  <1>4. ASSUME NEW s \in Session, NEW k \in 1 .. MaxTurns + 1, RewindBegin(s, k) PROVE Kept
    BY <1>1, <1>4 DEF RewindBegin
  <1>5. ASSUME NEW s \in Session, Proceed(s) PROVE EndsWhole
    <2>1. ASSUME NEW v \in Content, WriteFile(s, v) PROVE Kept
      BY <1>1, <2>1 DEF WriteFile
    <2>2. CASE WriteEnd(s) \/ UntracedEnd(s) \/ RewindRefuse(s) \/ RewindCheck(s)
      BY <1>1, <2>2, WholeWhenKept
         DEF WriteEnd, UntracedEnd, RewindRefuse, RewindCheck
    <2>3. CASE RewindPrepare(s)
      <3>1. txs \subseteq txs'
        BY <2>3 DEF RewindPrepare
      <3> QED  BY <3>1, WholeWhenKept
    <2>4. ASSUME NEW f \in File, RewindFile(s, f) \/ RollbackFile(s, f) PROVE Kept
      BY <1>1, <2>4 DEF RewindFile, RollbackFile
    <2>5. CASE RewindParticipants(s)
      BY <1>1, <2>5, WholeWhenKept DEF RewindParticipants
    <2>6. CASE RewindCommit(s)
      BY <2>6, CommitIsWhole
    <2>7. CASE RollbackDone(s)
      BY <2>7, RollbackIsWhole
    <2>8. CASE RollbackError(s)
      BY <2>8 DEF RollbackError
    <2> HIDE DEF Kept
    <2>9. Kept => EndsWhole
      BY WholeWhenKept DEF Kept
    <2> QED  BY <1>5, <2>1, <2>2, <2>3, <2>4, <2>5, <2>6, <2>7, <2>8, <2>9 DEF Proceed
  <1>6. ASSUME NEW f \in File, NEW v \in Content, OutsideEdit(f, v) PROVE Kept
    <2>1. \A x \in txs : [x EXCEPT !.outside = @ \cup {f}].id = x.id
      BY DEF IInv, Types, TxShape, TxFields
    <2> QED  BY <1>6, <2>1 DEF OutsideEdit
  <1>7. ASSUME NEW p \in Proc, Crash(p) PROVE Kept
    <2>1. txs' = {[x EXCEPT !.live = @ /\ ProcOf[x.session] # p] : x \in txs}
      BY <1>7 DEF Crash
    <2>2. \A x \in txs : [x EXCEPT !.live = @ /\ ProcOf[x.session] # p].id = x.id
      BY DEF IInv, Types, TxShape, TxFields
    <2> QED  BY <2>1, <2>2
  <1>8. ASSUME NEW p \in Proc, OpenClean(p) \/ OpenPending(p) PROVE Kept
    BY <1>1, <1>8 DEF OpenClean, OpenPending
  <1>9. ASSUME NEW p \in Proc, Recover(p) PROVE EndsWhole
    <2>1. CASE RecoverLease(p) \/ RecoverRefuse(p) \/ RecoverCheck(p)
      BY <1>1, <2>1, WholeWhenKept DEF RecoverLease, RecoverRefuse, RecoverCheck
    <2>2. ASSUME NEW f \in File, RecoverFile(p, f) PROVE Kept
      BY <1>1, <2>2 DEF RecoverFile
    <2>3. CASE RecoverParticipants(p) \/ RecoverDone(p)
      BY <1>1, <2>3, WholeWhenKept DEF RecoverParticipants, RecoverDone
    <2>4. CASE RecoverDelete(p)
      BY <2>4, RecoveryIsWhole
    <2> HIDE DEF Kept
    <2>5. Kept => EndsWhole
      BY WholeWhenKept DEF Kept
    <2> QED  BY <1>9, <2>1, <2>2, <2>3, <2>4, <2>5 DEF Recover
  <1>10. CASE UNCHANGED vars
    BY <1>1, <1>10, WholeWhenKept DEF vars
  <1> HIDE DEF Kept
  <1>11. Kept => EndsWhole
    BY WholeWhenKept DEF Kept
  <1> QED  BY <1>2, <1>3, <1>4, <1>5, <1>6, <1>7, <1>8, <1>9, <1>10, <1>11 DEF Next

-----------------------------------------------------------------------------
(* What a rewind touches.                                                  *)

\* From the checks to the commit.
Decided == {"prepare", "files", "commit"}

\* A session at rest is in no file.
AtRest == \A s \in Session : op[s].pc = "idle" => op[s].file = None

\* The last change of a file is one of its changes, and none comes after it.
LEMMA LastIsOne ==
    ASSUME NEW n \in Nat, NEW S \in SUBSET (1 .. n), S # {}
    PROVE  Max(S) \in S /\ \A i \in S : i <= Max(S)
  <1> DEFINE D == {n - i : i \in S}
  <1>1. D \in SUBSET Nat /\ D # {}
    <2>1. \A i \in S : i \in 1 .. n /\ n - i \in Nat
      OBVIOUS
    <2> QED  BY <2>1
  <1>2. Min(D) \in D
    BY <1>1, FirstIsOne
  <1>3. \A d \in D : Min(D) <= d
    BY <1>1, FirstIsOne
  <1>4. PICK m \in S : Min(D) = n - m
    BY <1>2
  <1>5. \A i \in S : i <= m
    <2>1. ASSUME NEW i \in S PROVE i <= m
      <3>1. n - i \in D
        OBVIOUS
      <3>2. n - m <= n - i
        BY <1>3, <1>4, <3>1
      <3> QED  BY <3>2
    <2> QED  BY <2>1
  <1> QED  BY <1>5 DEF Max

\* A step of a session: how its operation moves, when it does.
LEMMA OpMoves ==
    ASSUME IInv, [Next]_vars, NEW s \in Session
    PROVE  \/ op'[s] = op[s]
           \/ op'[s] = Resting
           \/ op'[s].pc \notin Decided \cup {"idle"}
           \/ op[s].pc \in Decided /\ op'[s].pc # "idle" /\ op'[s].point = op[s].point
           \/ RewindCheck(s)
  <1> DEFINE Moved == \/ op'[s] = op[s]
                      \/ op'[s] = Resting
                      \/ op'[s].pc \notin Decided \cup {"idle"}
                      \/ op[s].pc \in Decided /\ op'[s].pc # "idle" /\ op'[s].point = op[s].point
                      \/ RewindCheck(s)
  <1>1. op \in [Session -> OpType]
    BY DEF IInv, Types
  <1>2. \A t \in Session : op[t] \in OpType /\ DOMAIN op[t] = {"pc", "file", "old", "point", "todo"}
    BY <1>1 DEF OpType
  <1>3. ASSUME NEW t \in Session, CompleteTurn(t) \/ UntracedBegin(t) \/ RewindError(t) PROVE Moved
    BY <1>1, <1>2, <1>3 DEF CompleteTurn, UntracedBegin, RewindError, Decided, Resting
  <1>4. ASSUME NEW t \in Session, NEW f \in File, WriteBegin(t, f) PROVE Moved
    BY <1>1, <1>2, <1>4 DEF WriteBegin, Decided, Resting
  <1>5. ASSUME NEW t \in Session, NEW k \in 1 .. MaxTurns + 1, RewindBegin(t, k) PROVE Moved
    BY <1>1, <1>2, <1>5 DEF RewindBegin, Decided, Resting
  <1>6. ASSUME NEW t \in Session, Proceed(t) PROVE Moved
    <2>1. ASSUME NEW v \in Content, WriteFile(t, v) PROVE Moved
      BY <1>1, <1>2, <2>1 DEF WriteFile, Decided
    <2>2. CASE WriteEnd(t) \/ UntracedEnd(t) \/ RewindRefuse(t)
      BY <1>1, <2>2 DEF WriteEnd, UntracedEnd, RewindRefuse
    <2>3. CASE RewindCheck(t)
      <3>1. t # s => op'[s] = op[s]
        BY <1>1, <2>3 DEF RewindCheck
      <3> QED  BY <2>3, <3>1
    <2>4. CASE RewindPrepare(t)
      BY <1>1, <1>2, <2>4 DEF RewindPrepare, Decided
    <2>5. ASSUME NEW f \in File, RewindFile(t, f) PROVE Moved
      BY <1>1, <1>2, <2>5 DEF RewindFile, Decided
    <2>6. CASE RewindParticipants(t)
      BY <1>1, <1>2, <2>6 DEF RewindParticipants, Decided
    <2>7. CASE RewindCommit(t) \/ RollbackDone(t) \/ RollbackError(t)
      BY <1>1, <2>7 DEF RewindCommit, RollbackDone, RollbackError
    <2>8. ASSUME NEW f \in File, RollbackFile(t, f) PROVE Moved
      BY <1>1, <1>2, <2>8 DEF RollbackFile, Decided
    <2> HIDE DEF Moved
    <2> QED  BY <1>6, <2>1, <2>2, <2>3, <2>4, <2>5, <2>6, <2>7, <2>8 DEF Proceed
  <1>7. ASSUME NEW f \in File, NEW v \in Content, OutsideEdit(f, v) PROVE Moved
    BY <1>7 DEF OutsideEdit
  <1>8. ASSUME NEW p \in Proc, Crash(p) \/ OpenClean(p) \/ OpenPending(p) PROVE Moved
    BY <1>8 DEF Crash, OpenClean, OpenPending
  <1>9. ASSUME NEW p \in Proc, Recover(p) PROVE op' = op
    BY <1>9 DEF Recover, RecoverLease, RecoverRefuse, RecoverCheck, RecoverFile,
                RecoverParticipants, RecoverDelete, RecoverDone
  <1>10. CASE UNCHANGED vars
    BY <1>10 DEF vars
  <1> HIDE DEF Moved
  <1>11. op' = op => Moved
    BY DEF Moved
  <1>12. Moved
    BY <1>3, <1>4, <1>5, <1>6, <1>7, <1>8, <1>9, <1>10, <1>11 DEF Next, Moved
  <1> QED  BY <1>12 DEF Moved

\* The changes a rewind has checked are still those in the table, after the same cursor.
LEMMA DecidedStays ==
    ASSUME IInv, [Next]_vars, NEW s \in Session, op[s].pc \in Decided, op'[s].pc \in Decided,
           op'[s].point = op[s].point
    PROVE  rows' = rows /\ Cursor(s)' = Cursor(s)
  <1> DEFINE Stays == rows' = rows /\ points'[s][op[s].point].cursor = points[s][op[s].point].cursor
  <1>1. /\ op[s].pc \in Exclusive /\ op[s].pc # "idle"
        /\ op[s].point \in DOMAIN points[s] /\ op \in [Session -> OpType]
    BY DEF IInv, Types, Begun, Ready, Decided, Exclusive, InTx
  <1>2. lease[s] = File /\ \A t \in Session \ {s} : op[t].pc = "idle"
    BY <1>1, WhileExclusive
  <1>3. \A t \in Session, files \in SUBSET File : files # {} /\ op[t].pc = "idle" => ~Free(files, t)
    BY <1>1, <1>2 DEF Free, Actor
  <1>4. rows' = rows /\ points' = points => Stays
    OBVIOUS
  <1>5. rows' = rows /\ SamePoints => Stays
    BY <1>1 DEF SamePoints
  <1> HIDE DEF Stays
  <1>6. ASSUME NEW t \in Session, CompleteTurn(t) PROVE Stays
    <2>1. t # s
      BY <1>1, <1>6 DEF CompleteTurn, Idle
    <2>2. points'[s] = points[s] /\ rows' = rows
      BY <1>6, <2>1 DEF CompleteTurn, IInv, Types
    <2> QED  BY <2>2 DEF Stays
  <1>7. ASSUME NEW t \in Session, NEW f \in File, WriteBegin(t, f) PROVE Stays
    BY <1>4, <1>7 DEF WriteBegin
  <1>8. ASSUME NEW t \in Session, UntracedBegin(t) PROVE FALSE
    <2>1. File \in SUBSET File /\ File # {}
      BY TransactionAssumption
    <2> QED  BY <1>3, <1>8, <2>1 DEF UntracedBegin, Idle
  <1>9. ASSUME NEW t \in Session, NEW k \in 1 .. MaxTurns + 1, RewindBegin(t, k) PROVE Stays
    BY <1>4, <1>9 DEF RewindBegin
  <1>10. ASSUME NEW t \in Session, RewindError(t) PROVE Stays
    BY <1>4, <1>10 DEF RewindError
  <1>11. ASSUME NEW t \in Session, Proceed(t) PROVE Stays
    <2>1. t = s
      <3>1. op[t].pc # "idle"
        BY <1>11 DEF Proceed, WriteFile, WriteEnd, UntracedEnd, RewindRefuse, RewindCheck,
                     RewindPrepare, RewindFile, RewindParticipants, RewindCommit,
                     RollbackFile, RollbackDone, RollbackError
      <3> QED  BY <1>2, <3>1
    <2>2. CASE RewindPrepare(s) \/ RewindParticipants(s)
      BY <1>4, <2>2 DEF RewindPrepare, RewindParticipants
    <2>3. ASSUME NEW f \in File, RewindFile(s, f) PROVE Stays
      <3>1. SamePoints
        BY <2>3, ForeignPoints DEF RewindFile, IInv
      <3> QED  BY <1>5, <2>3, <3>1 DEF RewindFile
    <2>4. CASE RewindCommit(s)
      BY <1>1, <2>4 DEF RewindCommit, Resting, Decided
    <2> QED  BY <1>11, <2>1, <2>2, <2>3, <2>4
             DEF Proceed, Decided, WriteFile, WriteEnd, UntracedEnd, RewindRefuse, RewindCheck,
                 RollbackFile, RollbackDone, RollbackError
  <1>12. ASSUME NEW f \in File, NEW v \in Content, OutsideEdit(f, v) PROVE Stays
    <2>1. SamePoints
      BY <1>12, ForeignPoints DEF OutsideEdit, IInv
    <2> QED  BY <1>5, <1>12, <2>1 DEF OutsideEdit
  <1>13. ASSUME NEW p \in Proc, Crash(p) PROVE Stays
    <2> DEFINE lost == {op[t].file : t \in {u \in Session : ProcOf[u] = p /\ op[u].pc = "written"}}
    <2>1. lost \in SUBSET File
      BY DEF IInv, Begun, Ready
    <2>2. points' = [t \in Session |-> [k \in DOMAIN points[t] |->
                        [points[t][k] EXCEPT !.foreign = @ \cup lost]]]
      BY <1>13 DEF Crash
    <2> HIDE DEF lost
    <2>3. SamePoints
      BY <2>1, <2>2, MarkedPoints DEF IInv
    <2> QED  BY <1>5, <1>13, <2>3 DEF Crash
  <1>14. ASSUME NEW p \in Proc, OpenClean(p) \/ OpenPending(p) PROVE Stays
    BY <1>4, <1>14 DEF OpenClean, OpenPending
  <1>15. ASSUME NEW p \in Proc, Recover(p) PROVE Stays
    <2>1. ASSUME NEW f \in File, RecoverFile(p, f) PROVE Stays
      <3>1. SamePoints
        BY <2>1, ForeignPoints DEF RecoverFile, IInv
      <3> QED  BY <1>5, <2>1, <3>1 DEF RecoverFile
    <2> QED  BY <1>4, <1>15, <2>1 DEF Recover, RecoverLease, RecoverRefuse, RecoverCheck,
                                      RecoverParticipants, RecoverDelete, RecoverDone
  <1>16. ASSUME UNCHANGED vars PROVE Stays
    BY <1>4, <1>16 DEF vars
  <1>17. Stays
    BY <1>6, <1>7, <1>8, <1>9, <1>10, <1>11, <1>12, <1>13, <1>14, <1>15, <1>16 DEF Next
  <1> QED  BY <1>17 DEF Stays, Cursor

\* What is checked is what is to be true of the changes of a session.
LEMMA CheckedIsOwn ==
    ASSUME IInv, NEW s \in Session, op[s].pc = "check", MayRewind(s, Cursor(s)),
           NEW f \in ChangedFiles(s, Cursor(s)), NEW j \in DOMAIN rows,
           rows[j].path = f, rows[j].session # s, ~rows[j].reverted
    PROVE  \E i \in ChangesOf(s, Cursor(s), f) : j < i
  <1>1. rows \in Seq(RowType) /\ Len(rows) \in Nat /\ DOMAIN rows = 1 .. Len(rows)
    BY DEF IInv, Types
  <1>2. Cursor(s) \in Nat
    <2>1. op[s].point \in DOMAIN points[s] /\ points[s] \in Seq(PointType)
      BY DEF IInv, Begun, Ready, Types
    <2>2. points[s][op[s].point] \in PointType
      BY <2>1
    <2> QED  BY <2>2 DEF Cursor, PointType
  <1> DEFINE S == ChangesOf(s, Cursor(s), f)
  <1>3. S \in SUBSET (1 .. Len(rows)) /\ S # {}
    BY <1>1, <1>2 DEF ChangesOf, ChangedFiles, OwnedChanges
  <1>4. \A i \in S : rows[i].session = s
    BY DEF ChangesOf, OwnedChanges
  <1> HIDE DEF S
  <1>5. Max(S) \in S
    BY <1>1, <1>3, LastIsOne
  <1>6. ~(j \in Max(S) + 1 .. Len(rows))
    BY DEF MayRewind, Untouched, S
  <1>7. Max(S) \in 1 .. Len(rows) /\ j \in 1 .. Len(rows) /\ j # Max(S)
    BY <1>1, <1>3, <1>4, <1>5
  <1>8. j < Max(S)
    BY <1>1, <1>6, <1>7
  <1> QED  BY <1>5, <1>8 DEF S

LEMMA OwnWorkStep ==
    ASSUME IInv, IInv', [Next]_vars, AtRest, RewindTouchesOwnWork
    PROVE  AtRest' /\ RewindTouchesOwnWork'
  <1>1. AtRest'
    <2>1. ASSUME NEW s \in Session, op'[s].pc = "idle" PROVE op'[s].file = None
      <3>1. ASSUME RewindCheck(s) PROVE op'[s] = Resting \/ op'[s].pc # "idle"
        BY <3>1 DEF RewindCheck, IInv, Types, OpType
      <3>2. op'[s] = op[s] \/ op'[s] = Resting
        BY <2>1, <3>1, OpMoves
      <3> QED  BY <2>1, <3>2 DEF AtRest, Resting
    <2> QED  BY <2>1 DEF AtRest
  <1>2. ASSUME NEW s \in Session, op'[s].pc \in Decided, NEW f \in ChangedFiles(s, Cursor(s))'
        PROVE  /\ \A t \in Session \ {s} : op'[t].file # f
               /\ \A j \in DOMAIN rows' :
                     rows'[j].path = f /\ rows'[j].session # s /\ ~rows'[j].reverted =>
                         \E i \in ChangesOf(s, Cursor(s), f)' : j < i
    <2>1. \/ op[s].pc \in Decided /\ op'[s].point = op[s].point
          \/ RewindCheck(s)
      BY <1>2, OpMoves DEF Decided, Resting
    <2>2. rows' = rows /\ Cursor(s)' = Cursor(s)
      <3>1. CASE RewindCheck(s)
        <4>1. op'[s].point = op[s].point
          BY <3>1 DEF RewindCheck, IInv, Types, OpType
        <4> QED  BY <3>1, <4>1 DEF RewindCheck, Cursor
      <3>2. CASE op[s].pc \in Decided /\ op'[s].point = op[s].point
        BY <1>2, <3>2, DecidedStays
      <3> QED  BY <2>1, <3>1, <3>2
    <2>3. /\ f \in ChangedFiles(s, Cursor(s))
          /\ ChangesOf(s, Cursor(s), f)' = ChangesOf(s, Cursor(s), f)
      BY <1>2, <2>2 DEF ChangedFiles, ChangesOf, OwnedChanges
    <2>4. f # None
      <3>1. rows \in Seq(RowType) /\ Len(rows) \in Nat /\ DOMAIN rows = 1 .. Len(rows)
        BY DEF IInv, Types
      <3>2. Cursor(s)' \in Nat
        <4>1. op'[s].point \in DOMAIN points'[s] /\ points'[s] \in Seq(PointType)
          BY <1>2 DEF IInv, Begun, Ready, Types, Decided, InTx
        <4>2. points'[s][op'[s].point] \in PointType
          BY <4>1
        <4> QED  BY <4>2 DEF Cursor, PointType
      <3>3. PICK i \in OwnedChanges(s, Cursor(s)) : rows[i].path = f
        BY <2>3 DEF ChangedFiles
      <3>4. rows[i] \in RowType
        BY <2>2, <3>1, <3>2, <3>3 DEF OwnedChanges
      <3> QED  BY <3>3, <3>4, TransactionAssumption DEF RowType
    <2>5. ASSUME NEW t \in Session \ {s} PROVE op'[t].file # f
      <3>1. lease'[s] = File /\ File # {} /\ s \in Actor /\ t \in Actor /\ t # s
        BY <1>2, TransactionAssumption DEF IInv, Leased, Decided, Exclusive, InTx, Actor
      <3>2. lease'[t] = {}
        BY <3>1 DEF IInv, Leased, Types
      <3>3. op'[t].pc \in {"idle", "write", "written"} \cup Exclusive
        BY DEF IInv, Types, OpType, Exclusive, InTx
      <3>4. op'[t].pc = "idle"
        BY <3>1, <3>2, <3>3 DEF IInv, Leased
      <3> QED  BY <1>1, <2>4, <3>4 DEF AtRest
    <2>6. ASSUME NEW j \in DOMAIN rows, rows[j].path = f, rows[j].session # s, ~rows[j].reverted
          PROVE  \E i \in ChangesOf(s, Cursor(s), f) : j < i
      <3>1. CASE RewindCheck(s)
        BY <2>3, <2>6, <3>1, CheckedIsOwn DEF RewindCheck
      <3>2. CASE op[s].pc \in Decided
        <4>1. DOMAIN op = Session
          BY DEF IInv, Types
        <4> QED  BY <2>3, <2>6, <3>2, <4>1 DEF RewindTouchesOwnWork, Decided
      <3> QED  BY <2>1, <3>1, <3>2
    <2> QED  BY <2>2, <2>3, <2>5, <2>6
  <1>3. DOMAIN op' = Session
    BY DEF IInv, Types
  <1> QED  BY <1>1, <1>2, <1>3 DEF RewindTouchesOwnWork, Decided

-----------------------------------------------------------------------------
(* What a rewind restores.                                                 *)

\* What a file holds as far as a session is concerned: what it found before the write it is in, or
\* before the transaction it is in or left behind when it died.
Writing(s, f) == op[s].pc \in {"write", "written"} /\ op[s].file = f
Covers(x, s, f) == x.session = s /\ f \in DOMAIN x.before
Now(s, f) ==
    IF Writing(s, f) THEN op[s].old
    ELSE IF \E x \in txs : Covers(x, s, f)
         THEN (CHOOSE x \in txs : Covers(x, s, f)).before[f]
         ELSE disk[f]

\* The session's changes of a file lead from one content to another, without a gap.
Linked(s, cursor, f, from, to) ==
    LET S == ChangesOf(s, cursor, f)
    IN  /\ S = {} => from = to
        /\ \A i \in S : (\A j \in S : i <= j) => rows[i].before = from
        /\ \A i \in S : (\A j \in S : j <= i) => rows[i].after = to
        /\ Chained(s, cursor, f)

\* From each recovery point that can be traced, they lead to what the file holds now, unless
\* somebody else changed it.
Traced(s) ==
    \A k \in DOMAIN points[s] : ~Untraceable(s, points[s][k].cursor) =>
        \A f \in File \ points[s][k].foreign :
            Linked(s, points[s][k].cursor, f, points[s][k].files[f], Now(s, f))

\* A write that has not written yet will find what it found.
Unwritten(s) ==
    op[s].pc = "write" =>
        \A k \in DOMAIN points[s] : op[s].file \in points[s][k].foreign \/ disk[op[s].file] = op[s].old

\* No point can be traced beyond a command that cannot.
Limited(s) == op[s].pc = "untraced" => \A k \in DOMAIN points[s] : Untraceable(s, points[s][k].cursor)

\* A session has one transaction, of which the points know the edits from outside, and which writes
\* what the first change of each file found.
OneTx == \A x, y \in txs : x.session = y.session => x = y
Noted ==
    \A x \in txs : \A k \in DOMAIN points[x.session] : x.outside \subseteq points[x.session][k].foreign
Ordered ==
    \A s \in Session : \A j, k \in DOMAIN points[s] :
        j <= k => points[s][j].cursor <= points[s][k].cursor
Plans(x) ==
    LET s == x.session
    IN  /\ DOMAIN x.before = ChangedFiles(s, Cursor(s))
        /\ \A f \in DOMAIN x.before : x.after[f] = Target(s, Cursor(s), f)
        /\ ~Untraceable(s, Cursor(s))
Planned == \A x \in txs : op[x.session].pc \in {"files", "commit"} => Plans(x)

Followed(s) == Traced(s) /\ Unwritten(s) /\ Limited(s)
Chains == OneTx /\ Noted /\ Ordered /\ Planned /\ \A s \in Session : Followed(s)

\* The changes of a session are the same, and its points stay, with more files that others changed.
SameRows(t) ==
    \A i \in Nat :
        \/ i \in DOMAIN rows /\ rows[i].session = t
        \/ i \in DOMAIN rows' /\ rows'[i].session = t
        => i \in DOMAIN rows /\ i \in DOMAIN rows' /\ rows'[i] = rows[i]
PointsStay(t) ==
    /\ DOMAIN points'[t] = DOMAIN points[t]
    /\ \A k \in DOMAIN points[t] :
          /\ points'[t][k].cursor = points[t][k].cursor
          /\ points'[t][k].files = points[t][k].files
          /\ points[t][k].foreign \subseteq points'[t][k].foreign
Elsewhere(t, f) == \A k \in DOMAIN points[t] : f \in points'[t][k].foreign
\* ... and its transactions are about the same files.
SameTxs(t) ==
    /\ \A x \in txs : x.session = t => \E y \in txs' : y.session = t /\ y.before = x.before
    /\ \A y \in txs' : y.session = t => \E x \in txs : x.session = t /\ x.before = y.before

LEMMA ReadNow ==
    ASSUME OneTx, NEW s \in Session, NEW f
    PROVE  /\ Writing(s, f) => Now(s, f) = op[s].old
           /\ ~Writing(s, f) =>
                /\ \A x \in txs : Covers(x, s, f) => Now(s, f) = x.before[f]
                /\ (\A x \in txs : ~Covers(x, s, f)) => Now(s, f) = disk[f]
  <1>1. ASSUME ~Writing(s, f), NEW x \in txs, Covers(x, s, f) PROVE Now(s, f) = x.before[f]
    <2> DEFINE c == CHOOSE y \in txs : Covers(y, s, f)
    <2>1. c \in txs /\ Covers(c, s, f)
      BY <1>1
    <2>2. c = x
      BY <1>1, <2>1 DEF OneTx, Covers
    <2> QED  BY <1>1, <2>2 DEF Now
  <1> QED  BY <1>1 DEF Now

LEMMA NowKept ==
    ASSUME OneTx, OneTx', NEW t \in Session, NEW f, SameTxs(t),
           Writing(t, f) <=> Writing(t, f)', Writing(t, f) => op'[t].old = op[t].old,
           \/ disk'[f] = disk[f]
           \/ Writing(t, f)
           \/ \E x \in txs : Covers(x, t, f)
    PROVE  Now(t, f)' = Now(t, f)
  <1>1. CASE Writing(t, f)
    BY <1>1 DEF Now, Writing
  <1>2. ASSUME ~Writing(t, f), NEW x \in txs, Covers(x, t, f) PROVE Now(t, f)' = Now(t, f)
    <2>1. PICK y \in txs' : y.session = t /\ y.before = x.before
      BY <1>2 DEF SameTxs, Covers
    <2>2. \A z \in txs' : Covers(z, t, f) => z = y
      BY <2>1 DEF OneTx, Covers
    <2>3. Covers(y, t, f)
      BY <1>2, <2>1 DEF Covers
    <2>4. (CHOOSE z \in txs' : Covers(z, t, f)) = y
      BY <2>2, <2>3
    <2>5. Now(t, f)' = y.before[f]
      BY <1>2, <2>3, <2>4 DEF Now
    <2>6. Now(t, f) = x.before[f]
      BY <1>2, ReadNow
    <2> QED  BY <2>1, <2>5, <2>6
  <1>3. CASE ~Writing(t, f) /\ \A x \in txs : ~Covers(x, t, f)
    <2>1. \A y \in txs' : ~Covers(y, t, f)
      BY <1>3 DEF SameTxs, Covers
    <2> QED  BY <1>3, <2>1 DEF Now
  <1> QED  BY <1>1, <1>2, <1>3

LEMMA ChangesKept ==
    ASSUME Types, Types', NEW t \in Session, SameRows(t), NEW c \in Nat
    PROVE  /\ OwnedChanges(t, c)' = OwnedChanges(t, c)
           /\ \A i \in OwnedChanges(t, c) : i \in DOMAIN rows /\ rows'[i] = rows[i]
  <1>1. /\ Len(rows) \in Nat /\ DOMAIN rows = 1 .. Len(rows)
        /\ Len(rows') \in Nat /\ DOMAIN rows' = 1 .. Len(rows')
    BY DEF Types
  <1>2. \A i \in c + 1 .. Len(rows) : i \in Nat /\ i \in DOMAIN rows
    BY <1>1
  <1>3. \A i \in c + 1 .. Len(rows') : i \in Nat /\ i \in DOMAIN rows'
    BY <1>1
  <1>4. \A i \in OwnedChanges(t, c) : i \in OwnedChanges(t, c)' /\ i \in DOMAIN rows /\ rows'[i] = rows[i]
    BY <1>1, <1>2 DEF OwnedChanges, SameRows
  <1>5. \A i \in OwnedChanges(t, c)' : i \in OwnedChanges(t, c)
    BY <1>1, <1>3 DEF OwnedChanges, SameRows
  <1> QED  BY <1>4, <1>5

\* What the table says of a session's changes stays as it is.
LEMMA LinksKept ==
    ASSUME Types, Types', NEW t \in Session, SameRows(t), NEW c \in Nat
    PROVE  /\ Untraceable(t, c)' <=> Untraceable(t, c)
           /\ \A f, from, to : Linked(t, c, f, from, to) => Linked(t, c, f, from, to)'
  <1>1. /\ OwnedChanges(t, c)' = OwnedChanges(t, c)
        /\ \A i \in OwnedChanges(t, c) : rows'[i] = rows[i]
    BY ChangesKept
  <1>2. Untraceable(t, c)' <=> Untraceable(t, c)
    BY <1>1 DEF Untraceable
  <1>3. ASSUME NEW f, NEW from, NEW to, Linked(t, c, f, from, to) PROVE Linked(t, c, f, from, to)'
    <2>1. /\ ChangesOf(t, c, f)' = ChangesOf(t, c, f)
          /\ \A i \in ChangesOf(t, c, f) : rows'[i] = rows[i]
      BY <1>1 DEF ChangesOf
    <2>2. Chained(t, c, f)'
      BY <1>3, <2>1 DEF Linked, Chained
    <2> QED  BY <1>3, <2>1, <2>2 DEF Linked
  <1> QED  BY <1>2, <1>3

\* What a step does not touch of a session stays followed.
LEMMA TracedKept ==
    ASSUME IInv, Types', NEW t \in Session, Traced(t), SameRows(t), PointsStay(t),
           \A f \in File : Elsewhere(t, f) \/ Now(t, f)' = Now(t, f)
    PROVE  Traced(t)'
  <1> SUFFICES ASSUME NEW k \in DOMAIN points'[t], ~Untraceable(t, points[t][k].cursor)',
                      NEW f \in File \ points'[t][k].foreign
               PROVE  Linked(t, points[t][k].cursor, f, points[t][k].files[f], Now(t, f))'
    BY DEF Traced
  <1>1. /\ k \in DOMAIN points[t] /\ points[t] \in Seq(PointType)
        /\ points'[t][k].cursor = points[t][k].cursor /\ points'[t][k].files = points[t][k].files
        /\ f \in File \ points[t][k].foreign
    BY DEF PointsStay, IInv, Types
  <1>2. PICK c, from, to : c = points[t][k].cursor /\ from = points[t][k].files[f] /\ to = Now(t, f)
    OBVIOUS
  <1>3. c \in Nat
    <2>1. points[t][k] \in PointType
      BY <1>1
    <2> QED  BY <1>2, <2>1 DEF PointType
  <1>4. Now(t, f)' = to
    BY <1>1, <1>2 DEF Elsewhere
  <1>5. /\ Untraceable(t, c)' <=> Untraceable(t, c)
        /\ Linked(t, c, f, from, to) => Linked(t, c, f, from, to)'
    BY <1>3, LinksKept DEF IInv
  <1>6. Linked(t, c, f, from, to)
    <2>1. ~Untraceable(t, c)
      BY <1>1, <1>2, <1>5
    <2> QED  BY <1>1, <1>2, <2>1 DEF Traced
  <1> QED  BY <1>1, <1>2, <1>4, <1>5, <1>6

LEMMA LimitedKept ==
    ASSUME IInv, Types', NEW t \in Session, Limited(t), SameRows(t), PointsStay(t),
           op'[t].pc = "untraced" => op[t].pc = "untraced"
    PROVE  Limited(t)'
  <1> SUFFICES ASSUME op'[t].pc = "untraced", NEW k \in DOMAIN points'[t]
               PROVE  Untraceable(t, points[t][k].cursor)'
    BY DEF Limited
  <1>1. /\ k \in DOMAIN points[t] /\ points[t] \in Seq(PointType)
        /\ points'[t][k].cursor = points[t][k].cursor
    BY DEF PointsStay, IInv, Types
  <1>2. PICK c : c = points[t][k].cursor
    OBVIOUS
  <1>3. c \in Nat
    <2>1. points[t][k] \in PointType
      BY <1>1
    <2> QED  BY <1>2, <2>1 DEF PointType
  <1>4. Untraceable(t, c)' <=> Untraceable(t, c)
    BY <1>3, LinksKept DEF IInv
  <1> QED  BY <1>1, <1>2, <1>4 DEF Limited

LEMMA FollowedKept ==
    ASSUME IInv, Types', NEW t \in Session, Followed(t), SameRows(t), PointsStay(t),
           \A f \in File : Elsewhere(t, f) \/ Now(t, f)' = Now(t, f),
           op'[t].pc = "untraced" => op[t].pc = "untraced",
           op'[t].pc = "write" =>
              \/ disk'[op'[t].file] = op'[t].old
              \/ op'[t] = op[t] /\ (disk' = disk \/ \E g \in File : Elsewhere(t, g)
                                                      /\ disk' = [disk EXCEPT ![g] = disk'[g]])
    PROVE  Followed(t)'
  <1>1. Traced(t)' /\ Limited(t)'
    BY TracedKept, LimitedKept DEF Followed
  <1>2. Unwritten(t)'
    <2> SUFFICES ASSUME op'[t].pc = "write", NEW k \in DOMAIN points'[t],
                        op'[t].file \notin points'[t][k].foreign, disk'[op'[t].file] # op'[t].old
                 PROVE  FALSE
      BY DEF Unwritten
    <2>1. k \in DOMAIN points[t] /\ points[t][k].foreign \subseteq points'[t][k].foreign
      BY DEF PointsStay
    <2>2. op'[t] = op[t]
      OBVIOUS
    <2>3. disk[op[t].file] = op[t].old
      BY <2>1, <2>2 DEF Followed, Unwritten
    <2>4. PICK g \in File : Elsewhere(t, g) /\ disk' = [disk EXCEPT ![g] = disk'[g]]
      BY <2>2, <2>3
    <2>5. g # op[t].file
      BY <2>1, <2>2, <2>4 DEF Elsewhere
    <2>6. op[t].file \in File /\ disk \in [File -> Content]
      BY <2>2 DEF IInv, Types, Begun, Ready
    <2>7. disk'[op[t].file] = disk[op[t].file]
      BY <2>4, <2>5, <2>6
    <2> QED  BY <2>2, <2>3, <2>7
  <1> QED  BY <1>1, <1>2 DEF Followed

\* A step that leaves the operation of a session and its transactions alone, and the disk but for
\* a file that somebody else changes for it.
LEMMA Aside ==
    ASSUME IInv, Types', OneTx, OneTx', NEW t \in Session, Followed(t), op'[t] = op[t],
           SameRows(t), PointsStay(t), SameTxs(t),
           \/ disk' = disk
           \/ \E g \in File : Elsewhere(t, g) /\ disk' = [disk EXCEPT ![g] = disk'[g]]
    PROVE  Followed(t)'
  <1>1. ASSUME NEW f \in File PROVE Elsewhere(t, f) \/ Now(t, f)' = Now(t, f)
    <2>1. Elsewhere(t, f) \/ disk'[f] = disk[f]
      BY DEF IInv, Types
    <2>2. Writing(t, f) <=> Writing(t, f)'
      BY DEF Writing
    <2> QED  BY <2>1, <2>2, NowKept
  <1> QED  BY <1>1, FollowedKept

\* The parts of a step.
LEMMA SameRowsWhenSame ==
    ASSUME rows' = rows, NEW t
    PROVE  SameRows(t)
  BY DEF SameRows

LEMMA SameTxsWhenSame ==
    ASSUME txs' = txs, NEW t
    PROVE  SameTxs(t)
  BY DEF SameTxs

LEMMA PointsStayWhenSame ==
    ASSUME points' = points, NEW t
    PROVE  PointsStay(t)
  BY DEF PointsStay

LEMMA RowOfOther ==
    ASSUME Types, NEW row, rows' = Append(rows, row), NEW t, row.session # t
    PROVE  SameRows(t)
  <1>1. Len(rows) \in Nat /\ DOMAIN rows = 1 .. Len(rows)
    BY DEF Types
  <1>2. DOMAIN rows' = 1 .. Len(rows) + 1 /\ rows'[Len(rows) + 1] = row
        /\ \A i \in 1 .. Len(rows) : rows'[i] = rows[i]
    BY <1>1 DEF Types
  <1>3. \A i \in DOMAIN rows' : i \in DOMAIN rows \/ i = Len(rows) + 1
    BY <1>1, <1>2
  <1> QED  BY <1>1, <1>2, <1>3 DEF SameRows

LEMMA NotedForeign ==
    ASSUME Types, NEW a, NEW f \in File, points' = Foreign(a, f)
    PROVE  \A t \in Session : PointsStay(t) /\ (t # a => Elsewhere(t, f))
  <1>1. ASSUME NEW t \in Session PROVE PointsStay(t) /\ (t # a => Elsewhere(t, f))
    <2>1. CASE t = a
      BY <2>1 DEF Foreign, PointsStay
    <2>2. CASE t # a
      <3>1. points'[t] = [k \in DOMAIN points[t] |-> [points[t][k] EXCEPT !.foreign = @ \cup {f}]]
        BY <2>2 DEF Foreign
      <3>2. \A k \in DOMAIN points[t] : points[t][k] \in PointType
        BY DEF Types
      <3>3. \A k \in DOMAIN points[t] :
               /\ points'[t][k].cursor = points[t][k].cursor
               /\ points'[t][k].files = points[t][k].files
               /\ points'[t][k].foreign = points[t][k].foreign \cup {f}
        BY <3>1, <3>2 DEF PointType
      <3> QED  BY <3>1, <3>3 DEF PointsStay, Elsewhere
    <2> QED  BY <2>1, <2>2
  <1> QED  BY <1>1

LEMMA NotedLost ==
    ASSUME Types, NEW files,
           points' = [t \in Session |->
                         [k \in DOMAIN points[t] |->
                             [points[t][k] EXCEPT !.foreign = @ \cup files]]]
    PROVE  \A t \in Session : PointsStay(t) /\ \A f \in files : Elsewhere(t, f)
  <1>1. ASSUME NEW t \in Session PROVE PointsStay(t) /\ \A f \in files : Elsewhere(t, f)
    <2>1. points'[t] = [k \in DOMAIN points[t] |-> [points[t][k] EXCEPT !.foreign = @ \cup files]]
      OBVIOUS
    <2>2. \A k \in DOMAIN points[t] : points[t][k] \in PointType
      BY DEF Types
    <2>3. \A k \in DOMAIN points[t] :
             /\ points'[t][k].cursor = points[t][k].cursor
             /\ points'[t][k].files = points[t][k].files
             /\ points'[t][k].foreign = points[t][k].foreign \cup files
      BY <2>1, <2>2 DEF PointType
    <2> QED  BY <2>1, <2>3 DEF PointsStay, Elsewhere
  <1> QED  BY <1>1

\* A session that may begin something has no transaction.
LEMMA FreeOfTx ==
    ASSUME IInv, ~RollbackMayFail, NEW s \in Session, up[ProcOf[s]], op[s].pc \notin InTx
    PROVE  \A x \in txs : x.session # s
  BY DEF IInv, Rowed

LEMMA PlannedKept ==
    ASSUME IInv, IInv', [Next]_vars, Planned,
           \A y \in txs' : op'[y.session].pc \in {"files", "commit"} =>
              /\ op[y.session].pc \in {"files", "commit"}
              /\ op'[y.session].point = op[y.session].point
              /\ \E x \in txs : x.session = y.session /\ x.before = y.before /\ x.after = y.after
    PROVE  Planned'
  <1> SUFFICES ASSUME NEW y \in txs', op'[y.session].pc \in {"files", "commit"}
               PROVE  Plans(y)'
    BY DEF Planned
  <1>1. PICK s : s = y.session
    OBVIOUS
  <1>2. s \in Session
    BY <1>1 DEF IInv, Types, TxShape, TxOK
  <1>3. PICK x \in txs : x.session = s /\ x.before = y.before /\ x.after = y.after
    BY <1>1
  <1>4. rows' = rows /\ Cursor(s)' = Cursor(s)
    BY <1>1, <1>2, DecidedStays DEF Decided
  <1>5. Plans(x)
    BY <1>1, <1>3 DEF Planned
  <1>6. /\ ChangedFiles(s, Cursor(s))' = ChangedFiles(s, Cursor(s))
        /\ Untraceable(s, Cursor(s))' <=> Untraceable(s, Cursor(s))
        /\ \A f : Target(s, Cursor(s), f)' = Target(s, Cursor(s), f)
    BY <1>4 DEF ChangedFiles, Untraceable, Target, ChangesOf, OwnedChanges
  <1> QED  BY <1>1, <1>3, <1>5, <1>6 DEF Plans

LEMMA OrderedKept ==
    ASSUME Ordered, \A t \in Session : PointsStay(t)
    PROVE  Ordered'
  BY DEF Ordered, PointsStay

\* The transactions stay, and so do the points.
LEMMA Undisturbed ==
    ASSUME IInv, IInv', [Next]_vars, Chains, txs' = txs, \A t \in Session : PointsStay(t) /\ Followed(t)',
           \A t \in Session : op'[t].pc \in {"files", "commit"} =>
              op[t].pc \in {"files", "commit"} /\ op'[t].point = op[t].point
    PROVE  Chains'
  <1>1. \A x \in txs : x.session \in Session
    BY DEF IInv, Types, TxShape, TxOK
  <1>2. OneTx' /\ Ordered'
    BY OrderedKept DEF Chains, OneTx
  <1>3. Planned'
    BY <1>1, PlannedKept DEF Chains
  <1>4. Noted'
    BY <1>1 DEF Chains, Noted, PointsStay
  <1> QED  BY <1>2, <1>3, <1>4 DEF Chains

\* Neither a change, nor a transaction, nor a point, nor a file.
LEMMA Bookkeeping ==
    ASSUME IInv, IInv', [Next]_vars, Chains, UNCHANGED <<rows, txs, disk, points>>,
           \A t \in Session :
              \/ op'[t] = op[t]
              \/ /\ op[t].pc \notin {"write", "written"}
                 /\ op'[t].pc \notin {"write", "written", "untraced"}
                 /\ op'[t].pc \in {"files", "commit"} =>
                        op[t].pc \in {"files", "commit"} /\ op'[t].point = op[t].point
    PROVE  Chains'
  <1>1. ASSUME NEW t \in Session PROVE PointsStay(t) /\ Followed(t)'
    <2>1. PointsStay(t) /\ SameRows(t) /\ SameTxs(t) /\ OneTx /\ OneTx' /\ Followed(t) /\ Types'
      BY PointsStayWhenSame, SameRowsWhenSame, SameTxsWhenSame DEF Chains, OneTx, IInv
    <2>2. CASE op'[t] = op[t]
      BY <2>1, <2>2, Aside
    <2>3. CASE op[t].pc \notin {"write", "written"} /\ op'[t].pc \notin {"write", "written", "untraced"}
      <3>1. \A f \in File : Now(t, f)' = Now(t, f)
        BY <2>1, <2>3, NowKept DEF Writing
      <3> QED  BY <2>1, <2>3, <3>1, FollowedKept
    <2> QED  BY <2>1, <2>2, <2>3
  <1> QED  BY <1>1, Undisturbed

LEMMA WriteBeginFollowed ==
    ASSUME IInv, IInv', Chains, ~RollbackMayFail, NEW s \in Session, NEW f \in File, WriteBegin(s, f)
    PROVE  Chains'
  <1>1. UNCHANGED <<rows, txs, disk, points>> /\ op[s].pc = "idle" /\ up[ProcOf[s]]
    BY DEF WriteBegin, Idle
  <1>2. /\ op'[s].pc = "write" /\ op'[s].file = f /\ op'[s].old = disk[f]
        /\ \A t \in Session \ {s} : op'[t] = op[t]
    BY DEF WriteBegin, Resting, IInv, Types
  <1>3. OneTx /\ OneTx' /\ [Next]_vars
    BY <1>1 DEF Chains, OneTx, Next
  <1>4. ASSUME NEW t \in Session PROVE PointsStay(t) /\ SameRows(t) /\ SameTxs(t) /\ Followed(t)
    BY <1>1, PointsStayWhenSame, SameRowsWhenSame, SameTxsWhenSame DEF Chains
  <1>5. Followed(s)'
    <2>1. ASSUME NEW g \in File PROVE Now(s, g)' = Now(s, g)
      <3>1. \A x \in txs : ~Covers(x, s, g)
        BY <1>1, FreeOfTx DEF Covers, InTx
      <3>2. Now(s, g) = disk[g]
        BY <1>1, <1>3, <3>1, ReadNow DEF Writing
      <3>3. Now(s, g)' = disk[g]
        BY <1>1, <1>2, <3>1 DEF Now, Writing
      <3> QED  BY <3>2, <3>3
    <2> QED  BY <1>1, <1>2, <1>4, <2>1, FollowedKept DEF IInv
  <1>6. ASSUME NEW t \in Session \ {s} PROVE Followed(t)'
    BY <1>1, <1>2, <1>3, <1>4, Aside DEF IInv
  <1> QED  BY <1>1, <1>2, <1>3, <1>4, <1>5, <1>6, Undisturbed

LEMMA WriteFileFollowed ==
    ASSUME IInv, IInv', Chains, NEW s \in Session, NEW v \in Content, WriteFile(s, v)
    PROVE  Chains'
  <1> DEFINE f == op[s].file
  <1>1. /\ rows' = rows /\ txs' = txs /\ disk' = [disk EXCEPT ![f] = v] /\ points' = Foreign(s, f)
        /\ op[s].pc = "write"
    BY DEF WriteFile
  <1>2. /\ op'[s].pc = "written" /\ op'[s].file = f /\ op'[s].old = op[s].old
        /\ \A t \in Session \ {s} : op'[t] = op[t]
    BY DEF WriteFile, IInv, Types, OpType
  <1>3. OneTx /\ OneTx' /\ [Next]_vars /\ f \in File /\ disk \in [File -> Content]
    BY <1>1 DEF Chains, OneTx, Next, Proceed, IInv, Begun, Ready, Types
  <1>4. disk' = [disk EXCEPT ![f] = disk'[f]]
    BY <1>1, <1>3
  <1> HIDE DEF f
  <1>5. \A t \in Session : PointsStay(t) /\ (t # s => Elsewhere(t, f))
    BY <1>1, <1>3, NotedForeign DEF IInv
  <1>6. ASSUME NEW t \in Session PROVE SameRows(t) /\ SameTxs(t) /\ Followed(t)
    BY <1>1, SameRowsWhenSame, SameTxsWhenSame DEF Chains
  <1>7. Followed(s)'
    <2>1. ASSUME NEW g \in File PROVE Now(s, g)' = Now(s, g)
      <3>1. Writing(s, g) <=> Writing(s, g)'
        BY <1>1, <1>2 DEF Writing, f
      <3>2. disk'[g] = disk[g] \/ Writing(s, g)
        BY <1>1, <1>3 DEF Writing, f
      <3> QED  BY <1>2, <1>3, <1>6, <3>1, <3>2, NowKept
    <2> QED  BY <1>2, <1>5, <1>6, <2>1, FollowedKept DEF IInv
  <1>8. ASSUME NEW t \in Session \ {s} PROVE Followed(t)'
    BY <1>2, <1>3, <1>4, <1>5, <1>6, Aside DEF IInv
  <1> QED  BY <1>1, <1>2, <1>3, <1>5, <1>7, <1>8, Undisturbed

\* A session's transaction writes one of its files, or a recovery does for it: to all others the
\* file is changed, and the session itself has yet to see how its transaction ends.
LEMMA OneFile ==
    ASSUME IInv, IInv', [Next]_vars, Chains, UNCHANGED <<rows, txs>>,
           NEW x \in txs, NEW f \in DOMAIN x.before, NEW v, disk' = [disk EXCEPT ![f] = v],
           points' = Foreign(x.session, f),
           op[x.session].pc \notin {"write", "written"},
           op'[x.session].pc \notin {"write", "written", "untraced"},
           op'[x.session].pc \in {"files", "commit"} =>
              op[x.session].pc \in {"files", "commit"} /\ op'[x.session].point = op[x.session].point,
           \A t \in Session \ {x.session} : op'[t] = op[t]
    PROVE  Chains'
  <1>1. PICK s : s = x.session
    OBVIOUS
  <1>2. s \in Session /\ f \in File
    BY <1>1 DEF IInv, Types, TxShape, TxOK
  <1>3. disk \in [File -> Content] /\ disk' = [disk EXCEPT ![f] = disk'[f]]
    BY <1>2 DEF IInv, Types
  <1>4. \A t \in Session : PointsStay(t) /\ (t # s => Elsewhere(t, f))
    BY <1>1, <1>2, NotedForeign DEF IInv
  <1>5. OneTx /\ OneTx' /\ Types'
    BY DEF Chains, OneTx, IInv
  <1>6. ASSUME NEW t \in Session PROVE SameRows(t) /\ SameTxs(t) /\ Followed(t)
    BY SameRowsWhenSame, SameTxsWhenSame DEF Chains
  <1>7. Followed(s)'
    <2>1. ASSUME NEW g \in File PROVE Now(s, g)' = Now(s, g)
      <3>1. ~Writing(s, g) /\ ~Writing(s, g)'
        BY <1>1 DEF Writing
      <3>2. disk'[g] = disk[g] \/ Covers(x, s, g)
        BY <1>1, <1>2, <1>3 DEF Covers
      <3> QED  BY <1>2, <1>5, <1>6, <3>1, <3>2, NowKept
    <2> QED  BY <1>1, <1>2, <1>4, <1>5, <1>6, <2>1, FollowedKept
  <1>8. ASSUME NEW t \in Session \ {s} PROVE Followed(t)'
    BY <1>1, <1>2, <1>3, <1>4, <1>5, <1>6, Aside
  <1>9. \A t \in Session : op'[t].pc \in {"files", "commit"} =>
              op[t].pc \in {"files", "commit"} /\ op'[t].point = op[t].point
    BY <1>1
  <1> QED  BY <1>4, <1>7, <1>8, <1>9, Undisturbed

LEMMA TxFileFollowed ==
    ASSUME IInv, IInv', Chains, NEW s \in Session, NEW f \in File, RewindFile(s, f) \/ RollbackFile(s, f)
    PROVE  Chains'
  <1> DEFINE x == TxOf(s)
  <1>1. op[s].pc \in {"files", "undo"} /\ f \in op[s].todo /\ op[s].pc \in InTx
    BY DEF RewindFile, RollbackFile, InTx
  <1>2. x \in txs /\ x.session = s /\ Progress(x, op[s])
    BY <1>1, InItsTx
  <1>3. f \in DOMAIN x.before
    BY <1>1, <1>2 DEF Progress
  <1>4. /\ UNCHANGED <<rows, txs>> /\ points' = Foreign(s, f)
        /\ \E v : disk' = [disk EXCEPT ![f] = v]
    BY DEF RewindFile, RollbackFile
  <1>5. /\ op'[s].pc = op[s].pc /\ op'[s].point = op[s].point
        /\ \A t \in Session \ {s} : op'[t] = op[t]
    BY DEF RewindFile, RollbackFile, IInv, Types, OpType
  <1>6. [Next]_vars
    BY DEF Next, Proceed
  <1> HIDE DEF x
  <1> QED  BY <1>1, <1>2, <1>3, <1>4, <1>5, <1>6, OneFile

LEMMA RecoverFileFollowed ==
    ASSUME IInv, IInv', Chains, NEW p \in Proc, NEW f \in File, RecoverFile(p, f)
    PROVE  Chains'
  <1>1. rec[p].pc = "restore" /\ rec[p].pc \in Recovering /\ Reads(rec[p]) /\ Restores(rec[p])
    BY DEF RecoverFile, Recovering, IInv, Recovered
  <1>2. PICK x \in txs : SameTx(x, rec[p].at)
    BY <1>1 DEF Reads, Restores
  <1>3. /\ UNCHANGED <<rows, txs, op>> /\ points' = Foreign(x.session, f)
        /\ \E v : disk' = [disk EXCEPT ![f] = v]
        /\ f \in DOMAIN x.before
    BY <1>1, <1>2 DEF RecoverFile, SameTx, Restores
  <1>4. x.session \in Session /\ op[x.session].pc = "idle"
    BY <1>1, WhileRecovering DEF IInv, Types, TxShape, TxOK
  <1>5. [Next]_vars
    BY DEF Next, Recover
  <1> QED  BY <1>3, <1>4, <1>5, OneFile

\* A command that cannot be traced changes a file, for its own session too; the session's points are
\* limited.
LEMMA UntracedEndFollowed ==
    ASSUME IInv, IInv', Chains, NEW s \in Session, UntracedEnd(s)
    PROVE  Chains'
  <1>1. PICK f \in File, v \in Content : disk' = [disk EXCEPT ![f] = v] /\ points' = Foreign(s, f)
    BY DEF UntracedEnd
  <1>2. disk \in [File -> Content] /\ disk' = [disk EXCEPT ![f] = disk'[f]]
    BY <1>1 DEF IInv, Types
  <1>3. \A t \in Session : PointsStay(t) /\ (t # s => Elsewhere(t, f))
    BY <1>1, NotedForeign DEF IInv
  <1>4. UNCHANGED <<rows, txs>> /\ OneTx /\ OneTx' /\ Types' /\ op[s].pc = "untraced" /\ [Next]_vars
    BY DEF UntracedEnd, Chains, OneTx, IInv, Next, Proceed
  <1>5. ASSUME NEW t \in Session PROVE SameRows(t) /\ SameTxs(t) /\ Followed(t)
    BY <1>4, SameRowsWhenSame, SameTxsWhenSame DEF Chains
  <1>6. op'[s].pc = "idle" /\ \A t \in Session \ {s} : op'[t] = op[t]
    BY DEF UntracedEnd, Resting, IInv, Types
  <1>7. Followed(s)'
    <2>1. ASSUME NEW k \in DOMAIN points'[s] PROVE Untraceable(s, points[s][k].cursor)'
      <3>1. Untraceable(s, points[s][k].cursor)
        BY <1>3, <1>4, <1>5 DEF PointsStay, Followed, Limited
      <3> QED  BY <1>3, <1>4, <3>1 DEF PointsStay, Untraceable, OwnedChanges
    <2> QED  BY <1>6, <2>1 DEF Followed, Traced, Unwritten, Limited
  <1>8. ASSUME NEW t \in Session \ {s} PROVE Followed(t)'
    BY <1>2, <1>3, <1>4, <1>5, <1>6, Aside
  <1> QED  BY <1>3, <1>4, <1>6, <1>7, <1>8, Undisturbed

\* From now on no point of the session can be traced.
LEMMA UntracedBeginFollowed ==
    ASSUME IInv, IInv', Chains, NEW s \in Session, UntracedBegin(s)
    PROVE  Chains'
  <1> DEFINE row == ChangeRow(s, NoPath, None, None)
  <1>1. UNCHANGED <<txs, disk, points>> /\ rows' = Append(rows, row) /\ OneTx /\ OneTx' /\ Types' /\ [Next]_vars
    BY DEF UntracedBegin, Chains, OneTx, IInv, Next
  <1>2. op'[s].pc = "untraced" /\ \A t \in Session \ {s} : op'[t] = op[t]
    BY DEF UntracedBegin, Resting, IInv, Types
  <1>3. ASSUME NEW t \in Session PROVE PointsStay(t) /\ SameTxs(t) /\ Followed(t)
    BY <1>1, PointsStayWhenSame, SameTxsWhenSame DEF Chains
  <1>4. ASSUME NEW k \in DOMAIN points'[s] PROVE Untraceable(s, points[s][k].cursor)'
    <2>1. /\ Len(rows) \in Nat /\ points[s] \in Seq(PointType) /\ points' = points
          /\ points[s][k].cursor <= Len(rows)
      BY <1>1 DEF IInv, Types
    <2>2. points[s][k].cursor \in Nat
      <3>1. points[s][k] \in PointType
        BY <2>1
      <3> QED  BY <3>1 DEF PointType
    <2>3. Len(rows') = Len(rows) + 1 /\ rows'[Len(rows) + 1] = row
      BY <1>1 DEF IInv, Types
    <2>4. row.session = s /\ row.path = NoPath /\ ~row.reverted
      BY DEF ChangeRow
    <2> HIDE DEF row
    <2>5. Len(rows) + 1 \in points[s][k].cursor + 1 .. Len(rows')
      BY <2>1, <2>2, <2>3
    <2> QED  BY <2>1, <2>3, <2>4, <2>5 DEF Untraceable, OwnedChanges
  <1>5. Followed(s)'
    BY <1>2, <1>4 DEF Followed, Traced, Unwritten, Limited
  <1>6. ASSUME NEW t \in Session \ {s} PROVE Followed(t)'
    <2>1. row.session # t
      BY DEF ChangeRow
    <2>2. SameRows(t)
      BY <1>1, <2>1, RowOfOther DEF IInv
    <2> QED  BY <1>1, <1>2, <1>3, <2>2, Aside
  <1> QED  BY <1>1, <1>2, <1>3, <1>5, <1>6, Undisturbed

\* One more change of the session: what it says of the others, and of its own file.
LEMMA OneMoreChange ==
    ASSUME Types, NEW row \in RowType, rows' = Append(rows, row), NEW s, row.session = s, ~row.reverted,
           NEW c \in Nat, c <= Len(rows)
    PROVE  /\ \A i \in OwnedChanges(s, c) : i \in 1 .. Len(rows) /\ rows'[i] = rows[i]
           /\ \A f : ChangesOf(s, c, f)' = IF f = row.path THEN ChangesOf(s, c, f) \cup {Len(rows) + 1}
                                           ELSE ChangesOf(s, c, f)
           /\ rows'[Len(rows) + 1] = row
           /\ Untraceable(s, c) => Untraceable(s, c)'
  <1>1. Len(rows) \in Nat /\ DOMAIN rows = 1 .. Len(rows)
    BY DEF Types
  <1>2. Len(rows') = Len(rows) + 1 /\ rows'[Len(rows) + 1] = row
        /\ \A i \in 1 .. Len(rows) : rows'[i] = rows[i]
    BY <1>1 DEF Types
  <1>3. \A i \in OwnedChanges(s, c) : i \in 1 .. Len(rows) /\ rows'[i] = rows[i]
    BY <1>1, <1>2 DEF OwnedChanges
  <1>4. OwnedChanges(s, c)' = OwnedChanges(s, c) \cup {Len(rows) + 1}
    <2>1. c + 1 .. Len(rows') = (c + 1 .. Len(rows)) \cup {Len(rows) + 1}
      BY <1>1, <1>2
    <2>2. \A i \in c + 1 .. Len(rows) : rows'[i] = rows[i]
      BY <1>1, <1>2
    <2> QED  BY <1>2, <2>1, <2>2 DEF OwnedChanges
  <1>5. ASSUME NEW f
        PROVE  ChangesOf(s, c, f)' = IF f = row.path THEN ChangesOf(s, c, f) \cup {Len(rows) + 1}
                                     ELSE ChangesOf(s, c, f)
    BY <1>2, <1>3, <1>4 DEF ChangesOf
  <1>6. Untraceable(s, c) => Untraceable(s, c)'
    BY <1>3, <1>4 DEF Untraceable
  <1> QED  BY <1>2, <1>3, <1>5, <1>6

LEMMA LinkGrows ==
    ASSUME Types, NEW row \in RowType, rows' = Append(rows, row), NEW s, row.session = s, ~row.reverted,
           NEW c \in Nat, c <= Len(rows), NEW f, NEW from
    PROVE  /\ f = row.path => (Linked(s, c, f, from, row.before) => Linked(s, c, f, from, row.after)')
           /\ f # row.path => \A to : Linked(s, c, f, from, to) => Linked(s, c, f, from, to)'
  <1> DEFINE S == ChangesOf(s, c, f)
             n == Len(rows) + 1
  <1>1. /\ \A i \in S : i \in 1 .. Len(rows) /\ rows'[i] = rows[i]
        /\ rows'[n] = row /\ Len(rows) \in Nat
        /\ ChangesOf(s, c, f)' = IF f = row.path THEN S \cup {n} ELSE S
    <2>1. \A i \in S : i \in OwnedChanges(s, c)
      BY DEF ChangesOf
    <2>2. Len(rows) \in Nat
      BY DEF Types
    <2> QED  BY <2>1, <2>2, OneMoreChange
  <1>2. ASSUME f = row.path, Linked(s, c, f, from, row.before) PROVE Linked(s, c, f, from, row.after)'
    <2>1. /\ S = {} => from = row.before
          /\ \A i \in S : (\A j \in S : i <= j) => rows[i].before = from
          /\ \A i \in S : (\A j \in S : j <= i) => rows[i].after = row.before
          /\ \A i, j \in S : i < j /\ (\A k \in S : k <= i \/ k >= j) => rows[i].after = rows[j].before
      BY <1>2 DEF Linked, Chained
    <2>2. n \in Nat /\ \A i \in S : i < n /\ i \in Nat
      BY <1>1
    <2> HIDE DEF S, n
    <2>3. ChangesOf(s, c, f)' = S \cup {n}
      BY <1>1, <1>2
    <2>4. ASSUME NEW i \in S \cup {n}, \A j \in S \cup {n} : i <= j PROVE rows'[i].before = from
      <3>1. CASE i \in S
        BY <1>1, <2>1, <2>4, <3>1
      <3>2. CASE i = n
        <4>1. S = {}
          BY <2>2, <2>4, <3>2
        <4> QED  BY <1>1, <2>1, <3>2, <4>1
      <3> QED  BY <3>1, <3>2
    <2>5. ASSUME NEW i \in S \cup {n}, \A j \in S \cup {n} : j <= i PROVE rows'[i].after = row.after
      <3>1. n <= i
        BY <2>5
      <3>2. i = n
        BY <2>2, <3>1
      <3> QED  BY <1>1, <3>2
    <2>6. ASSUME NEW i \in S \cup {n}, NEW j \in S \cup {n}, i < j, \A k \in S \cup {n} : k <= i \/ k >= j
          PROVE  rows'[i].after = rows'[j].before
      <3>1. i \in S
        BY <2>2, <2>6
      <3>2. CASE j \in S
        BY <1>1, <2>1, <2>6, <3>1, <3>2
      <3>3. CASE j = n
        <4>1. \A k \in S : k <= i
          BY <2>2, <2>6, <3>1, <3>3
        <4> QED  BY <1>1, <2>1, <3>1, <3>3, <4>1
      <3> QED  BY <3>2, <3>3
    <2> QED  BY <2>3, <2>4, <2>5, <2>6 DEF Linked, Chained
  <1>3. ASSUME f # row.path, NEW to, Linked(s, c, f, from, to) PROVE Linked(s, c, f, from, to)'
    <2>1. ChangesOf(s, c, f)' = S
      BY <1>1, <1>3
    <2> QED  BY <1>1, <1>3, <2>1 DEF Linked, Chained
  <1> QED  BY <1>2, <1>3

\* A write is recorded: its row starts from what the previous one left.
LEMMA WriteEndFollowed ==
    ASSUME IInv, IInv', Chains, ~RollbackMayFail, NEW s \in Session, WriteEnd(s)
    PROVE  Chains'
  <1>0. PICK f, row : f = op[s].file /\ row = ChangeRow(s, f, op[s].old, disk[f])
    OBVIOUS
  <1>1. /\ UNCHANGED <<txs, disk, points>> /\ op[s].pc \in {"write", "written"} /\ up[ProcOf[s]]
        /\ rows' = IF op[s].old = disk[f] THEN rows ELSE Append(rows, row)
    BY <1>0 DEF WriteEnd, Recorded, IInv, Leased
  <1>2. op'[s].pc = "idle" /\ \A t \in Session \ {s} : op'[t] = op[t]
    BY DEF WriteEnd, Resting, IInv, Types
  <1>3. OneTx /\ OneTx' /\ [Next]_vars /\ Types /\ Types'
    BY <1>1 DEF Chains, OneTx, Next, Proceed, IInv
  <1>4. ASSUME NEW t \in Session PROVE PointsStay(t) /\ SameTxs(t) /\ Followed(t)
    BY <1>1, PointsStayWhenSame, SameTxsWhenSame DEF Chains
  <1>5. row.session = s /\ row.path = f /\ ~row.reverted /\ row.before = op[s].old /\ row.after = disk[f]
    BY <1>0 DEF ChangeRow
  <1>6. row \in RowType /\ f # NoPath
    <2>1. f \in File /\ op[s].old \in Content /\ disk[f] \in Content
      BY <1>0, <1>1 DEF IInv, Types, Begun, Ready
    <2> QED  BY <1>0, <2>1, TransactionAssumption DEF RowType, ChangeRow
  <1>7. \A g \in File : /\ Now(s, g) = IF g = f THEN op[s].old ELSE disk[g]
                        /\ Now(s, g)' = disk[g]
    <2>1. \A x \in txs, g \in File : ~Covers(x, s, g)
      BY <1>1, FreeOfTx DEF Covers, InTx
    <2>2. \A g \in File : Now(s, g)' = disk[g]
      BY <1>1, <1>2, <2>1 DEF Now, Writing
    <2>3. \A g \in File : Now(s, g) = IF g = f THEN op[s].old ELSE disk[g]
      BY <1>0, <1>1, <2>1 DEF Now, Writing
    <2> QED  BY <2>2, <2>3
  <1>8. CASE rows' = rows /\ op[s].old = disk[f]
    <2>1. \A g \in File : Now(s, g)' = Now(s, g)
      BY <1>7, <1>8
    <2>2. \A t \in Session : SameRows(t)
      BY <1>8, SameRowsWhenSame
    <2>3. Followed(s)'
      BY <1>2, <1>3, <1>4, <2>1, <2>2, FollowedKept
    <2>4. ASSUME NEW t \in Session \ {s} PROVE Followed(t)'
      BY <1>1, <1>2, <1>3, <1>4, <2>2, Aside
    <2> QED  BY <1>1, <1>2, <1>3, <1>4, <2>3, <2>4, Undisturbed
  <1>9. CASE rows' = Append(rows, row)
    <2>1. ASSUME NEW k \in DOMAIN points'[s], ~Untraceable(s, points[s][k].cursor)',
                 NEW g \in File \ points'[s][k].foreign
          PROVE  Linked(s, points[s][k].cursor, g, points[s][k].files[g], Now(s, g))'
      <3>1. points' = points /\ points[s] \in Seq(PointType) /\ points[s][k].cursor <= Len(rows)
        BY <1>1 DEF IInv, Types
      <3>2. PICK c, from, to : c = points[s][k].cursor /\ from = points[s][k].files[g] /\ to = Now(s, g)
        OBVIOUS
      <3>3. c \in Nat /\ c <= Len(rows)
        <4>1. points[s][k] \in PointType
          BY <3>1
        <4> QED  BY <3>1, <3>2, <4>1 DEF PointType
      <3>4. ~Untraceable(s, c)
        BY <1>3, <1>5, <1>6, <1>9, <2>1, <3>1, <3>2, <3>3, OneMoreChange
      <3>5. Linked(s, c, g, from, to)
        BY <1>4, <2>1, <3>1, <3>2, <3>4 DEF Followed, Traced
      <3>6. CASE g = f
        <4>1. to = row.before /\ Now(s, g)' = row.after
          BY <1>5, <1>7, <3>2, <3>6
        <4>2. Linked(s, c, g, from, row.after)'
          BY <1>3, <1>5, <1>6, <1>9, <3>3, <3>5, <3>6, <4>1, LinkGrows
        <4> QED  BY <3>1, <3>2, <4>1, <4>2
      <3>7. CASE g # f
        <4>1. Now(s, g)' = to
          BY <1>7, <2>1, <3>2, <3>7
        <4>2. Linked(s, c, g, from, to)'
          BY <1>3, <1>5, <1>6, <1>9, <3>3, <3>5, <3>7, LinkGrows
        <4> QED  BY <3>1, <3>2, <4>1, <4>2
      <3> QED  BY <3>6, <3>7
    <2>2. Followed(s)'
      BY <1>2, <2>1 DEF Followed, Traced, Unwritten, Limited
    <2>3. ASSUME NEW t \in Session \ {s} PROVE Followed(t)'
      <3>1. SameRows(t)
        BY <1>3, <1>5, <1>9, RowOfOther
      <3> QED  BY <1>1, <1>2, <1>3, <1>4, <3>1, Aside
    <2> QED  BY <1>1, <1>2, <1>3, <1>4, <2>2, <2>3, Undisturbed
  <1> QED  BY <1>1, <1>8, <1>9

\* A new point starts where the session is.
LEMMA CompleteTurnFollowed ==
    ASSUME IInv, IInv', Chains, ~RollbackMayFail, NEW s \in Session, CompleteTurn(s)
    PROVE  Chains'
  <1>1. /\ UNCHANGED <<txs, disk, rows, op>> /\ op[s].pc = "idle" /\ up[ProcOf[s]] /\ [Next]_vars
        /\ Len(rows) \in Nat
    <2>1. [Next]_vars
      BY DEF Next
    <2>2. Len(rows) \in Nat
      BY DEF IInv, Types
    <2> QED  BY <2>1, <2>2 DEF CompleteTurn, Idle
  <1>2. PICK new : new = [cursor |-> Len(rows), files |-> disk, foreign |-> {}]
    OBVIOUS
  <1>3. /\ points'[s] = Append(points[s], new) /\ points[s] \in Seq(PointType)
        /\ \A t \in Session \ {s} : points'[t] = points[t]
    BY <1>2 DEF CompleteTurn, IInv, Types
  <1>4. OneTx /\ OneTx' /\ Types /\ Types'
    BY <1>1 DEF Chains, OneTx, IInv
  <1>5. ASSUME NEW t \in Session PROVE SameRows(t) /\ SameTxs(t) /\ Followed(t)
    BY <1>1, SameRowsWhenSame, SameTxsWhenSame DEF Chains
  <1>6. ASSUME NEW t \in Session \ {s} PROVE PointsStay(t) /\ Followed(t)'
    <2>1. PointsStay(t)
      BY <1>3 DEF PointsStay
    <2> QED  BY <1>1, <1>4, <1>5, <2>1, Aside DEF IInv
  <1>7. PICK n \in Nat : n = Len(points[s])
    BY <1>3
  <1>8. /\ DOMAIN points[s] = 1 .. n /\ DOMAIN points'[s] = 1 .. n + 1
        /\ points'[s][n + 1] = new /\ \A k \in 1 .. n : points'[s][k] = points[s][k]
    BY <1>3, <1>7
  <1>9. \A x \in txs : x.session # s
    BY <1>1, FreeOfTx DEF InTx
  <1>10. Traced(s)'
    <2> SUFFICES ASSUME NEW k \in DOMAIN points'[s], ~Untraceable(s, points[s][k].cursor)',
                        NEW f \in File \ points'[s][k].foreign
                 PROVE  Linked(s, points[s][k].cursor, f, points[s][k].files[f], Now(s, f))'
      BY DEF Traced
    <2>1. Now(s, f) = disk[f] /\ Now(s, f)' = disk[f]
      BY <1>1, <1>9 DEF Now, Writing, Covers
    <2>2. CASE k = n + 1
      <3>1. \A i : i \notin OwnedChanges(s, Len(rows))
        BY <1>1 DEF OwnedChanges
      <3>2. ChangesOf(s, Len(rows), f)' = {}
        BY <1>1, <3>1 DEF ChangesOf, OwnedChanges
      <3> QED  BY <1>1, <1>2, <1>8, <2>1, <2>2, <3>2 DEF Linked, Chained
    <2>3. CASE k \in 1 .. n
      <3>1. points'[s][k] = points[s][k] /\ k \in DOMAIN points[s]
        BY <1>8, <2>3
      <3>2. \A c : Untraceable(s, c)' <=> Untraceable(s, c)
        BY <1>1 DEF Untraceable, OwnedChanges
      <3>3. Linked(s, points[s][k].cursor, f, points[s][k].files[f], disk[f])
        BY <1>5, <2>1, <3>1, <3>2 DEF Followed, Traced
      <3> QED  BY <1>1, <2>1, <3>1, <3>3 DEF Linked, Chained, ChangesOf, OwnedChanges
    <2> QED  BY <1>7, <1>8, <2>2, <2>3
  <1>11. Followed(s)'
    BY <1>1, <1>10 DEF Followed, Unwritten, Limited
  <1>12. Ordered'
    <2>1. ASSUME NEW j \in DOMAIN points'[s], NEW k \in DOMAIN points'[s], j <= k
          PROVE  points'[s][j].cursor <= points'[s][k].cursor
      <3>1. CASE k = n + 1
        <4>1. points'[s][j].cursor <= Len(rows)
          BY <1>1, <1>4 DEF Types
        <4> QED  BY <1>2, <1>8, <3>1, <4>1
      <3>2. CASE k \in 1 .. n
        <4>1. j \in 1 .. n
          BY <1>7, <1>8, <2>1, <3>2
        <4> QED  BY <1>8, <2>1, <3>2, <4>1 DEF Chains, Ordered
      <3> QED  BY <1>7, <1>8, <3>1, <3>2
    <2> QED  BY <1>6, <2>1 DEF Ordered, PointsStay, Chains
  <1>13. Noted'
    BY <1>1, <1>3, <1>9 DEF Noted, Chains, IInv, Types, TxShape, TxOK
  <1>14. Planned'
    BY <1>1, <1>4, PlannedKept DEF Chains
  <1> QED  BY <1>4, <1>6, <1>11, <1>12, <1>13, <1>14 DEF Chains

\* The transaction is noted: what its files hold now is what they held before.
LEMMA RewindPrepareFollowed ==
    ASSUME IInv, IInv', Chains, ~RollbackMayFail, NEW s \in Session, RewindPrepare(s)
    PROVE  Chains'
  <1>1. /\ UNCHANGED <<rows, disk, points>> /\ op[s].pc = "prepare" /\ op[s].pc \notin InTx /\ [Next]_vars
        /\ up[ProcOf[s]]
    BY DEF RewindPrepare, Next, Proceed, InTx, IInv, Leased
  <1>2. PICK x : /\ txs' = txs \cup {x} /\ x.session = s /\ x.outside = {}
                 /\ x.before = [f \in ChangedFiles(s, Cursor(s)) |-> disk[f]]
                 /\ x.after = [f \in ChangedFiles(s, Cursor(s)) |-> Target(s, Cursor(s), f)]
    <2>1. PICK n : txs' = txs \cup
                    {[id |-> n, session |-> s,
                      before |-> [f \in ChangedFiles(s, Cursor(s)) |-> disk[f]],
                      after |-> [f \in ChangedFiles(s, Cursor(s)) |-> Target(s, Cursor(s), f)],
                      saved |-> Saved(s), live |-> TRUE, cursor |-> Len(rows),
                      outside |-> {}]}
      BY DEF RewindPrepare
    <2>2. PICK x : x = [id |-> n, session |-> s,
                        before |-> [f \in ChangedFiles(s, Cursor(s)) |-> disk[f]],
                        after |-> [f \in ChangedFiles(s, Cursor(s)) |-> Target(s, Cursor(s), f)],
                        saved |-> Saved(s), live |-> TRUE, cursor |-> Len(rows), outside |-> {}]
      OBVIOUS
    <2>3. /\ x.session = s /\ x.outside = {}
          /\ x.before = [f \in ChangedFiles(s, Cursor(s)) |-> disk[f]]
          /\ x.after = [f \in ChangedFiles(s, Cursor(s)) |-> Target(s, Cursor(s), f)]
      BY <2>2
    <2> QED  BY <2>1, <2>2, <2>3
  <1>3. \A y \in txs : y.session # s
    BY <1>1, FreeOfTx
  <1>4. OneTx /\ OneTx' /\ Types'
    BY <1>2, <1>3 DEF Chains, OneTx, IInv
  <1>5. /\ op'[s].pc = "files" /\ op'[s].point = op[s].point
        /\ \A t \in Session \ {s} : op'[t] = op[t]
    BY DEF RewindPrepare, IInv, Types, OpType
  <1>6. ASSUME NEW t \in Session PROVE SameRows(t) /\ PointsStay(t) /\ Followed(t)
    BY <1>1, SameRowsWhenSame, PointsStayWhenSame DEF Chains
  <1>7. Followed(s)'
    <2>1. ASSUME NEW f \in File PROVE Now(s, f)' = Now(s, f)
      <3>1. Now(s, f) = disk[f]
        BY <1>1, <1>3 DEF Now, Writing, Covers
      <3>2. ~Writing(s, f)' /\ \A y \in txs' : Covers(y, s, f) => y = x
        BY <1>2, <1>3, <1>5 DEF Writing, Covers
      <3>3. CASE Covers(x, s, f)
        <4>1. (CHOOSE y \in txs' : Covers(y, s, f)) = x
          BY <1>2, <3>2, <3>3
        <4>2. x.before[f] = disk[f]
          BY <1>2, <3>3 DEF Covers
        <4> QED  BY <1>2, <3>1, <3>2, <3>3, <4>1, <4>2 DEF Now
      <3>4. CASE ~Covers(x, s, f)
        BY <1>1, <3>1, <3>2, <3>4 DEF Now
      <3> QED  BY <3>3, <3>4
    <2> QED  BY <1>4, <1>5, <1>6, <2>1, FollowedKept
  <1>8. ASSUME NEW t \in Session \ {s} PROVE Followed(t)'
    <2>1. SameTxs(t)
      BY <1>2 DEF SameTxs
    <2> QED  BY <1>1, <1>4, <1>5, <1>6, <2>1, Aside
  <1>9. Planned'
    <2>1. Cursor(s)' = Cursor(s) /\ ~Untraceable(s, Cursor(s))
      BY <1>1, <1>5 DEF Cursor, IInv, Begun, Ready
    <2>2. /\ ChangedFiles(s, Cursor(s))' = ChangedFiles(s, Cursor(s))
          /\ Untraceable(s, Cursor(s))' <=> Untraceable(s, Cursor(s))
          /\ \A f : Target(s, Cursor(s), f)' = Target(s, Cursor(s), f)
      BY <1>1, <2>1 DEF ChangedFiles, Untraceable, Target, ChangesOf, OwnedChanges
    <2>3. Plans(x)'
      BY <1>2, <2>1, <2>2 DEF Plans
    <2>4. ASSUME NEW y \in txs, op'[y.session].pc \in {"files", "commit"} PROVE FALSE
      <3>1. y.session \in Session \ {s}
        BY <1>3 DEF IInv, Types, TxShape, TxOK
      <3>2. op[s].pc \in Exclusive
        BY <1>1 DEF Exclusive
      <3> QED  BY <1>5, <2>4, <3>1, <3>2, WhileExclusive
    <2> QED  BY <1>2, <2>3, <2>4 DEF Planned
  <1>10. Noted' /\ Ordered'
    BY <1>1, <1>2, <1>6, OrderedKept DEF Chains, Noted
  <1> QED  BY <1>4, <1>7, <1>8, <1>9, <1>10 DEF Chains

\* A transaction that was undone leaves the table: its files hold what they held before.
LEMMA TxGone ==
    ASSUME IInv, IInv', [Next]_vars, Chains, UNCHANGED <<rows, disk, points>>,
           NEW x \in txs, txs' = WithoutTx(x), FilesHold(x, {}, x.before),
           op[x.session].pc \notin {"write", "written"}, op'[x.session].pc = "idle",
           \A t \in Session \ {x.session} : op'[t] = op[t]
    PROVE  Chains'
  <1>1. PICK s : s = x.session
    OBVIOUS
  <1>2. s \in Session
    BY <1>1 DEF IInv, Types, TxShape, TxOK
  <1>3. OneTx /\ \A y, z \in txs : y.id = z.id => y = z
    BY DEF Chains, IInv, Rowed
  <1>4. txs' \subseteq txs /\ \A y \in txs' : y.session # s
    BY <1>1, <1>3 DEF WithoutTx, OneTx
  <1>5. \A y \in txs : y.session # s => y \in txs'
    BY <1>1, <1>3 DEF WithoutTx
  <1>6. OneTx' /\ Types'
    BY <1>3, <1>4 DEF OneTx, IInv
  <1>7. ASSUME NEW t \in Session PROVE SameRows(t) /\ PointsStay(t) /\ Followed(t)
    BY SameRowsWhenSame, PointsStayWhenSame DEF Chains
  <1>8. Followed(s)'
    <2>1. ASSUME NEW f \in File PROVE Elsewhere(s, f) \/ Now(s, f)' = Now(s, f)
      <3>1. Now(s, f)' = disk[f]
        BY <1>1, <1>4 DEF Now, Writing, Covers
      <3>2. CASE ~Covers(x, s, f)
        <4>1. \A y \in txs : ~Covers(y, s, f)
          BY <1>1, <1>3, <3>2 DEF Covers, OneTx
        <4> QED  BY <1>1, <1>2, <1>3, <3>1, <4>1, ReadNow DEF Writing
      <3>3. CASE Covers(x, s, f) /\ f \notin x.outside
        <4>1. disk[f] = x.before[f]
          BY <3>3 DEF FilesHold, Covers
        <4> QED  BY <1>1, <1>2, <1>3, <3>1, <3>3, <4>1, ReadNow DEF Writing
      <3>4. CASE f \in x.outside
        BY <1>1, <3>4 DEF Chains, Noted, Elsewhere
      <3> QED  BY <3>2, <3>3, <3>4
    <2> QED  BY <1>1, <1>2, <1>6, <1>7, <2>1, FollowedKept
  <1>9. ASSUME NEW t \in Session \ {s} PROVE Followed(t)'
    <2>1. SameTxs(t)
      BY <1>4, <1>5 DEF SameTxs
    <2> QED  BY <1>1, <1>3, <1>6, <1>7, <2>1, Aside
  <1>10. Planned'
    <2>1. \A y \in txs' : y.session \in Session \ {s} /\ y \in txs
      BY <1>4 DEF IInv, Types, TxShape, TxOK
    <2> QED  BY <1>1, <2>1, PlannedKept DEF Chains
  <1>11. Noted' /\ Ordered'
    BY <1>4, <1>7, OrderedKept DEF Chains, Noted
  <1> QED  BY <1>6, <1>8, <1>9, <1>10, <1>11 DEF Chains

LEMMA RollbackDoneFollowed ==
    ASSUME IInv, IInv', Chains, NEW s \in Session, RollbackDone(s)
    PROVE  Chains'
  <1> DEFINE x == TxOf(s)
  <1>1. op[s].pc = "undo" /\ op[s].todo = {} /\ op[s].pc \in InTx
    BY DEF RollbackDone, InTx
  <1>2. x \in txs /\ x.session = s /\ Progress(x, op[s])
    BY <1>1, InItsTx
  <1>3. FilesHold(x, {}, x.before)
    BY <1>1, <1>2 DEF Progress
  <1>4. UNCHANGED <<rows, disk, points>> /\ txs' = WithoutTx(x)
    BY DEF RollbackDone
  <1>5. op'[s].pc = "idle" /\ \A t \in Session \ {s} : op'[t] = op[t]
    BY DEF RollbackDone, Resting, IInv, Types
  <1>6. [Next]_vars
    BY DEF Next, Proceed
  <1> HIDE DEF x
  <1> QED  BY <1>1, <1>2, <1>3, <1>4, <1>5, <1>6, TxGone

LEMMA RecoverDeleteFollowed ==
    ASSUME IInv, IInv', Chains, NEW p \in Proc, RecoverDelete(p)
    PROVE  Chains'
  <1>1. rec[p].pc = "delete" /\ rec[p].pc \in Recovering /\ Reads(rec[p]) /\ Restores(rec[p])
    BY DEF RecoverDelete, Recovering, IInv, Recovered
  <1>2. PICK x \in txs : SameTx(x, rec[p].at)
    BY <1>1 DEF Reads, Restores
  <1>3. FilesHold(x, {}, x.before)
    BY <1>1, <1>2 DEF Restores, SameTx
  <1>4. UNCHANGED <<rows, disk, points, op>> /\ txs' = WithoutTx(x)
    BY <1>2 DEF RecoverDelete, WithoutTx, SameTx
  <1>5. x.session \in Session /\ op[x.session].pc = "idle"
    BY <1>1, WhileRecovering DEF IInv, Types, TxShape, TxOK
  <1>6. [Next]_vars
    BY DEF Next, Recover
  <1> QED  BY <1>3, <1>4, <1>5, <1>6, TxGone

\* An editor: the file is changed for everybody.
LEMMA OutsideEditFollowed ==
    ASSUME IInv, IInv', Chains, NEW f \in File, NEW v \in Content, OutsideEdit(f, v)
    PROVE  Chains'
  <1>1. /\ UNCHANGED <<rows, op>> /\ disk' = [disk EXCEPT ![f] = v] /\ points' = Foreign(None, f)
        /\ txs' = {[x EXCEPT !.outside = @ \cup {f}] : x \in txs}
    BY DEF OutsideEdit
  <1>2. \A x \in txs : LET y == [x EXCEPT !.outside = @ \cup {f}]
                       IN  /\ y \in txs' /\ y.session = x.session /\ y.before = x.before
                           /\ y.after = x.after /\ y.outside = x.outside \cup {f}
    BY <1>1 DEF IInv, Types, TxShape, TxFields
  <1>3. \A y \in txs' : \E x \in txs : /\ y = [x EXCEPT !.outside = @ \cup {f}]
                                       /\ y.session = x.session /\ y.before = x.before
                                       /\ y.after = x.after /\ y.outside = x.outside \cup {f}
    BY <1>1, <1>2
  <1>4. disk' = [disk EXCEPT ![f] = disk'[f]] /\ [Next]_vars
    BY <1>1 DEF IInv, Types, Next
  <1>5. \A t \in Session : PointsStay(t) /\ Elsewhere(t, f)
    BY <1>1, NotedForeign, TransactionAssumption DEF IInv
  <1>6. OneTx /\ OneTx' /\ Types'
    BY <1>3 DEF Chains, OneTx, IInv
  <1>7. ASSUME NEW t \in Session PROVE Followed(t)'
    <2>1. SameRows(t) /\ Followed(t)
      BY <1>1, SameRowsWhenSame DEF Chains
    <2>2. SameTxs(t)
      <3>1. \A x \in txs : x.session = t => \E y \in txs' : y.session = t /\ y.before = x.before
        BY <1>2
      <3>2. \A y \in txs' : y.session = t => \E x \in txs : x.session = t /\ x.before = y.before
        BY <1>3
      <3> QED  BY <3>1, <3>2 DEF SameTxs
    <2> QED  BY <1>1, <1>4, <1>5, <1>6, <2>1, <2>2, Aside
  <1>8. Planned'
    BY <1>1, <1>3, <1>4, PlannedKept DEF Chains
  <1>9. Noted'
    <2> SUFFICES ASSUME NEW y \in txs', NEW k \in DOMAIN points'[y.session]
                 PROVE  y.outside \subseteq points'[y.session][k].foreign
      BY DEF Noted
    <2>1. PICK x \in txs : y.session = x.session /\ y.outside = x.outside \cup {f}
      BY <1>3
    <2>2. x.session \in Session
      BY DEF IInv, Types, TxShape, TxOK
    <2>3. PointsStay(x.session) /\ Elsewhere(x.session, f)
      BY <1>5, <2>2
    <2> QED  BY <2>1, <2>3 DEF Chains, Noted, PointsStay, Elsewhere
  <1> QED  BY <1>5, <1>6, <1>7, <1>8, <1>9, OrderedKept DEF Chains

\* A process dies: its sessions rest, and a file one of them had written is changed for everybody.
LEMMA CrashFollowed ==
    ASSUME IInv, IInv', Chains, ~RollbackMayFail, NEW p \in Proc, Crash(p)
    PROVE  Chains'
  <1> DEFINE lost == {op[s].file : s \in {t \in Session : ProcOf[t] = p /\ op[t].pc = "written"}}
  <1>1. /\ UNCHANGED <<rows, disk>> /\ up[p]
        /\ op' = [s \in Session |-> IF ProcOf[s] = p THEN Resting ELSE op[s]]
        /\ txs' = {[x EXCEPT !.live = @ /\ ProcOf[x.session] # p] : x \in txs}
        /\ points' = [t \in Session |->
                         [k \in DOMAIN points[t] |->
                             [points[t][k] EXCEPT !.foreign = @ \cup lost]]]
    BY DEF Crash
  <1>2. ASSUME NEW f, NEW t \in Session, ProcOf[t] = p, op[t].pc = "written", op[t].file = f
        PROVE  f \in lost
    BY <1>2
  <1> HIDE DEF lost
  <1>3. \A x \in txs : LET y == [x EXCEPT !.live = @ /\ ProcOf[x.session] # p]
                       IN  /\ y \in txs' /\ y.session = x.session /\ y.before = x.before
                           /\ y.after = x.after /\ y.outside = x.outside
    BY <1>1 DEF IInv, Types, TxShape, TxFields
  <1>4. \A y \in txs' : \E x \in txs : /\ y = [x EXCEPT !.live = @ /\ ProcOf[x.session] # p]
                                       /\ y.session = x.session /\ y.before = x.before
                                       /\ y.after = x.after /\ y.outside = x.outside
    <2>1. \A y \in txs' : \E x \in txs : y = [x EXCEPT !.live = @ /\ ProcOf[x.session] # p]
      BY <1>1, Zenon
    <2>2. \A x \in txs : \A y : y = [x EXCEPT !.live = @ /\ ProcOf[x.session] # p] =>
             y.session = x.session /\ y.before = x.before /\ y.after = x.after /\ y.outside = x.outside
      BY <1>3
    <2>3. ASSUME NEW y \in txs'
          PROVE  \E x \in txs : /\ y = [x EXCEPT !.live = @ /\ ProcOf[x.session] # p]
                              /\ y.session = x.session /\ y.before = x.before
                              /\ y.after = x.after /\ y.outside = x.outside
      <3>1. PICK x \in txs : y = [x EXCEPT !.live = @ /\ ProcOf[x.session] # p]
        BY <2>1
      <3>2. y.session = x.session /\ y.before = x.before /\ y.after = x.after /\ y.outside = x.outside
        BY <2>2, <3>1
      <3> QED  BY <3>1, <3>2
    <2> QED  BY <2>3
  <1>5. \A t \in Session : PointsStay(t) /\ \A f \in lost : Elsewhere(t, f)
    BY <1>1, NotedLost DEF IInv
  <1>6. OneTx /\ OneTx' /\ Types' /\ [Next]_vars
    <2>1. OneTx'
      BY <1>4 DEF Chains, OneTx
    <2> QED  BY <2>1 DEF Chains, IInv, Next
  <1>7. ASSUME NEW t \in Session PROVE SameRows(t) /\ SameTxs(t) /\ Followed(t)
    <2>1. \A x \in txs : x.session = t => \E y \in txs' : y.session = t /\ y.before = x.before
      BY <1>3
    <2>2. \A y \in txs' : y.session = t => \E x \in txs : x.session = t /\ x.before = y.before
      BY <1>4
    <2> QED  BY <1>1, <2>1, <2>2, SameRowsWhenSame DEF SameTxs, Chains
  <1>8. ASSUME NEW t \in Session, ProcOf[t] # p PROVE Followed(t)'
    <2>1. op'[t] = op[t]
      BY <1>1, <1>8
    <2> QED  BY <1>1, <1>5, <1>6, <1>7, <2>1, Aside
  <1>9. ASSUME NEW t \in Session, ProcOf[t] = p PROVE Followed(t)'
    <2>1. op'[t] = Resting /\ op'[t].pc = "idle"
      BY <1>1, <1>9 DEF Resting
    <2>2. ASSUME NEW f \in File PROVE Elsewhere(t, f) \/ Now(t, f)' = Now(t, f)
      <3>1. CASE op[t].pc = "written" /\ op[t].file = f
        BY <1>2, <1>5, <1>9, <3>1
      <3>2. CASE op[t].pc = "write" /\ op[t].file = f
        <4>1. (\A k \in DOMAIN points[t] : f \in points[t][k].foreign) \/ disk[f] = op[t].old
          BY <1>7, <3>2 DEF Followed, Unwritten
        <4>2. CASE \A k \in DOMAIN points[t] : f \in points[t][k].foreign
          BY <1>5, <4>2 DEF PointsStay, Elsewhere
        <4>3. CASE disk[f] = op[t].old
          <5>1. \A x \in txs : x.session # t
            BY <1>1, <1>9, <3>2, FreeOfTx DEF InTx
          <5>2. \A y \in txs' : ~Covers(y, t, f)
            BY <1>4, <5>1 DEF Covers
          <5>3. Now(t, f)' = disk[f]
            BY <1>1, <2>1, <5>2 DEF Now, Writing
          <5> QED  BY <3>2, <4>3, <5>3 DEF Now, Writing
        <4> QED  BY <4>1, <4>2, <4>3
      <3>3. CASE ~Writing(t, f)
        <4>1. ~Writing(t, f)'
          BY <2>1 DEF Writing
        <4> QED  BY <1>1, <1>6, <1>7, <3>3, <4>1, NowKept
      <3> QED  BY <3>1, <3>2, <3>3 DEF Writing
    <2> QED  BY <1>5, <1>6, <1>7, <2>1, <2>2, FollowedKept
  <1>10. Planned'
    <2>1. ASSUME NEW y \in txs', op'[y.session].pc \in {"files", "commit"}
          PROVE  /\ op[y.session].pc \in {"files", "commit"}
                 /\ op'[y.session].point = op[y.session].point
                 /\ \E x \in txs : x.session = y.session /\ x.before = y.before /\ x.after = y.after
      <3>1. y.session \in Session
        BY DEF IInv, Types, TxShape, TxOK
      <3>2. op'[y.session] = op[y.session]
        BY <1>1, <2>1, <3>1 DEF Resting
      <3> QED  BY <1>4, <2>1, <3>2
    <2> QED  BY <1>6, <2>1, PlannedKept DEF Chains
  <1>11. Noted'
    <2> SUFFICES ASSUME NEW y \in txs', NEW k \in DOMAIN points'[y.session]
                 PROVE  y.outside \subseteq points'[y.session][k].foreign
      BY DEF Noted
    <2>1. PICK x \in txs : y.session = x.session /\ y.outside = x.outside
      BY <1>4
    <2>2. x.session \in Session
      BY DEF IInv, Types, TxShape, TxOK
    <2>3. PointsStay(x.session)
      BY <1>5, <2>2
    <2> QED  BY <2>1, <2>3 DEF Chains, Noted, PointsStay
  <1> QED  BY <1>5, <1>6, <1>8, <1>9, <1>10, <1>11, OrderedKept DEF Chains

-----------------------------------------------------------------------------
(* A rewind that commits.                                                  *)

\* The changes after a cursor of a session are reverted.
Reverted(s, d) ==
    rows' = [i \in DOMAIN rows |->
                [rows[i] EXCEPT !.reverted = @ \/ i \in OwnedChanges(s, d)]]

LEMMA RowsAfter ==
    ASSUME Types, Types', NEW s, NEW d \in Nat, Reverted(s, d)
    PROVE  /\ DOMAIN rows' = DOMAIN rows /\ Len(rows') = Len(rows)
           /\ \A i \in DOMAIN rows :
                 /\ rows'[i].session = rows[i].session /\ rows'[i].path = rows[i].path
                 /\ rows'[i].before = rows[i].before /\ rows'[i].after = rows[i].after
                 /\ rows'[i].reverted <=> (rows[i].reverted \/ i \in OwnedChanges(s, d))
                 /\ i \notin OwnedChanges(s, d) => rows'[i] = rows[i]
  <1>1. DOMAIN rows = 1 .. Len(rows) /\ Len(rows) \in Nat
    BY DEF Types
  <1>2. DOMAIN rows' = DOMAIN rows
    BY DEF Reverted
  <1>3. Len(rows') = Len(rows)
    BY <1>1, <1>2 DEF Types
  <1>4. \A i \in DOMAIN rows : rows[i] \in RowType
    BY DEF Types
  <1>5. \A i \in DOMAIN rows : rows'[i] = [rows[i] EXCEPT !.reverted = @ \/ i \in OwnedChanges(s, d)]
    BY DEF Reverted
  <1>6. ASSUME NEW i \in DOMAIN rows
        PROVE  /\ rows'[i].session = rows[i].session /\ rows'[i].path = rows[i].path
               /\ rows'[i].before = rows[i].before /\ rows'[i].after = rows[i].after
               /\ rows'[i].reverted <=> (rows[i].reverted \/ i \in OwnedChanges(s, d))
    BY <1>4, <1>5 DEF RowType
  <1>7. ASSUME NEW i \in DOMAIN rows, i \notin OwnedChanges(s, d) PROVE rows'[i] = rows[i]
    BY <1>4, <1>5, <1>7 DEF RowType
  <1> QED  BY <1>2, <1>3, <1>6, <1>7

LEMMA ChangesCut ==
    ASSUME Types, Types', NEW s, NEW c \in Nat, NEW d \in Nat, c <= d, Reverted(s, d)
    PROVE  /\ \A i : i \in OwnedChanges(s, c)' <=> (i \in OwnedChanges(s, c) /\ i <= d)
           /\ \A i : i \in OwnedChanges(s, d) <=> (i \in OwnedChanges(s, c) /\ i > d)
  <1>1. DOMAIN rows = 1 .. Len(rows) /\ Len(rows) \in Nat
    BY DEF Types
  <1>2. /\ Len(rows') = Len(rows)
        /\ \A i \in 1 .. Len(rows) :
              /\ rows'[i].session = rows[i].session /\ rows'[i].path = rows[i].path
              /\ rows'[i].reverted <=> (rows[i].reverted \/ i \in OwnedChanges(s, d))
    BY <1>1, RowsAfter
  <1>3. \A i \in c + 1 .. Len(rows) : i \in 1 .. Len(rows) /\ (i <= d \/ i \in d + 1 .. Len(rows))
    BY <1>1
  <1>4. \A i \in d + 1 .. Len(rows) : i \in c + 1 .. Len(rows) /\ ~(i <= d) /\ i > d
    BY <1>1
  <1>5. OwnedChanges(s, c)' = {i \in OwnedChanges(s, c) : i <= d}
    BY <1>2, <1>3, <1>4 DEF OwnedChanges
  <1>6. OwnedChanges(s, d) = {i \in OwnedChanges(s, c) : i > d}
    BY <1>1, <1>4 DEF OwnedChanges
  <1> QED  BY <1>5, <1>6

LEMMA ChangesOfCut ==
    ASSUME Types, Types', NEW s, NEW c \in Nat, NEW d \in Nat, c <= d, Reverted(s, d), NEW f
    PROVE  /\ \A i : i \in ChangesOf(s, c, f)' <=> (i \in ChangesOf(s, c, f) /\ i <= d)
           /\ \A i : i \in ChangesOf(s, d, f) <=> (i \in ChangesOf(s, c, f) /\ i > d)
  <1>1. /\ \A i : i \in OwnedChanges(s, c)' <=> (i \in OwnedChanges(s, c) /\ i <= d)
        /\ \A i : i \in OwnedChanges(s, d) <=> (i \in OwnedChanges(s, c) /\ i > d)
    BY ChangesCut
  <1>2. \A i \in OwnedChanges(s, c) : rows'[i].path = rows[i].path
    <2>1. DOMAIN rows = 1 .. Len(rows) /\ Len(rows) \in Nat
      BY DEF Types
    <2>2. \A i \in c + 1 .. Len(rows) : i \in DOMAIN rows
      BY <2>1
    <2> QED  BY <2>2, RowsAfter DEF OwnedChanges
  <1> QED  BY <1>1, <1>2 DEF ChangesOf

\* What is left of a session's changes of a file leads to what the first reverted one found.
LEMMA LinkedCut ==
    ASSUME Types, Types', NEW s, NEW c \in Nat, NEW d \in Nat, c <= d, Reverted(s, d),
           NEW f, NEW from, NEW to, Linked(s, c, f, from, to)
    PROVE  /\ ChangesOf(s, d, f) = {} => Linked(s, c, f, from, to)'
           /\ ChangesOf(s, d, f) # {} =>
                 \A back : back = rows[Min(ChangesOf(s, d, f))].before => Linked(s, c, f, from, back)'
  <1> DEFINE S == ChangesOf(s, c, f)
             T == ChangesOf(s, d, f)
  <1>1. DOMAIN rows = 1 .. Len(rows) /\ Len(rows) \in Nat
    BY DEF Types
  <1>2. /\ \A i : i \in S' <=> (i \in S /\ i <= d)
        /\ \A i : i \in T <=> (i \in S /\ i > d)
    BY ChangesOfCut
  <1>3. \A i \in S : i \in DOMAIN rows /\ i \in Nat
    <2>1. \A i \in c + 1 .. Len(rows) : i \in 1 .. Len(rows) /\ i \in Nat
      BY <1>1
    <2> QED  BY <1>1, <2>1 DEF ChangesOf, OwnedChanges
  <1>4. \A i \in S : rows'[i].before = rows[i].before /\ rows'[i].after = rows[i].after
    BY <1>3, RowsAfter
  <1>5. /\ S = {} => from = to
        /\ \A i \in S : (\A j \in S : i <= j) => rows[i].before = from
        /\ \A i \in S : (\A j \in S : j <= i) => rows[i].after = to
        /\ \A i, j \in S : (i < j /\ \A k \in S : k <= i \/ k >= j) => rows[i].after = rows[j].before
    BY DEF Linked, Chained
  <1>6. ASSUME NEW back,
               /\ S' = {} => from = back
               /\ \A i \in S' : (\A j \in S' : i <= j) => rows'[i].before = from
               /\ \A i \in S' : (\A j \in S' : j <= i) => rows'[i].after = back
               /\ \A i, j \in S' : (i < j /\ \A k \in S' : k <= i \/ k >= j) =>
                     rows'[i].after = rows'[j].before
        PROVE  Linked(s, c, f, from, back)'
    <2>1. Chained(s, c, f)'
      BY <1>6 DEF Chained
    <2> QED  BY <1>6, <2>1 DEF Linked
  <1> HIDE DEF S, T
  <1>7. ASSUME T = {} PROVE Linked(s, c, f, from, to)'
    <2>1. S' = S
      BY <1>2, <1>3, <1>7
    <2> QED  BY <1>4, <1>5, <1>6, <2>1
  <1>8. ASSUME T # {}, NEW back, back = rows[Min(T)].before PROVE Linked(s, c, f, from, back)'
    <2>1. T \in SUBSET Nat
      BY <1>2, <1>3
    <2>2. PICK m \in T : m = Min(T) /\ \A i \in T : m <= i
      BY <1>8, <2>1, FirstIsOne
    <2>3. m \in S /\ m \in Nat /\ m > d /\ rows[m].before = back
      BY <1>2, <1>3, <1>8, <2>2
    <2>4. \A i \in S : (i \in S' /\ i <= d) \/ (i \in T /\ m <= i)
      <3>1. \A i \in S : i <= d \/ i > d
        BY <1>3
      <3> QED  BY <1>2, <2>2, <3>1
    <2>5. \A i \in S' : i \in S /\ i \in Nat /\ i <= d
      BY <1>2, <1>3
    <2>6. S' = {} => from = back
      BY <1>5, <2>3, <2>4
    <2>7. ASSUME NEW i \in S', \A j \in S' : i <= j PROVE rows'[i].before = from
      <3>1. \A j \in S : i <= j
        BY <1>3, <2>3, <2>4, <2>5, <2>7
      <3> QED  BY <1>4, <1>5, <2>5, <3>1
    <2>8. ASSUME NEW i \in S', \A j \in S' : j <= i PROVE rows'[i].after = back
      <3>1. i < m /\ \A k \in S : k <= i \/ k >= m
        BY <1>3, <2>3, <2>4, <2>5, <2>8
      <3> QED  BY <1>4, <1>5, <2>3, <2>5, <3>1
    <2>9. ASSUME NEW i \in S', NEW j \in S', i < j, \A k \in S' : k <= i \/ k >= j
          PROVE  rows'[i].after = rows'[j].before
      <3>1. \A k \in S : k <= i \/ k >= j
        BY <1>3, <2>3, <2>4, <2>5, <2>9
      <3> QED  BY <1>4, <1>5, <2>5, <2>9, <3>1
    <2> QED  BY <1>6, <2>6, <2>7, <2>8, <2>9
  <1> QED  BY <1>7, <1>8 DEF T

LEMMA RewindCommitFollowed ==
    ASSUME IInv, IInv', Chains, NEW s \in Session, RewindCommit(s)
    PROVE  Chains'
  <1>1. /\ UNCHANGED disk /\ op[s].pc = "commit" /\ op[s].pc \in InTx /\ op[s].pc \in Exclusive
        /\ op \in [Session -> OpType] /\ [Next]_vars /\ Types /\ Types'
    BY DEF RewindCommit, Next, Proceed, InTx, Exclusive, IInv, Types
  <1>2. PICK x : x = TxOf(s)
    OBVIOUS
  <1>3. x \in txs /\ x.session = s /\ FilesHold(x, {}, x.after) /\ txs' = WithoutTx(x)
    <2>1. x \in txs /\ x.session = s /\ Progress(x, op[s])
      BY <1>1, <1>2, InItsTx
    <2> QED  BY <1>1, <1>2, <2>1 DEF Progress, RewindCommit
  <1>4. PICK p : p = op[s].point
    OBVIOUS
  <1>5. PICK d : d = Cursor(s)
    OBVIOUS
  <1>6. /\ p \in DOMAIN points[s] /\ points[s] \in Seq(PointType) /\ p \in Nat
        /\ d = points[s][p].cursor /\ d \in Nat
    <2>1. p \in DOMAIN points[s] /\ points[s] \in Seq(PointType)
      BY <1>1, <1>4 DEF IInv, Types, Begun, Ready
    <2>2. points[s][p] \in PointType /\ p \in Nat
      BY <2>1
    <2> QED  BY <1>4, <1>5, <2>1, <2>2 DEF Cursor, PointType
  <1>7. Reverted(s, d) /\ op'[s].pc = "idle" /\ \A t \in Session \ {s} : op'[t] = op[t]
    BY <1>1, <1>5 DEF RewindCommit, Reverted, Resting
  <1>8. /\ \A t \in Session \ {s} : points'[t] = points[t]
        /\ \A k \in DOMAIN points'[s] : k \in DOMAIN points[s] /\ k <= p /\ points'[s][k] = points[s][k]
    <2>1. points' = [points EXCEPT ![s] = SubSeq(@, 1, p)] /\ DOMAIN points = Session
      BY <1>1, <1>4 DEF RewindCommit, Types
    <2>2. points'[s] = SubSeq(points[s], 1, p)
      BY <2>1
    <2>3. DOMAIN points[s] = 1 .. Len(points[s]) /\ Len(points[s]) \in Nat
      BY <1>6
    <2>4. DOMAIN points'[s] = 1 .. p /\ \A k \in 1 .. p : points'[s][k] = points[s][k]
      BY <1>6, <2>2, <2>3
    <2> QED  BY <1>6, <2>1, <2>3, <2>4
  <1>9. Plans(x)
    BY <1>1, <1>3 DEF Chains, Planned
  <1>10. /\ DOMAIN x.before = ChangedFiles(s, d) /\ ~Untraceable(s, d)
         /\ \A f \in DOMAIN x.before : x.after[f] = rows[Min(ChangesOf(s, d, f))].before
    BY <1>3, <1>5, <1>9 DEF Plans, Target
  <1>11. OneTx /\ OneTx' /\ txs' \subseteq txs /\ (\A y \in txs' : y.session # s)
         /\ \A y \in txs : y.session # s => y \in txs'
    BY <1>3 DEF Chains, OneTx, WithoutTx, IInv, Rowed
  <1>12. Traced(s)'
    <2> SUFFICES ASSUME NEW k \in DOMAIN points'[s], ~Untraceable(s, points[s][k].cursor)',
                        NEW f \in File \ points'[s][k].foreign
                 PROVE  Linked(s, points[s][k].cursor, f, points[s][k].files[f], Now(s, f))'
      BY DEF Traced
    <2>1. k \in DOMAIN points[s] /\ k <= p /\ points'[s][k] = points[s][k]
      BY <1>8
    <2>2. PICK c, from, to : c = points[s][k].cursor /\ from = points[s][k].files[f] /\ to = Now(s, f)
      OBVIOUS
    <2>3. c \in Nat /\ c <= d
      <3>1. points[s][k] \in PointType
        BY <1>6, <2>1
      <3> QED  BY <1>6, <2>1, <2>2, <3>1 DEF PointType, Chains, Ordered
    <2>4. ~Untraceable(s, c)
      <3> SUFFICES ASSUME NEW i \in OwnedChanges(s, c), rows[i].path = NoPath PROVE FALSE
        BY DEF Untraceable
      <3>1. i \in Nat /\ i \in DOMAIN rows
        BY <1>1, <2>3 DEF OwnedChanges, Types
      <3>2. CASE i <= d
        <4>1. i \in OwnedChanges(s, c)'
          BY <1>1, <1>6, <1>7, <2>3, <3>2, ChangesCut
        <4>2. rows'[i].path = NoPath
          BY <1>1, <1>6, <1>7, <3>1, RowsAfter
        <4> QED  BY <2>1, <2>2, <4>1, <4>2 DEF Untraceable
      <3>3. CASE i > d
        <4>1. i \in OwnedChanges(s, d)
          BY <1>1, <1>6, <1>7, <2>3, <3>3, ChangesCut
        <4> QED  BY <1>10, <4>1 DEF Untraceable
      <3> QED  BY <1>6, <3>1, <3>2, <3>3
    <2>5. Linked(s, c, f, from, to) /\ f \in File \ points[s][k].foreign
      BY <2>1, <2>2, <2>4 DEF Chains, Followed, Traced
    <2>6. Now(s, f)' = disk[f]
      BY <1>1, <1>7, <1>11 DEF Now, Writing, Covers
    <2>7. f \in ChangedFiles(s, d) <=> ChangesOf(s, d, f) # {}
      BY DEF ChangedFiles, ChangesOf
    <2>8. CASE ChangesOf(s, d, f) = {}
      <3>1. to = disk[f]
        <4>1. \A y \in txs : ~Covers(y, s, f)
          BY <1>3, <1>10, <1>11, <2>7, <2>8 DEF Covers, OneTx
        <4> QED  BY <1>1, <2>2, <4>1 DEF Now, Writing
      <3>2. Linked(s, c, f, from, to)'
        BY <1>1, <1>6, <1>7, <2>3, <2>5, <2>8, LinkedCut
      <3> QED  BY <2>1, <2>2, <2>6, <3>1, <3>2
    <2>9. CASE ChangesOf(s, d, f) # {}
      <3>1. PICK back : back = rows[Min(ChangesOf(s, d, f))].before
        OBVIOUS
      <3>2. f \in DOMAIN x.before \ x.outside
        BY <1>3, <1>10, <2>1, <2>5, <2>7, <2>9 DEF Chains, Noted
      <3>3. disk[f] = back
        BY <1>3, <1>10, <3>1, <3>2 DEF FilesHold
      <3>4. Linked(s, c, f, from, back)'
        BY <1>1, <1>6, <1>7, <2>3, <2>5, <2>9, <3>1, LinkedCut
      <3> QED  BY <2>1, <2>2, <2>6, <3>3, <3>4
    <2> QED  BY <2>8, <2>9
  <1>13. Followed(s)'
    BY <1>7, <1>12 DEF Followed, Unwritten, Limited
  <1>14. ASSUME NEW t \in Session \ {s} PROVE Followed(t)'
    <2>1. SameRows(t)
      <3>1. \A i \in DOMAIN rows : rows[i].session # t \/ rows'[i] = rows[i]
        BY <1>1, <1>6, <1>7, RowsAfter DEF OwnedChanges
      <3>2. DOMAIN rows' = DOMAIN rows /\ \A i \in DOMAIN rows : rows'[i].session = rows[i].session
        BY <1>1, <1>6, <1>7, RowsAfter
      <3> QED  BY <3>1, <3>2 DEF SameRows
    <2>2. PointsStay(t) /\ SameTxs(t) /\ Followed(t)
      BY <1>8, <1>11 DEF PointsStay, SameTxs, Chains
    <2> QED  BY <1>1, <1>7, <1>11, <2>1, <2>2, Aside
  <1>15. Planned'
    <2>1. ASSUME NEW y \in txs' PROVE op'[y.session].pc = "idle"
      <3>1. y.session \in Session \ {s}
        BY <1>1, <1>11 DEF Types, TxShape, TxOK
      <3> QED  BY <1>1, <1>7, <3>1, WhileExclusive
    <2> QED  BY <2>1 DEF Planned
  <1>16. Noted'
    <2>1. \A y \in txs' : y \in txs /\ y.session \in Session \ {s}
      BY <1>1, <1>11 DEF Types, TxShape, TxOK
    <2> QED  BY <1>8, <2>1 DEF Chains, Noted
  <1>17. Ordered'
    BY <1>8 DEF Chains, Ordered
  <1> QED  BY <1>11, <1>13, <1>14, <1>15, <1>16, <1>17 DEF Chains

-----------------------------------------------------------------------------
(* Every step.                                                             *)

LEMMA InitiallyFollowed == Init => Chains
  <1> SUFFICES ASSUME Init PROVE Chains
    OBVIOUS
  <1>1. txs = {} /\ rows = <<>> /\ op = [s \in Session |-> Resting]
        /\ points = [s \in Session |-> <<[cursor |-> 0, files |-> disk, foreign |-> {}]>>]
    BY DEF Init
  <1>2. OneTx /\ Noted /\ Planned
    BY <1>1 DEF OneTx, Noted, Planned
  <1>3. ASSUME NEW s \in Session
        PROVE  /\ DOMAIN points[s] = {1} /\ points[s][1].cursor = 0 /\ points[s][1].files = disk
               /\ op[s].pc = "idle"
    BY <1>1 DEF Resting
  <1>4. Ordered
    BY <1>3 DEF Ordered
  <1>5. ASSUME NEW s \in Session PROVE Traced(s)
    <2>1. \A i : i \notin OwnedChanges(s, 0)
      BY <1>1 DEF OwnedChanges
    <2>2. \A f \in File : ChangesOf(s, 0, f) = {} /\ Now(s, f) = disk[f]
      BY <1>1, <1>3, <2>1 DEF ChangesOf, Now, Writing
    <2> QED  BY <1>3, <2>2 DEF Traced, Linked, Chained
  <1>6. \A s \in Session : Followed(s)
    BY <1>3, <1>5 DEF Followed, Unwritten, Limited
  <1> QED  BY <1>2, <1>4, <1>6 DEF Chains

\* The steps of a rewind that write no file, and end no transaction.
LEMMA RewindBookkeeping ==
    ASSUME IInv, IInv', [Next]_vars, Chains, NEW s \in Session,
           \/ \E k \in 1 .. MaxTurns + 1 : RewindBegin(s, k)
           \/ RewindRefuse(s) \/ RewindCheck(s) \/ RewindError(s) \/ RewindParticipants(s)
    PROVE  Chains'
  <1>1. op \in [Session -> OpType]
    BY DEF IInv, Types
  <1>2. UNCHANGED <<rows, txs, disk, points>>
    BY DEF RewindBegin, RewindRefuse, RewindCheck, RewindError, RewindParticipants
  <1>3. \A t \in Session \ {s} : op'[t] = op[t]
    BY <1>1 DEF RewindBegin, RewindRefuse, RewindCheck, RewindError, RewindParticipants
  <1>4. op[s].pc \notin {"write", "written"}
    BY DEF RewindBegin, RewindRefuse, RewindCheck, RewindError, RewindParticipants, Idle
  <1>5. CASE RewindParticipants(s)
    <2>1. op[s].pc = "files" /\ op'[s].pc = "commit" /\ op'[s].point = op[s].point
      BY <1>1, <1>5 DEF RewindParticipants, OpType
    <2> QED  BY <1>2, <1>3, <2>1, Bookkeeping
  <1>6. CASE ~RewindParticipants(s)
    <2>1. op'[s].pc \in {"idle", "check", "prepare", "undo"}
      <3>1. op[s] \in OpType
        BY <1>1
      <3>2. ASSUME NEW k \in 1 .. MaxTurns + 1, RewindBegin(s, k) PROVE op'[s].pc = "check"
        BY <1>1, <3>2 DEF RewindBegin, Resting
      <3>3. RewindRefuse(s) => op'[s].pc = "idle"
        BY <1>1 DEF RewindRefuse, Resting
      <3>4. RewindCheck(s) => op'[s].pc = "prepare"
        BY <1>1, <3>1 DEF RewindCheck, OpType
      <3>5. RewindError(s) => op'[s].pc = "undo"
        BY <1>1, <3>1 DEF RewindError, OpType
      <3> QED  BY <1>6, <3>2, <3>3, <3>4, <3>5
    <2> QED  BY <1>2, <1>3, <1>4, <2>1, Bookkeeping
  <1> QED  BY <1>5, <1>6

LEMMA ChainsStep ==
    ASSUME IInv, IInv', [Next]_vars, Chains, ~RollbackMayFail
    PROVE  Chains'
  <1>1. ASSUME NEW s \in Session, CompleteTurn(s) PROVE Chains'
    BY <1>1, CompleteTurnFollowed
  <1>2. ASSUME NEW s \in Session, NEW f \in File, WriteBegin(s, f) PROVE Chains'
    BY <1>2, WriteBeginFollowed
  <1>3. ASSUME NEW s \in Session, UntracedBegin(s) PROVE Chains'
    BY <1>3, UntracedBeginFollowed
  <1>4. ASSUME NEW s \in Session, NEW k \in 1 .. MaxTurns + 1, RewindBegin(s, k) PROVE Chains'
    BY <1>4, RewindBookkeeping
  <1>5. ASSUME NEW s \in Session, RewindError(s) PROVE Chains'
    BY <1>5, RewindBookkeeping
  <1>6. ASSUME NEW s \in Session, Proceed(s) PROVE Chains'
    <2>1. ASSUME NEW v \in Content, WriteFile(s, v) PROVE Chains'
      BY <2>1, WriteFileFollowed
    <2>2. CASE WriteEnd(s)
      BY <2>2, WriteEndFollowed
    <2>3. CASE UntracedEnd(s)
      BY <2>3, UntracedEndFollowed
    <2>4. CASE RewindRefuse(s) \/ RewindCheck(s) \/ RewindParticipants(s)
      BY <2>4, RewindBookkeeping
    <2>5. CASE RewindPrepare(s)
      BY <2>5, RewindPrepareFollowed
    <2>6. ASSUME NEW f \in File, RewindFile(s, f) \/ RollbackFile(s, f) PROVE Chains'
      BY <2>6, TxFileFollowed
    <2>7. CASE RewindCommit(s)
      BY <2>7, RewindCommitFollowed
    <2>8. CASE RollbackDone(s)
      BY <2>8, RollbackDoneFollowed
    <2>9. CASE RollbackError(s)
      BY <2>9 DEF RollbackError
    <2> QED  BY <1>6, <2>1, <2>2, <2>3, <2>4, <2>5, <2>6, <2>7, <2>8, <2>9 DEF Proceed
  <1>7. ASSUME NEW f \in File, NEW v \in Content, OutsideEdit(f, v) PROVE Chains'
    BY <1>7, OutsideEditFollowed
  <1>8. ASSUME NEW p \in Proc, Crash(p) PROVE Chains'
    BY <1>8, CrashFollowed
  <1>9. ASSUME NEW p \in Proc, OpenClean(p) \/ OpenPending(p) PROVE Chains'
    <2>1. UNCHANGED <<rows, txs, disk, points, op>>
      BY <1>9 DEF OpenClean, OpenPending
    <2> QED  BY <2>1, Bookkeeping
  <1>10. ASSUME NEW p \in Proc, Recover(p) PROVE Chains'
    <2>1. ASSUME NEW f \in File, RecoverFile(p, f) PROVE Chains'
      BY <2>1, RecoverFileFollowed
    <2>2. CASE RecoverDelete(p)
      BY <2>2, RecoverDeleteFollowed
    <2>3. CASE \/ RecoverLease(p) \/ RecoverRefuse(p) \/ RecoverCheck(p)
               \/ RecoverParticipants(p) \/ RecoverDone(p)
      <3>1. UNCHANGED <<rows, txs, disk, points, op>>
        BY <2>3 DEF RecoverLease, RecoverRefuse, RecoverCheck, RecoverParticipants, RecoverDone
      <3> QED  BY <3>1, Bookkeeping
    <2> QED  BY <1>10, <2>1, <2>2, <2>3 DEF Recover
  <1>11. CASE UNCHANGED vars
    BY <1>11, Bookkeeping DEF vars
  <1> QED  BY <1>1, <1>2, <1>3, <1>4, <1>5, <1>6, <1>7, <1>8, <1>9, <1>10, <1>11 DEF Next

\* What the changes lead to is what the point has noted: at the commit, the files hold it.
LEMMA ChainsRestore ==
    ASSUME IInv, Chains
    PROVE  RewindRestoresPoint
  <1> SUFFICES ASSUME NEW s \in Session, op[s].pc = "commit",
                      NEW f \in File \ (points[s][op[s].point].foreign \cup TxOf(s).outside)
               PROVE  disk[f] = points[s][op[s].point].files[f]
    BY DEF RewindRestoresPoint, IInv, Types
  <1>1. PICK x, d, from : x = TxOf(s) /\ d = Cursor(s) /\ from = points[s][op[s].point].files[f]
    OBVIOUS
  <1>2. x \in txs /\ x.session = s /\ FilesHold(x, {}, x.after)
    <2>1. op[s].pc \in InTx
      BY DEF InTx
    <2> QED  BY <1>1, <2>1, InItsTx DEF Progress
  <1>3. /\ DOMAIN x.before = ChangedFiles(s, d) /\ ~Untraceable(s, d)
        /\ \A g \in DOMAIN x.before : x.after[g] = rows[Min(ChangesOf(s, d, g))].before
    BY <1>1, <1>2 DEF Chains, Planned, Plans, Target
  <1>4. op[s].point \in DOMAIN points[s] /\ d \in Nat
    <2>1. op[s].point \in DOMAIN points[s] /\ points[s] \in Seq(PointType)
      BY DEF IInv, Types, Begun, Ready, InTx
    <2>2. points[s][op[s].point] \in PointType
      BY <2>1
    <2> QED  BY <1>1, <2>1, <2>2 DEF Cursor, PointType
  <1>5. Linked(s, d, f, from, Now(s, f))
    BY <1>1, <1>3, <1>4 DEF Chains, Followed, Traced, Cursor
  <1>6. f \in ChangedFiles(s, d) <=> ChangesOf(s, d, f) # {}
    BY DEF ChangedFiles, ChangesOf
  <1>7. CASE ChangesOf(s, d, f) = {}
    <2>1. \A y \in txs : ~Covers(y, s, f)
      BY <1>2, <1>3, <1>6, <1>7 DEF Covers, Chains, OneTx
    <2> QED  BY <1>1, <1>5, <1>7, <2>1 DEF Linked, Now, Writing
  <1>8. CASE ChangesOf(s, d, f) # {}
    <2>1. disk[f] = rows[Min(ChangesOf(s, d, f))].before
      BY <1>1, <1>2, <1>3, <1>6, <1>8 DEF FilesHold
    <2>2. ChangesOf(s, d, f) \in SUBSET Nat
      BY <1>4 DEF ChangesOf, OwnedChanges
    <2>3. PICK m \in ChangesOf(s, d, f) : m = Min(ChangesOf(s, d, f)) /\ \A i \in ChangesOf(s, d, f) : m <= i
      BY <1>8, <2>2, FirstIsOne
    <2> QED  BY <1>1, <1>5, <2>1, <2>3 DEF Linked
  <1> QED  BY <1>7, <1>8

-----------------------------------------------------------------------------
(* The theorems.                                                           *)

\* The tables, the records and the operations keep their types in every reachable state.
THEOREM TypeCorrect == Spec => []TypeOK
  <1>1. IInv => TypeOK
    BY Typed
  <1> QED  BY <1>1, InvariantHolds, PTL

\* recover_interrupted() rolls back only while no session of any process is in a file operation, be
\* the row it found that of a live rewind: the lease on the project is all that tells.
THEOREM RecoveryIsAlone == Spec => []RecoveryRunsAlone
  <1>1. IInv => RecoveryRunsAlone
    BY RunsAlone
  <1> QED  BY <1>1, InvariantHolds, PTL

\* No rollback and no recovery cuts records of completed turns and committed rewinds, and recovery
\* runs alone, when undoing a transaction does not raise.
THEOREM WorkSurvives ==
    ASSUME ~RollbackMayFail
    PROVE  Spec => []WorkSurvivesRecovery
  <1>1. IInv => WorkSurvivesRecovery
    <2> SUFFICES ASSUME IInv PROVE WorkSurvivesRecovery
      OBVIOUS
    <2>1. RecoveryRunsAlone
      BY RunsAlone
    <2>2. CompletedTurnsSurvive
      <3>1. DOMAIN log = Session /\ \A s \in Session : log[s] \in Nat /\ kept[s] \in Nat
        BY DEF IInv, Types
      <3>2. \A s \in Session : kept[s] <= log[s]
        BY DEF IInv, Saving
      <3> QED  BY <3>1, <3>2 DEF CompletedTurnsSurvive
    <2> QED  BY <2>1, <2>2 DEF WorkSurvivesRecovery
  <1> QED  BY <1>1, InvariantHolds, PTL

\* A transaction that is over happened completely or not at all: files, records and marks, be it
\* ended by its commit, by its except block or by the recovery of another process.
THEOREM TransactionsAreWhole ==
    ASSUME ~RollbackMayFail
    PROVE  Spec => AllOrNothing
  <1>1. IInv /\ [Next]_vars => [EndsWhole]_vars
    BY EveryEndIsWhole
  <1> QED  BY <1>1, InvariantHolds, PTL DEF Spec, AllOrNothing

\* From the checks of a rewind to its commit, each file it writes was last changed by the session
\* itself, and nobody else is writing it: the lease on the project covers rewind_transaction.
THEOREM OwnWorkOnly == Spec => []RewindTouchesOwnWork
  <1>1. Init => AtRest /\ RewindTouchesOwnWork
    BY DEF Init, AtRest, RewindTouchesOwnWork, Resting
  <1>2. IInv /\ IInv' /\ [Next]_vars /\ (AtRest /\ RewindTouchesOwnWork)
            => (AtRest /\ RewindTouchesOwnWork)'
    BY OwnWorkStep
  <1> QED  BY <1>1, <1>2, InvariantHolds, PTL DEF Spec

\* A rewind that is about to commit has put every file back to what it held at the recovery point,
\* but for the files that somebody else changed since, whatever writes, rewinds, untraced commands,
\* deaths and recoveries were in between, when undoing a transaction does not raise; and it writes
\* nothing but the session's own work (WorkspaceService.rewind, rewind_transaction).
THEOREM RestoresPoint ==
    ASSUME ~RollbackMayFail
    PROVE  Spec => []RewindsAreExact
  <1>1. IInv /\ IInv' /\ [Next]_vars /\ Chains => Chains'
    BY ChainsStep
  <1>2. IInv /\ Chains => RewindRestoresPoint
    BY ChainsRestore
  <1>3. RewindRestoresPoint /\ RewindTouchesOwnWork => RewindsAreExact
    BY DEF RewindsAreExact
  <1> QED  BY <1>1, <1>2, <1>3, InitiallyFollowed, InvariantHolds, OwnWorkOnly, PTL DEF Spec

=============================================================================
