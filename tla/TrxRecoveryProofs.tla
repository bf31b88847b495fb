------------------------- MODULE TrxRecoveryProofs -------------------------
(***************************************************************************)
(* Recovery, for any number of sessions, slots, keys, crashes and log      *)
(* records.                                                                *)
(*                                                                         *)
(* Everything is said about the log.  While the server is up, what a       *)
(* session has in memory is what the log holds of its transaction          *)
(* (SessionsOK), and a running transaction's insertions are in their slots *)
(* (LiveRows); so the commit record finds the table as CommittedRows asks. *)
(* While recover() runs, the transactions it keeps are those of the redone *)
(* records (RedoTrxes), and the table and the index hold the insertions    *)
(* that were not rolled back, nothing else (RedoTable), each marked record *)
(* being an operation of one of them (RedoEnds): rolling back the rest     *)
(* leaves what is committed.  Ids stay apart because no record has a mark  *)
(* above the counter (MarksDrawn).                                         *)
(*                                                                         *)
(* Which assertions can fail in recover() needs more.  Every deletion of   *)
(* the log is of a record that its own transaction inserted, or one that   *)
(* is past the point where it could be rolled back (DeletesHeld, from      *)
(* UpHeld while the server is up); so redo finds the record there.  Its    *)
(* end is MaxTrxId unless a deletion stands (RedoDeletes), and what an     *)
(* open transaction has inserted and deleted carries its marks             *)
(* (RedoBegins, RedoMarks).                                                *)
(***************************************************************************)
EXTENDS TrxRecovery, MvccTrxProofs, SequenceTheorems

-----------------------------------------------------------------------------
(* What the first n records of log l say of transaction x.                 *)

Begun(l, x, n) == \E i \in 1 .. n : l[i].type = "MTR_BEGIN" /\ l[i].trx = x
Ended(l, x, n) == \E e \in 1 .. n : Ends(l, e, x)
Committed(l, x, n) == \E c \in 1 .. n : CommittedAt(l, c, x)

\* A transaction logs between its MTR_BEGIN and its first end; a COMMIT or a
\* ROLLBACK without a transaction carries NoTrxId.
RecordOK(l, j) ==
  LET x == l[j].trx
  IN  /\ l[j].type = "MTR_BEGIN" => x > 0
      /\ l[j].type = "MTR_COMMIT" => l[j].xid > 0
      /\ l[j].type /= "MTR_BEGIN" /\ x /= NoTrxId => Begun(l, x, j - 1)
      /\ IsData(l[j]) => x /= NoTrxId /\ ~Ended(l, x, j)
      /\ Ends(l, j, x) => \E e \in 1 .. j : EndedAt(l, e, x)

LogOrdered(l) == \A j \in DOMAIN l : RecordOK(l, j)

\* The operation set ops is the one that the first n records give x.
OpsMatch(ops, l, x, n) ==
  /\ ops /= {} => ~Ended(l, x, n)
  /\ \A op \in ops : \E i \in 1 .. n :
       IsData(l[i]) /\ l[i].trx = x /\ l[i].type = op.type /\ l[i].rid = op.rid
  /\ ~Ended(l, x, n) => \A i \in 1 .. n : IsData(l[i]) /\ l[i].trx = x =>
       \/ [type |-> l[i].type, rid |-> l[i].rid] \in ops
       \/ \E d \in 1 .. i - 1 : IsData(l[d]) /\ l[d].trx = x /\ l[d].rid = l[i].rid

-----------------------------------------------------------------------------
(* The inductive invariant while the server is up.                         *)

Ending == {"commit", "rollback"}

\* A session has begun in the log the transaction it runs, and has ended there
\* the one it no longer runs, unless it is still committing or rolling it back.
SessionOK(s) ==
  /\ phase[s] \in {"stmt", "close"} => started[s]
  /\ phase[s] \in Ending => ~started[s]
  /\ phase[s] = "commit" => commit_xid[s] > 0
  /\ trx_id[s] /= NoTrxId =>
       trx_id[s] \in 1 .. current_trx_id /\ Begun(log, trx_id[s], Len(log))
  /\ started[s] => trx_id[s] /= NoTrxId /\ ~Ended(log, trx_id[s], Len(log))
  /\ ~started[s] /\ phase[s] \notin Ending /\ trx_id[s] /= NoTrxId
       => Ended(log, trx_id[s], Len(log))
  /\ todo[s] \subseteq operations[s]
  /\ phase[s] \notin Ending => todo[s] = {}
  /\ OpsMatch(operations[s], log, trx_id[s], Len(log))

\* No two sessions have a transaction in common.
SessionsOK ==
  /\ \A i \in DOMAIN log : log[i].trx <= current_trx_id
  /\ \A s \in Sessions : SessionOK(s)
  /\ \A s, t \in Sessions : s /= t /\ trx_id[s] /= NoTrxId => trx_id[s] /= trx_id[t]

\* No connection is open: recover() runs before the server listens.
SessionsGone == \A s \in Sessions :
  /\ phase[s] = "idle" /\ ~started[s] /\ trx_id[s] = NoTrxId
  /\ operations[s] = {} /\ todo[s] = {}

\* Every id that marks a record has been drawn from current_trx_id_.
MarksDrawn == \A r \in Rids : rows[r] /= NoRow =>
  -rows[r].begin <= current_trx_id /\ -rows[r].end <= current_trx_id

\* The transaction of s runs, or commits and has not logged MTR_COMMIT.
Live(s) == started[s] \/ (phase[s] = "commit" /\ ~Ended(log, trx_id[s], Len(log)))

\* What the table holds for record i, when it is of the transaction of session
\* t, which runs or commits: an insertion is in its slot, and what the commit has
\* done so far carries the commit id.
LiveRow(t, i) ==
  LET r == log[i].rid
      done == phase[t] = "commit" /\ [type |-> log[i].type, rid |-> r] \notin todo[t]
  IN  /\ log[i].type = "INSERT" =>
           /\ rows[r] /= NoRow /\ rows[r].key = log[i].key
           /\ done => rows[r].begin = commit_xid[t]
      /\ log[i].type = "DELETE" /\ ~OwnRecord(log, i) /\ OnlyDeletion(log, i) =>
           rows[r] = NoRow \/ (done => rows[r].end = commit_xid[t])

\* LiveRow holds of every record of every such transaction.
LiveRows == \A s \in Sessions : Live(s) =>
  \A i \in DOMAIN log : log[i].trx = trx_id[s] => LiveRow(s, i)

\* Until something is logged after a restart, no session has a transaction.
QuietAfterRestart ==
  crashes > 0 /\ pos = Len(log) + 1 => \A s \in Sessions : ~started[s] /\ operations[s] = {}

\* What holds while the server is up, whatever the log.
UpInv == mode = "up" =>
  /\ SessionsOK
  /\ MarksDrawn
  /\ QuietAfterRestart

\* What holds of a log that uses no slot too early; the index and the marks
\* need that only once recover() has run on it.
UpIndex == mode = "up" /\ (crashes = 0 \/ ~SlotReused(log, Len(log))) => IndexEntriesLive
UpMarks == mode = "up" /\ (crashes = 0 \/ ~SlotReused(log, Len(log))) => IdsNotReused
UpRows == mode = "up" /\ ~SlotReused(log, Len(log)) => LiveRows

-----------------------------------------------------------------------------
(* The inductive invariant while recover() runs.                           *)

\* The redone records of x stand: it has committed, or may still commit.
Kept(x) ==
  \/ Committed(log, x, pos - 1)
  \/ x \in DOMAIN trxes /\ ~Ended(log, x, pos - 1)

\* trxes_ holds the transactions begun so far, each with the operations that
\* the redone records give it; the kit's counter has passed their ids.
RedoTrxes ==
  /\ \A i \in 1 .. pos - 1 : log[i].type = "MTR_BEGIN" =>
       log[i].trx <= current_trx_id /\ (pos <= Len(log) => log[i].trx \in DOMAIN trxes)
  /\ \A x \in DOMAIN trxes : Begun(log, x, pos - 1) /\ OpsMatch(trxes[x], log, x, pos - 1)

\* A transaction deleted the record in slot r that it had inserted itself.
OwnDeletion(r) ==
  \E i \in DOMAIN log : log[i].type = "DELETE" /\ log[i].rid = r /\ OwnRecord(log, i)

\* A record whose end is a mark was deleted by a transaction of trxes_ that
\* is going to be committed or undone.
RedoEnds == \A r \in Rids : rows[r] /= NoRow =>
  \/ rows[r].end > 0
  \/ \E x \in DOMAIN trxes : [type |-> "DELETE", rid |-> r] \in trxes[x]
  \/ OwnDeletion(r)

\* Record i is the insertion that stands for slot r.
Holds(i, r) == log[i].type = "INSERT" /\ log[i].rid = r /\ Kept(log[i].trx)

\* Table and index hold the insertions that stand and nothing else.
RedoTable ==
  /\ \A i \in 1 .. pos - 1 : log[i].type = "INSERT" /\ Kept(log[i].trx) =>
       /\ rows[log[i].rid] /= NoRow /\ rows[log[i].rid].key = log[i].key
       /\ <<log[i].key, log[i].rid>> \in index
  /\ \A e \in index : \E i \in 1 .. pos - 1 : Holds(i, e[2]) /\ log[i].key = e[1]
  /\ \A r \in Rids : rows[r] /= NoRow => \E i \in 1 .. pos - 1 : Holds(i, r)

\* What holds while recover() runs, whatever the log.
RedoInv == mode = "redo" =>
  /\ crashes > 0 /\ SessionsGone
  /\ MarksDrawn
  /\ RedoTrxes
  /\ RedoEnds

\* What holds while it redoes a log that uses no slot too early.
RedoRows == mode = "redo" /\ ~SlotReused(log, pos - 1) => RedoTable /\ CommittedRows(pos - 1)

-----------------------------------------------------------------------------
(* What the assertions of redo, commit_with_trx_id and rollback rest on.   *)

InsertOf(i, r) == log[i].type = "INSERT" /\ log[i].rid = r
DeleteOf(d, r) == log[d].type = "DELETE" /\ log[d].rid = r
DeleteOp(r) == [type |-> "DELETE", rid |-> r]

\* What y inserted can be deleted by others: y is not rolled back in the log, and
\* as long as it has no end there its session commits it.
Safe(y) ==
  /\ ~RolledBack(log, y, Len(log))
  /\ \A s \in Sessions : trx_id[s] = y /\ ~Ended(log, y, Len(log)) => phase[s] = "commit"

\* Every deletion is of a record that its own or a safe transaction inserted.
DeletesHeld == \A j \in DOMAIN log : log[j].type = "DELETE" /\ ~SlotReused(log, j) =>
  \E i \in 1 .. j - 1 : InsertOf(i, log[j].rid) /\ (log[i].trx = log[j].trx \/ Safe(log[i].trx))

\* The same of the records that a running transaction may delete.
HeldRow(r) ==
  /\ rows[r].begin /= 0
  /\ rows[r].begin > 0 => \E i \in 1 .. Len(log) : InsertOf(i, r) /\ Safe(log[i].trx)
  /\ \A s \in Sessions : started[s] /\ rows[r].begin = -trx_id[s] =>
       \E i \in 1 .. Len(log) : InsertOf(i, r) /\ log[i].trx = trx_id[s]
UpHeld == mode = "up" /\ ~SlotReused(log, Len(log)) => \A r \in Rids : rows[r] /= NoRow => HeldRow(r)

\* The redone deletion d of the record in slot r stands: its transaction has
\* committed, or its end is still to come and will find the mark or the record.
Standing(d, r) ==
  /\ DeleteOf(d, r) /\ ~RolledBack(log, log[d].trx, pos - 1)
  /\ \/ Ended(log, log[d].trx, pos - 1)
     \/ /\ log[d].trx \in DOMAIN trxes
        /\ \/ DeleteOp(r) \in trxes[log[d].trx]
           \/ \E i \in 1 .. pos - 1 : InsertOf(i, r) /\ log[i].trx = log[d].trx

\* A record that is not in its latest version has such a deletion; what an open
\* transaction inserted has its mark, and so has what it deleted when nothing
\* was deleted twice.
RedoDeletes == \A r \in Rids : rows[r] /= NoRow /\ rows[r].end /= MaxTrxId =>
  \E d \in 1 .. pos - 1 : Standing(d, r)
RedoBegins == \A i \in 1 .. pos - 1 :
  log[i].type = "INSERT" /\ log[i].trx \in DOMAIN trxes /\ ~Ended(log, log[i].trx, pos - 1)
    => rows[log[i].rid].begin = -log[i].trx
RedoMarks == ~DeletedTwice(log, pos - 1) =>
  \A x \in DOMAIN trxes, r \in Rids : DeleteOp(r) \in trxes[x] /\ rows[r] /= NoRow => rows[r].end = -x
RedoAsserts == mode = "redo" /\ ~SlotReused(log, pos - 1) => RedoDeletes /\ RedoBegins /\ RedoMarks

-----------------------------------------------------------------------------
(* The invariant: what holds with any index, and what holds when the index *)
(* is not unique.                                                          *)

AnyIndex ==
  /\ RecoveryTypeOK /\ LogOrdered(log)
  /\ UpInv /\ UpIndex /\ RedoInv /\ RedoRows
  /\ DeletesHeld /\ UpHeld /\ RedoAsserts
  /\ RefusedLogs /\ RecoveredTableClean

\* With a unique index an UPDATE that fails leaves a mark no log record names.
PlainIndex == UpMarks /\ UpRows /\ TableMatchesLog

-----------------------------------------------------------------------------
(* What the log says, lemma by lemma.                                      *)

\* The two logs have the same first n records.
Agree(l, m, n) == \A i \in 1 .. n : l[i] = m[i]

\* What is said about a record or the first records of a log depends on these
\* records only.
LEMMA AgreeFates ==
  ASSUME NEW l, NEW m, NEW n \in Nat, Agree(l, m, n), NEW x
  PROVE  /\ \A e \in 1 .. n : Ends(l, e, x) <=> Ends(m, e, x)
         /\ \A e \in 1 .. n : EndedAt(l, e, x) <=> EndedAt(m, e, x)
         /\ \A e \in 1 .. n : CommittedAt(l, e, x) <=> CommittedAt(m, e, x)
         /\ \A k \in 0 .. n : Ended(l, x, k) <=> Ended(m, x, k)
         /\ \A k \in 0 .. n : Begun(l, x, k) <=> Begun(m, x, k)
         /\ \A k \in 0 .. n : RolledBack(l, x, k) <=> RolledBack(m, x, k)
         /\ \A k \in 0 .. n : Committed(l, x, k) <=> Committed(m, x, k)
  <1>1. \A e \in 1 .. n : Ends(l, e, x) <=> Ends(m, e, x)
    BY DEF Agree, Ends
  <1>2. \A e \in 1 .. n : EndedAt(l, e, x) <=> EndedAt(m, e, x)
    BY <1>1 DEF EndedAt
  <1>3. \A e \in 1 .. n : CommittedAt(l, e, x) <=> CommittedAt(m, e, x)
    BY <1>2 DEF CommittedAt, Agree
  <1>4. \A k \in 0 .. n : Ended(l, x, k) <=> Ended(m, x, k)
    BY <1>1 DEF Ended
  <1>5. \A k \in 0 .. n : Begun(l, x, k) <=> Begun(m, x, k)
    BY DEF Agree, Begun
  <1>6. \A k \in 0 .. n : RolledBack(l, x, k) <=> RolledBack(m, x, k)
    BY <1>2 DEF RolledBack, Agree
  <1>7. \A k \in 0 .. n : Committed(l, x, k) <=> Committed(m, x, k)
    BY <1>3 DEF Committed
  <1> QED
    BY <1>1, <1>2, <1>3, <1>4, <1>5, <1>6, <1>7

\* The same for slots that are used again and for operation sets.
LEMMA AgreeSlots ==
  ASSUME NEW l, NEW m, NEW n \in Nat, Agree(l, m, n)
  PROVE  \A k \in 0 .. n : SlotReused(l, k) => SlotReused(m, k)
  <1> SUFFICES ASSUME NEW k \in 0 .. n, SlotReused(l, k) PROVE SlotReused(m, k)
    OBVIOUS
  <1>1. PICK j \in 1 .. k : l[j].type = "INSERT" /\ \E i \in 1 .. j - 1 :
           IsData(l[i]) /\ l[i].rid = l[j].rid /\ ~RolledBack(l, l[i].trx, j - 1)
    BY DEF SlotReused
  <1>2. PICK i \in 1 .. j - 1 :
           IsData(l[i]) /\ l[i].rid = l[j].rid /\ ~RolledBack(l, l[i].trx, j - 1)
    BY <1>1
  <1>3. m[j] = l[j] /\ m[i] = l[i]
    BY DEF Agree
  <1>4. ~RolledBack(m, l[i].trx, j - 1)
    BY <1>2, AgreeFates
  <1> QED
    BY <1>1, <1>2, <1>3, <1>4 DEF SlotReused

\* Logs that agree give a transaction the same operations.
LEMMA AgreeOps ==
  ASSUME NEW l, NEW m, NEW n \in Nat, Agree(l, m, n), NEW x, NEW ops, OpsMatch(ops, l, x, n)
  PROVE  OpsMatch(ops, m, x, n)
  <1>1. Ended(l, x, n) <=> Ended(m, x, n)
    BY AgreeFates
  <1>2. \A op \in ops : \E i \in 1 .. n :
          IsData(m[i]) /\ m[i].trx = x /\ m[i].type = op.type /\ m[i].rid = op.rid
    BY DEF OpsMatch, Agree
  <1>3. ASSUME ~Ended(m, x, n), NEW i \in 1 .. n, IsData(m[i]), m[i].trx = x
        PROVE  \/ [type |-> m[i].type, rid |-> m[i].rid] \in ops
               \/ \E d \in 1 .. i - 1 : IsData(m[d]) /\ m[d].trx = x /\ m[d].rid = m[i].rid
    <2>1. l[i] = m[i] /\ \A d \in 1 .. i - 1 : l[d] = m[d]
      BY DEF Agree
    <2> QED
      BY <1>1, <1>3, <2>1 DEF OpsMatch
  <1> QED
    BY <1>1, <1>2, <1>3 DEF OpsMatch

\* What the log says stays said when more records are looked at.
LEMMA Growing ==
  ASSUME NEW l, NEW x, NEW n \in Nat, NEW k \in 0 .. n
  PROVE  /\ Ended(l, x, k) => Ended(l, x, n)
         /\ Begun(l, x, k) => Begun(l, x, n)
         /\ RolledBack(l, x, k) => RolledBack(l, x, n)
         /\ Committed(l, x, k) => Committed(l, x, n)
         /\ SlotReused(l, k) => SlotReused(l, n)
  <1>1. \A i \in 1 .. k : i \in 1 .. n
    OBVIOUS
  <1>2. (Ended(l, x, k) => Ended(l, x, n)) /\ (Begun(l, x, k) => Begun(l, x, n))
    BY <1>1 DEF Ended, Begun
  <1>3. (RolledBack(l, x, k) => RolledBack(l, x, n)) /\ (Committed(l, x, k) => Committed(l, x, n))
    BY <1>1 DEF RolledBack, Committed
  <1>4. SlotReused(l, k) => SlotReused(l, n)
    BY <1>1 DEF SlotReused
  <1> QED
    BY <1>2, <1>3, <1>4

\* A transaction has one fate at most, and a log in order gives one to each
\* transaction it ends.
LEMMA OneFate ==
  ASSUME NEW l, NEW x, NEW n \in Nat
  PROVE  /\ RolledBack(l, x, n) \/ Committed(l, x, n) => Ended(l, x, n)
         /\ ~(RolledBack(l, x, n) /\ Committed(l, x, n))
         /\ \A c \in 1 .. n : CommittedAt(l, c, x) => Committed(l, x, n)
         /\ \A c, d \in 1 .. n : CommittedAt(l, c, x) /\ CommittedAt(l, d, x) => c = d
         /\ LogOrdered(l) /\ 1 .. n \subseteq DOMAIN l /\ Ended(l, x, n) =>
              RolledBack(l, x, n) \/ Committed(l, x, n)
  <1>1. RolledBack(l, x, n) \/ Committed(l, x, n) => Ended(l, x, n)
    BY DEF RolledBack, Committed, CommittedAt, EndedAt, Ended
  <1>2. ASSUME NEW c \in 1 .. n, NEW d \in 1 .. n, EndedAt(l, c, x), EndedAt(l, d, x) PROVE c = d
    <2>1. ~(c < d) /\ ~(d < c)
      BY <1>2 DEF EndedAt
    <2> QED
      BY <2>1
  <1>3. ~(RolledBack(l, x, n) /\ Committed(l, x, n))
    <2> SUFFICES ASSUME RolledBack(l, x, n), Committed(l, x, n) PROVE FALSE
      OBVIOUS
    <2>1. PICK c \in 1 .. n : EndedAt(l, c, x) /\ l[c].type = "MTR_ROLLBACK"
      BY DEF RolledBack
    <2>2. PICK d \in 1 .. n : EndedAt(l, d, x) /\ l[d].type = "MTR_COMMIT"
      BY DEF Committed, CommittedAt
    <2>3. c = d
      BY <1>2, <2>1, <2>2
    <2> QED
      BY <2>1, <2>2, <2>3
  <1>4. \A c \in 1 .. n : CommittedAt(l, c, x) => Committed(l, x, n)
    BY DEF Committed
  <1>5. \A c, d \in 1 .. n : CommittedAt(l, c, x) /\ CommittedAt(l, d, x) => c = d
    BY <1>2 DEF CommittedAt
  <1>6. ASSUME LogOrdered(l), 1 .. n \subseteq DOMAIN l, Ended(l, x, n)
        PROVE  RolledBack(l, x, n) \/ Committed(l, x, n)
    <2>1. PICK j \in 1 .. n : Ends(l, j, x)
      BY <1>6 DEF Ended
    <2>2. l[j].trx = x /\ j \in DOMAIN l
      BY <1>6, <2>1 DEF Ends
    <2>3. PICK e \in 1 .. j : EndedAt(l, e, x)
      BY <1>6, <2>1, <2>2 DEF LogOrdered, RecordOK
    <2>4. e \in 1 .. n /\ l[e].type \in {"MTR_COMMIT", "MTR_ROLLBACK"}
      BY <2>3 DEF EndedAt, Ends
    <2> QED
      BY <2>3, <2>4 DEF RolledBack, Committed, CommittedAt
  <1> QED
    BY <1>1, <1>3, <1>4, <1>5, <1>6

\* A record of a slot stands when an insertion into the slot is logged after it.
LEMMA EarlierClash ==
  ASSUME NEW l, NEW n \in Nat, NEW i \in 1 .. n, NEW d \in 1 .. i - 1,
         IsData(l[d]), l[i].type = "INSERT", l[d].rid = l[i].rid, ~RolledBack(l, l[d].trx, n)
  PROVE  SlotReused(l, n)
  <1>1. i - 1 \in 0 .. n
    OBVIOUS
  <1>2. ~RolledBack(l, l[d].trx, i - 1)
    BY <1>1, Growing
  <1> QED
    BY <1>2 DEF SlotReused

\* Two insertions into a slot stand.
LEMMA InsertClash ==
  ASSUME NEW l, NEW n \in Nat, NEW i \in 1 .. n, NEW j \in 1 .. n, i /= j,
         l[i].type = "INSERT", l[j].type = "INSERT", l[i].rid = l[j].rid,
         ~RolledBack(l, l[i].trx, n), ~RolledBack(l, l[j].trx, n)
  PROVE  SlotReused(l, n)
  <1>1. i \in 1 .. j - 1 \/ j \in 1 .. i - 1
    OBVIOUS
  <1>2. IsData(l[i]) /\ IsData(l[j])
    BY DEF IsData
  <1> QED
    BY <1>1, <1>2, EarlierClash

\* A data record of a transaction enters its operation set.
LEMMA OpsAdd ==
  ASSUME NEW l, NEW x, NEW n \in Nat, NEW ops, OpsMatch(ops, l, x, n), ~Ended(l, x, n),
         NEW type \in {"INSERT", "DELETE"}, NEW r,
         l[n + 1].type = type, l[n + 1].rid = r, l[n + 1].trx = x
  PROVE  OpsMatch(AddOperation(ops, type, r), l, x, n + 1)
  <1> DEFINE new == [type |-> type, rid |-> r]
  <1>1. ~Ended(l, x, n + 1)
    <2>1. ~Ends(l, n + 1, x)
      BY DEF Ends
    <2>2. \A e \in 1 .. n + 1 : e \in 1 .. n \/ e = n + 1
      OBVIOUS
    <2> QED
      BY <2>1, <2>2 DEF Ended
  <1>2. IsData(l[n + 1]) /\ n + 1 \in 1 .. n + 1 /\ \A i \in 1 .. n : i \in 1 .. n + 1
    BY DEF IsData
  <1>3. CASE \E op \in ops : op.rid = r
    <2>1. AddOperation(ops, type, r) = ops
      BY <1>3 DEF AddOperation
    <2>2. PICK op \in ops : op.rid = r
      BY <1>3
    <2>3. PICK d \in 1 .. n : IsData(l[d]) /\ l[d].trx = x /\ l[d].rid = r
      BY <2>2 DEF OpsMatch
    <2>4. ASSUME NEW i \in 1 .. n + 1, IsData(l[i]), l[i].trx = x
          PROVE  \/ [type |-> l[i].type, rid |-> l[i].rid] \in ops
                 \/ \E e \in 1 .. i - 1 : IsData(l[e]) /\ l[e].trx = x /\ l[e].rid = l[i].rid
      <3>1. CASE i = n + 1
        BY <2>3, <3>1
      <3>2. CASE i \in 1 .. n
        BY <2>4, <3>2 DEF OpsMatch
      <3> QED
        BY <3>1, <3>2
    <2>5. \A oq \in ops : \E i \in 1 .. n + 1 :
            IsData(l[i]) /\ l[i].trx = x /\ l[i].type = oq.type /\ l[i].rid = oq.rid
      BY <1>2 DEF OpsMatch
    <2> QED
      BY <1>1, <2>1, <2>4, <2>5 DEF OpsMatch
  <1>4. CASE ~\E op \in ops : op.rid = r
    <2>1. AddOperation(ops, type, r) = ops \cup {new}
      BY <1>4 DEF AddOperation
    <2>2. ASSUME NEW i \in 1 .. n + 1, IsData(l[i]), l[i].trx = x
          PROVE  \/ [type |-> l[i].type, rid |-> l[i].rid] \in ops \cup {new}
                 \/ \E e \in 1 .. i - 1 : IsData(l[e]) /\ l[e].trx = x /\ l[e].rid = l[i].rid
      <3>1. CASE i = n + 1
        BY <3>1
      <3>2. CASE i \in 1 .. n
        BY <2>2, <3>2 DEF OpsMatch
      <3> QED
        BY <3>1, <3>2
    <2>3. \A oq \in ops : \E i \in 1 .. n + 1 :
            IsData(l[i]) /\ l[i].trx = x /\ l[i].type = oq.type /\ l[i].rid = oq.rid
      BY <1>2 DEF OpsMatch
    <2>4. \E i \in 1 .. n + 1 :
            IsData(l[i]) /\ l[i].trx = x /\ l[i].type = new.type /\ l[i].rid = new.rid
      BY <1>2
    <2> HIDE DEF new
    <2>5. \A oq \in ops \cup {new} : \E i \in 1 .. n + 1 :
            IsData(l[i]) /\ l[i].trx = x /\ l[i].type = oq.type /\ l[i].rid = oq.rid
      BY <2>3, <2>4
    <2> QED
      BY <1>1, <2>1, <2>2, <2>5 DEF OpsMatch
  <1> QED
    BY <1>3, <1>4

\* An ended transaction has no operations.
LEMMA OpsEnd ==
  ASSUME NEW l, NEW x, NEW n \in Nat, Ended(l, x, n)
  PROVE  OpsMatch({}, l, x, n)
  BY DEF OpsMatch

\* A record of another transaction, or one that begins a transaction, leaves
\* the operation set alone.
LEMMA OpsOther ==
  ASSUME NEW l, NEW x, NEW n \in Nat, NEW ops, OpsMatch(ops, l, x, n),
         l[n + 1].trx /= x \/ l[n + 1].type = "MTR_BEGIN"
  PROVE  /\ OpsMatch(ops, l, x, n + 1)
         /\ Ended(l, x, n + 1) <=> Ended(l, x, n)
         /\ RolledBack(l, x, n + 1) <=> RolledBack(l, x, n)
         /\ Committed(l, x, n + 1) <=> Committed(l, x, n)
  <1>1. ~Ends(l, n + 1, x) /\ ~(IsData(l[n + 1]) /\ l[n + 1].trx = x)
    BY DEF Ends, IsData
  <1>2. /\ \A e \in 1 .. n + 1 : e \in 1 .. n \/ e = n + 1
        /\ \A e \in 1 .. n : e \in 1 .. n + 1
    OBVIOUS
  <1>3. Ended(l, x, n + 1) <=> Ended(l, x, n)
    BY <1>1, <1>2 DEF Ended
  <1>4. /\ RolledBack(l, x, n + 1) <=> RolledBack(l, x, n)
        /\ Committed(l, x, n + 1) <=> Committed(l, x, n)
    BY <1>1, <1>2 DEF RolledBack, Committed, CommittedAt, EndedAt
  <1>5. \A op \in ops : \E i \in 1 .. n + 1 :
          IsData(l[i]) /\ l[i].trx = x /\ l[i].type = op.type /\ l[i].rid = op.rid
    BY <1>2 DEF OpsMatch
  <1>6. ASSUME ~Ended(l, x, n + 1), NEW i \in 1 .. n + 1, IsData(l[i]), l[i].trx = x
        PROVE  \/ [type |-> l[i].type, rid |-> l[i].rid] \in ops
               \/ \E d \in 1 .. i - 1 : IsData(l[d]) /\ l[d].trx = x /\ l[d].rid = l[i].rid
    <2>1. i \in 1 .. n
      BY <1>1, <1>2, <1>6
    <2> QED
      BY <1>3, <1>6, <2>1 DEF OpsMatch
  <1> QED
    BY <1>3, <1>4, <1>5, <1>6 DEF OpsMatch

\* The insertions and the deletions that a running transaction logged are in
\* its operation set.
LEMMA InsertInOps ==
  ASSUME NEW l, NEW x, NEW n \in Nat, NEW ops, OpsMatch(ops, l, x, n), ~Ended(l, x, n),
         ~SlotReused(l, n), NEW i \in 1 .. n, l[i].type = "INSERT", l[i].trx = x
  PROVE  [type |-> "INSERT", rid |-> l[i].rid] \in ops
  <1> SUFFICES ASSUME NEW d \in 1 .. i - 1, IsData(l[d]), l[d].trx = x, l[d].rid = l[i].rid
               PROVE FALSE
    BY DEF OpsMatch, IsData
  <1>1. ~RolledBack(l, l[d].trx, n)
    BY OneFate
  <1> QED
    BY <1>1, EarlierClash

\* The only deletion of a foreign record is in its transaction's operation set.
LEMMA DeleteInOps ==
  ASSUME NEW l, NEW x, NEW n \in Nat, 1 .. n \subseteq DOMAIN l, NEW ops,
         OpsMatch(ops, l, x, n), ~Ended(l, x, n), NEW i \in 1 .. n, l[i].type = "DELETE",
         l[i].trx = x, ~OwnRecord(l, i), OnlyDeletion(l, i)
  PROVE  [type |-> "DELETE", rid |-> l[i].rid] \in ops
  <1> SUFFICES ASSUME NEW d \in 1 .. i - 1, IsData(l[d]), l[d].trx = x, l[d].rid = l[i].rid
               PROVE FALSE
    BY DEF OpsMatch, IsData
  <1>1. d \in DOMAIN l /\ d /= i /\ i - 1 \in 0 .. n /\ i - 1 \in Nat
    OBVIOUS
  <1>2. l[d].type = "DELETE"
    BY <1>1 DEF OwnRecord, IsData
  <1>3. RolledBack(l, x, i - 1)
    BY <1>1, <1>2 DEF OnlyDeletion
  <1> QED
    BY <1>1, <1>3, OneFate, Growing

\* No other transaction's operation set has an insertion into the slot of an
\* insertion that stands, or a deletion of a record with one deletion only.
LEMMA ForeignInsert ==
  ASSUME NEW l, NEW n \in Nat, ~SlotReused(l, n), NEW i \in 1 .. n, l[i].type = "INSERT",
         ~RolledBack(l, l[i].trx, n), NEW y, y /= l[i].trx, NEW ops, OpsMatch(ops, l, y, n)
  PROVE  [type |-> "INSERT", rid |-> l[i].rid] \notin ops
  <1> SUFFICES ASSUME [type |-> "INSERT", rid |-> l[i].rid] \in ops PROVE FALSE
    OBVIOUS
  <1>1. PICK j \in 1 .. n : l[j].trx = y /\ l[j].type = "INSERT" /\ l[j].rid = l[i].rid
    BY DEF OpsMatch
  <1>2. ~RolledBack(l, y, n)
    BY OneFate DEF OpsMatch
  <1> QED
    BY <1>1, <1>2, InsertClash

\* No other transaction has a deletion of that record in its set.
LEMMA ForeignDelete ==
  ASSUME NEW l, NEW n \in Nat, 1 .. n \subseteq DOMAIN l, NEW i \in 1 .. n, l[i].type = "DELETE",
         OnlyDeletion(l, i), NEW y, y /= l[i].trx, NEW ops, OpsMatch(ops, l, y, n)
  PROVE  [type |-> "DELETE", rid |-> l[i].rid] \notin ops
  <1> SUFFICES ASSUME [type |-> "DELETE", rid |-> l[i].rid] \in ops PROVE FALSE
    OBVIOUS
  <1>1. PICK j \in 1 .. n : l[j].trx = y /\ l[j].type = "DELETE" /\ l[j].rid = l[i].rid
    BY DEF OpsMatch
  <1>2. RolledBack(l, y, i - 1)
    BY <1>1 DEF OnlyDeletion
  <1>3. i - 1 \in 0 .. n
    OBVIOUS
  <1>4. Ended(l, y, n)
    BY <1>2, <1>3, OneFate, Growing
  <1> QED
    BY <1>4 DEF OpsMatch

\* Whether a record is in order depends on the records up to it.
LEMMA AgreeOrder ==
  ASSUME NEW l, NEW m, NEW n \in Nat, Agree(l, m, n), NEW j \in 1 .. n, RecordOK(l, j)
  PROVE  RecordOK(m, j)
  <1> DEFINE x == l[j].trx
  <1>1. m[j] = l[j] /\ j \in 0 .. n /\ j - 1 \in 0 .. n
    BY DEF Agree
  <1>2. /\ Begun(l, x, j - 1) <=> Begun(m, x, j - 1)
        /\ Ended(l, x, j) <=> Ended(m, x, j)
        /\ Ends(l, j, x) <=> Ends(m, j, x)
        /\ \A e \in 1 .. j : EndedAt(l, e, x) <=> EndedAt(m, e, x)
    BY <1>1, AgreeFates
  <1> QED
    BY <1>1, <1>2 DEF RecordOK

\* The record after n records in order is in order when its transaction has
\* begun, and has not ended if the record changes the table.
LEMMA NewRecord ==
  ASSUME NEW l, NEW n \in Nat, \A i \in 1 .. n : RecordOK(l, i),
         l[n + 1].type = "MTR_BEGIN" => l[n + 1].trx > 0,
         l[n + 1].type = "MTR_COMMIT" => l[n + 1].xid > 0,
         l[n + 1].type /= "MTR_BEGIN" /\ l[n + 1].trx /= NoTrxId => Begun(l, l[n + 1].trx, n),
         IsData(l[n + 1]) => l[n + 1].trx /= NoTrxId /\ ~Ended(l, l[n + 1].trx, n)
  PROVE  RecordOK(l, n + 1)
  <1> DEFINE x == l[n + 1].trx
  <1>1. IsData(l[n + 1]) => ~Ended(l, x, n + 1)
    <2>1. IsData(l[n + 1]) => ~Ends(l, n + 1, x)
      BY DEF IsData, Ends
    <2>2. \A e \in 1 .. n + 1 : e \in 1 .. n \/ e = n + 1
      OBVIOUS
    <2> QED
      BY <2>1, <2>2 DEF Ended
  <1>2. ASSUME Ends(l, n + 1, x) PROVE \E e \in 1 .. n + 1 : EndedAt(l, e, x)
    <2>1. CASE \E d \in 1 .. n : Ends(l, d, x)
      <3>1. PICK d \in 1 .. n : Ends(l, d, x)
        BY <2>1
      <3>2. l[d].trx = x
        BY <3>1 DEF Ends
      <3>3. PICK e \in 1 .. d : EndedAt(l, e, x)
        BY <3>1, <3>2 DEF RecordOK
      <3> QED
        BY <3>3
    <2>2. CASE ~\E d \in 1 .. n : Ends(l, d, x)
      <3>1. n + 1 \in 1 .. n + 1 /\ (n + 1) - 1 = n
        OBVIOUS
      <3> QED
        BY <1>2, <2>2, <3>1 DEF EndedAt
    <2> QED
      BY <2>1, <2>2
  <1>3. (n + 1) - 1 = n
    OBVIOUS
  <1> QED
    BY <1>1, <1>2, <1>3 DEF RecordOK

\* The fields of a log record.
LEMMA RecordFields ==
  ASSUME NEW rec \in LogRecord
  PROVE  /\ rec.trx \in Int
         /\ rec.type = "INSERT" => rec.rid \in Rids /\ rec.key \in Keys
         /\ rec.type = "DELETE" => rec.rid \in Rids
         /\ rec.type = "MTR_COMMIT" => rec.xid \in Int
         /\ rec.type \in {"MTR_BEGIN", "MTR_COMMIT", "MTR_ROLLBACK", "INSERT", "DELETE"}
  BY DEF LogRecord

\* m is the log l with more records at its end.
Extends(l, m) ==
  m \in Seq(LogRecord) /\ Len(l) <= Len(m) /\ Agree(l, m, Len(l))

\* Appending one record, or the two of an update.
LEMMA AppendOne ==
  ASSUME NEW l \in Seq(LogRecord), NEW a \in LogRecord, NEW m, m = l \o <<a>>
  PROVE  /\ Extends(l, m) /\ Len(m) = Len(l) + 1 /\ m[Len(l) + 1] = a
         /\ Len(l) \in Nat /\ DOMAIN l = 1 .. Len(l) /\ DOMAIN m = 1 .. Len(m)
  <1>1. m = Append(l, a)
    BY AppendIsConcat
  <1>2. /\ m \in Seq(LogRecord) /\ Len(m) = Len(l) + 1 /\ m[Len(l) + 1] = a
        /\ \A i \in 1 .. Len(l) : m[i] = l[i]
    BY <1>1, AppendProperties
  <1>3. Len(l) \in Nat /\ DOMAIN l = 1 .. Len(l) /\ DOMAIN m = 1 .. Len(m)
    BY <1>2, LenProperties
  <1> QED
    BY <1>2, <1>3 DEF Extends, Agree

\* A log with two more records, which is what an UPDATE appends.
LEMMA AppendTwo ==
  ASSUME NEW l \in Seq(LogRecord), NEW q \in Seq(LogRecord), Len(q) = 2, NEW m, m = l \o q
  PROVE  /\ Extends(l, m) /\ Len(m) = Len(l) + 2
         /\ m[Len(l) + 1] = q[1] /\ m[Len(l) + 2] = q[2]
         /\ Len(l) \in Nat /\ DOMAIN l = 1 .. Len(l) /\ DOMAIN m = 1 .. Len(m)
  <1>1. /\ m \in Seq(LogRecord) /\ Len(m) = Len(l) + Len(q)
        /\ \A i \in 1 .. Len(l) + Len(q) : m[i] = IF i <= Len(l) THEN l[i] ELSE q[i - Len(l)]
    BY ConcatProperties
  <1>2. Len(l) \in Nat /\ DOMAIN l = 1 .. Len(l) /\ DOMAIN m = 1 .. Len(m)
    BY <1>1, LenProperties
  <1>3. /\ \A i \in 1 .. Len(l) : m[i] = l[i]
        /\ m[Len(l) + 1] = q[1] /\ m[Len(l) + 2] = q[2]
    BY <1>1, <1>2
  <1> QED
    BY <1>1, <1>2, <1>3 DEF Extends, Agree

\* The log that a crash leaves.
LEMMA LogCut ==
  ASSUME NEW l \in Seq(LogRecord), NEW n \in 0 .. Len(l), NEW m, m = SubSeq(l, 1, n)
  PROVE  /\ m \in Seq(LogRecord) /\ Len(m) = n /\ Agree(l, m, n)
         /\ DOMAIN m = 1 .. n /\ DOMAIN l = 1 .. Len(l)
  <1>1. Len(l) \in Nat /\ DOMAIN l = 1 .. Len(l) /\ n \in Int /\ n \in Nat
    BY LenProperties
  <1>2. \A i \in 1 .. n : l[i] \in LogRecord
    BY <1>1, ElementOfSeq
  <1>3. /\ m \in Seq(LogRecord) /\ Len(m) = IF 1 <= n THEN n - 1 + 1 ELSE 0
        /\ \A i \in 1 .. n - 1 + 1 : m[i] = l[1 + i - 1]
    BY <1>1, <1>2, SubSeqProperties
  <1>4. Len(m) = n /\ \A i \in 1 .. n : m[i] = l[i]
    BY <1>1, <1>3
  <1>5. DOMAIN m = 1 .. n
    BY <1>3, <1>4, LenProperties
  <1> QED
    BY <1>1, <1>3, <1>4, <1>5 DEF Agree

\* The deletions that are alone in a longer log are alone in the shorter one.
LEMMA DeletionsKept ==
  ASSUME NEW l \in Seq(LogRecord), NEW m, Extends(l, m), NEW i \in 1 .. Len(l)
  PROVE  /\ OwnRecord(l, i) => OwnRecord(m, i)
         /\ OnlyDeletion(m, i) => OnlyDeletion(l, i)
  <1>1. /\ Len(l) \in Nat /\ Len(m) \in Nat /\ DOMAIN l = 1 .. Len(l) /\ DOMAIN m = 1 .. Len(m)
        /\ DOMAIN l \subseteq DOMAIN m /\ i - 1 \in 0 .. Len(l)
    BY LenProperties DEF Extends
  <1>2. Agree(l, m, Len(l)) /\ \A j \in DOMAIN l : l[j] = m[j]
    BY <1>1 DEF Extends, Agree
  <1>3. OwnRecord(l, i) => OwnRecord(m, i)
    BY <1>1, <1>2 DEF OwnRecord
  <1>4. ASSUME OnlyDeletion(m, i), NEW j \in DOMAIN l \ {i}, l[j].type = "DELETE", l[j].rid = l[i].rid
        PROVE  j < i /\ RolledBack(l, l[j].trx, i - 1)
    <2>1. m[j] = l[j] /\ m[i] = l[i] /\ j \in DOMAIN m \ {i}
      BY <1>1, <1>2
    <2>2. j < i /\ RolledBack(m, l[j].trx, i - 1)
      BY <1>4, <2>1 DEF OnlyDeletion
    <2>3. RolledBack(l, l[j].trx, i - 1)
      BY <1>1, <1>2, <2>2, AgreeFates
    <2> QED
      BY <2>2, <2>3
  <1> QED
    BY <1>3, <1>4 DEF OnlyDeletion

-----------------------------------------------------------------------------
(* Type correctness.                                                       *)

\* The records that the handlers append are log records.
LEMMA LoggedTypes ==
  ASSUME RecoveryTypeOK, NEW s \in Sessions, NEW r \in Rids, NEW k \in Keys
  PROVE  /\ [type |-> "MTR_BEGIN", trx |-> current_trx_id + 1] \in LogRecord
         /\ [type |-> "MTR_ROLLBACK", trx |-> trx_id[s]] \in LogRecord
         /\ [type |-> "MTR_COMMIT", trx |-> trx_id[s], xid |-> commit_xid[s]] \in LogRecord
         /\ InsertLog(s, r, k) \in LogRecord
         /\ DeleteLog(s, r) \in LogRecord
  <1>1. current_trx_id + 1 \in Int /\ trx_id[s] \in Int /\ commit_xid[s] \in Int
    BY DEF RecoveryTypeOK, TypeOK
  <1> QED
    BY <1>1 DEF LogRecord, InsertLog, DeleteLog

\* A handler leaves the log alone or appends one or two records to it.
LogGrows ==
  \/ log' = log /\ synced' = synced
  \/ \E a \in LogRecord : log' = log \o <<a>> /\ synced' \in {synced, Len(log) + 1}
  \/ \E a, b \in LogRecord : log' = log \o <<a, b>> /\ synced' = synced

\* Serving a request is a step of MvccTrx and lets the log grow.
LEMMA ServeGrows ==
  ASSUME RecoveryTypeOK, NEW s \in Sessions, Serve(s)
  PROVE  LogGrows /\ UNCHANGED redoVars /\ Next
  <1>1. Next
    BY DEF Serve, Next
  <1> DEFINE Quiet == LogsNothing
             One == \E a \in LogRecord : Logs(<<a>>)
             Two == \E a, b \in LogRecord : Logs(<<a, b>>)
             Syncs == CommitTrx(s)
  <1>2. StartLogs(s) => Quiet \/ One
    <2>1. CASE Rids = {} \/ Keys = {}
      <3>1. [type |-> "MTR_BEGIN", trx |-> current_trx_id + 1] \in LogRecord
        BY DEF RecoveryTypeOK, TypeOK, LogRecord
      <3> QED
        BY <3>1 DEF StartLogs
    <2>2. CASE Rids /= {} /\ Keys /= {}
      BY <2>2, LoggedTypes DEF StartLogs
    <2> QED
      BY <2>1, <2>2
  <1>3. ASSUME NEW r \in Rids, NEW k \in Keys PROVE InsertLog(s, r, k) \in LogRecord
    BY LoggedTypes
  <1>4. ASSUME NEW r \in Rids PROVE DeleteLog(s, r) \in LogRecord
    BY DEF RecoveryTypeOK, TypeOK, LogRecord, DeleteLog
  <1>5. [type |-> "MTR_ROLLBACK", trx |-> trx_id[s]] \in LogRecord
    BY DEF RecoveryTypeOK, TypeOK, LogRecord
  <1>6. [type |-> "MTR_COMMIT", trx |-> trx_id[s], xid |-> commit_xid[s]] \in LogRecord
    BY DEF RecoveryTypeOK, TypeOK, LogRecord
  <1>7. Quiet \/ One \/ Two \/ Syncs
    <2>1. ASSUME NEW r \in Rids, NEW k \in Keys,
                 IF DuplicateKey(index, k, r) THEN LogsNothing ELSE Logs(<<InsertLog(s, r, k)>>)
          PROVE  Quiet \/ One
      BY <1>3, <2>1
    <2>2. ASSUME NEW r \in Rids, Logs(<<DeleteLog(s, r)>>) PROVE One
      BY <1>4, <2>2
    <2>3. ASSUME NEW r \in Rids, NEW r2 \in Rids, NEW k \in Keys,
                 IF DuplicateKey(index \ {<<rows[r].key, r>>}, k, r2) THEN LogsNothing
                 ELSE Logs(<<DeleteLog(s, r), InsertLog(s, r2, k)>>)
          PROVE  Quiet \/ Two
      BY <1>3, <1>4, <2>3
    <2>4. Logs(<<[type |-> "MTR_ROLLBACK", trx |-> trx_id[s]]>>) => One
      BY <1>5
    <2> HIDE DEF Quiet, One, Two, Syncs
    <2>5. LogsNothing => Quiet
      BY DEF Quiet
    <2>6. CommitTrx(s) => Syncs
      BY DEF Syncs
    <2> QED
      BY <1>2, <2>1, <2>2, <2>3, <2>4, <2>5, <2>6 DEF Serve
  <1>8. Quiet => LogGrows /\ UNCHANGED redoVars
    BY DEF LogsNothing, logVars, LogGrows
  <1>9. One => LogGrows /\ UNCHANGED redoVars
    BY DEF Logs, LogGrows
  <1>10. Two => LogGrows /\ UNCHANGED redoVars
    BY DEF Logs, LogGrows
  <1>11. Syncs => LogGrows /\ UNCHANGED redoVars
    <2> DEFINE a == [type |-> "MTR_COMMIT", trx |-> trx_id[s], xid |-> commit_xid[s]]
    <2>1. Append(log, a) = log \o <<a>>
      BY <1>6, AppendIsConcat DEF RecoveryTypeOK
    <2> QED
      BY <1>6, <2>1 DEF CommitTrx, LogGrows
  <1> QED
    BY <1>1, <1>7, <1>8, <1>9, <1>10, <1>11

\* The log that has grown extends the log.
LEMMA GrowsExtends ==
  ASSUME RecoveryTypeOK, LogGrows
  PROVE  /\ Extends(log, log') /\ synced' \in 0 .. Len(log')
         /\ DOMAIN log = 1 .. Len(log) /\ DOMAIN log' = 1 .. Len(log')
         /\ Len(log) \in Nat /\ Len(log') \in Nat
  <1>1. log \in Seq(LogRecord) /\ Len(log) \in Nat /\ DOMAIN log = 1 .. Len(log) /\ synced \in 0 .. Len(log)
    BY LenProperties DEF RecoveryTypeOK
  <1>2. CASE log' = log /\ synced' = synced
    BY <1>1, <1>2 DEF Extends, Agree
  <1>3. CASE \E a \in LogRecord : log' = log \o <<a>> /\ synced' \in {synced, Len(log) + 1}
    <2>1. PICK a \in LogRecord : log' = log \o <<a>> /\ synced' \in {synced, Len(log) + 1}
      BY <1>3
    <2>2. Extends(log, log') /\ Len(log') = Len(log) + 1 /\ DOMAIN log' = 1 .. Len(log')
      BY <1>1, <2>1, AppendOne
    <2> QED
      BY <1>1, <2>1, <2>2
  <1>4. CASE \E a, b \in LogRecord : log' = log \o <<a, b>> /\ synced' = synced
    <2>1. PICK a, b \in LogRecord : log' = log \o <<a, b>> /\ synced' = synced
      BY <1>4
    <2> DEFINE q == <<a, b>>
    <2>2. q \in Seq(LogRecord) /\ Len(q) = 2 /\ log' = log \o q
      BY <2>1
    <2> HIDE DEF q
    <2>3. Extends(log, log') /\ Len(log') = Len(log) + 2 /\ DOMAIN log' = 1 .. Len(log')
      BY <1>1, <2>2, AppendTwo
    <2> QED
      BY <1>1, <2>1, <2>3
  <1> QED
    BY <1>2, <1>3, <1>4 DEF LogGrows

\* A record of the table with one version column set.
LEMMA SetBegin ==
  ASSUME NEW row \in Row, NEW x \in Int, NEW new, new = [row EXCEPT !.begin = x]
  PROVE  /\ new \in Row /\ new /= NoRow
         /\ new.begin = x /\ new.end = row.end /\ new.key = row.key
  <1>1. new \in Row /\ new.begin = x /\ new.end = row.end /\ new.key = row.key
    BY DEF Row
  <1> QED
    BY <1>1, NoRowAssumption

\* The same for the other column.
LEMMA SetEnd ==
  ASSUME NEW row \in Row, NEW x \in Int, NEW new, new = [row EXCEPT !.end = x]
  PROVE  /\ new \in Row /\ new /= NoRow
         /\ new.begin = row.begin /\ new.end = x /\ new.key = row.key
  <1>1. new \in Row /\ new.end = x /\ new.begin = row.begin /\ new.key = row.key
    BY DEF Row
  <1> QED
    BY <1>1, NoRowAssumption

\* What Undo does to a record.
LEMMA UndoRows ==
  ASSUME RecoveryTypeOK, NEW ops, Undo(ops), NEW r \in Rids
  PROVE  /\ UndoneRecord(r, ops) => rows'[r] = NoRow
         /\ ~UndoneRecord(r, ops) /\ rows[r] /= NoRow /\ [type |-> "DELETE", rid |-> r] \in ops
              => rows'[r] = [rows[r] EXCEPT !.end = MaxTrxId]
         /\ ~UndoneRecord(r, ops) /\ [type |-> "DELETE", rid |-> r] \notin ops => rows'[r] = rows[r]
         /\ rows[r] = NoRow => rows'[r] = NoRow
         /\ rows'[r] \in Row \cup {NoRow}
         /\ rows'[r] /= NoRow => /\ rows[r] /= NoRow /\ rows'[r].key = rows[r].key
                                 /\ rows'[r].begin = rows[r].begin
                                 /\ rows'[r].end \in {rows[r].end, MaxTrxId}
  <1>1. rows[r] \in Row \cup {NoRow} /\ MaxTrxId \in Int
    BY ConstantsAssumption DEF RecoveryTypeOK, TypeOK
  <1>2. rows'[r] = IF UndoneRecord(r, ops) THEN NoRow
                   ELSE IF rows[r] /= NoRow /\ [type |-> "DELETE", rid |-> r] \in ops
                        THEN [rows[r] EXCEPT !.end = MaxTrxId]
                   ELSE rows[r]
    BY DEF Undo
  <1>3. CASE rows[r] = NoRow
    BY <1>2, <1>3 DEF UndoneRecord
  <1>4. CASE rows[r] /= NoRow
    <2>1. rows[r] \in Row
      BY <1>1, <1>4
    <2> DEFINE row == [rows[r] EXCEPT !.end = MaxTrxId]
    <2>2. row \in Row /\ row /= NoRow /\ row.key = rows[r].key /\ row.begin = rows[r].begin /\ row.end = MaxTrxId
      BY <1>1, <2>1, SetEnd
    <2> HIDE DEF row
    <2>3. rows'[r] = IF UndoneRecord(r, ops) THEN NoRow
                     ELSE IF [type |-> "DELETE", rid |-> r] \in ops THEN row ELSE rows[r]
      BY <1>2, <1>4 DEF row
    <2>4. rows'[r] = NoRow \/ rows'[r] = row \/ rows'[r] = rows[r]
      BY <2>3
    <2>5. /\ rows'[r] \in Row \cup {NoRow}
          /\ rows'[r] /= NoRow => /\ rows'[r].key = rows[r].key /\ rows'[r].begin = rows[r].begin
                                  /\ rows'[r].end \in {rows[r].end, MaxTrxId}
      BY <1>1, <2>2, <2>4
    <2> QED
      BY <1>4, <2>3, <2>5 DEF row
  <1> QED
    BY <1>3, <1>4

\* Undo keeps the types.
LEMMA UndoType ==
  ASSUME RecoveryTypeOK, NEW ops, Undo(ops)
  PROVE  rows' \in [Rids -> Row \cup {NoRow}] /\ index' \subseteq Keys \X Rids
  <1>1. \A r \in Rids : rows'[r] \in Row \cup {NoRow}
    BY UndoRows
  <1>2. rows' = [r \in Rids |-> rows'[r]]
    BY DEF Undo
  <1> QED
    BY <1>1, <1>2 DEF Undo, RecoveryTypeOK, TypeOK

\* What redoing MTR_COMMIT does to a record.
LEMMA CommitRows ==
  ASSUME RecoveryTypeOK, RedoCommit, NEW r \in Rids
  PROVE  LET ops == trxes[Record.trx]
             ins == [type |-> "INSERT", rid |-> r] \in ops
             del == [type |-> "DELETE", rid |-> r] \in ops
         IN  /\ rows[r] = NoRow => rows'[r] = NoRow
             /\ rows[r] /= NoRow =>
                  /\ rows'[r] \in Row /\ rows'[r] /= NoRow /\ rows'[r].key = rows[r].key
                  /\ rows'[r].begin = IF ins THEN Record.xid ELSE rows[r].begin
                  /\ rows'[r].end = IF del /\ ~ins THEN Record.xid ELSE rows[r].end
  <1> DEFINE ops == trxes[Record.trx]
             ins == [type |-> "INSERT", rid |-> r] \in ops
             del == [type |-> "DELETE", rid |-> r] \in ops
  <1>1. rows[r] \in Row \cup {NoRow}
    BY DEF RecoveryTypeOK, TypeOK
  <1>2. Record \in LogRecord
    BY ElementOfSeq, LenProperties DEF RedoCommit, Redoing, Record, RecoveryTypeOK
  <1>3. Record.xid \in Int
    BY <1>2, RecordFields DEF RedoCommit
  <1>4. rows'[r] = IF rows[r] /= NoRow /\ ins THEN [rows[r] EXCEPT !.begin = Record.xid]
                   ELSE IF rows[r] /= NoRow /\ del THEN [rows[r] EXCEPT !.end = Record.xid]
                   ELSE rows[r]
    BY DEF RedoCommit
  <1> HIDE DEF ins, del
  <1>5. CASE rows[r] = NoRow
    BY <1>4, <1>5
  <1>6. CASE rows[r] /= NoRow
    <2>1. rows[r] \in Row
      BY <1>1, <1>6
    <2> DEFINE new == rows'[r]
               Goal == /\ new \in Row /\ new /= NoRow /\ new.key = rows[r].key
                       /\ new.begin = IF ins THEN Record.xid ELSE rows[r].begin
                       /\ new.end = IF del /\ ~ins THEN Record.xid ELSE rows[r].end
    <2>2. ASSUME ins PROVE Goal
      <3>1. new = [rows[r] EXCEPT !.begin = Record.xid]
        BY <1>4, <1>6, <2>2
      <3>2. new \in Row /\ new /= NoRow /\ new.key = rows[r].key /\ new.begin = Record.xid /\ new.end = rows[r].end
        BY <1>3, <2>1, <3>1, SetBegin
      <3> QED
        BY <2>2, <3>2
    <2>3. ASSUME ~ins, del PROVE Goal
      <3>1. new = [rows[r] EXCEPT !.end = Record.xid]
        BY <1>4, <1>6, <2>3
      <3>2. new \in Row /\ new /= NoRow /\ new.key = rows[r].key /\ new.end = Record.xid /\ new.begin = rows[r].begin
        BY <1>3, <2>1, <3>1, SetEnd
      <3> QED
        BY <2>3, <3>2
    <2>4. ASSUME ~ins, ~del PROVE Goal
      <3>1. new = rows[r]
        BY <1>4, <1>6, <2>4
      <3> QED
        BY <1>6, <2>1, <2>4, <3>1
    <2>5. Goal
      BY <2>2, <2>3, <2>4
    <2> QED
      BY <1>6, <2>5 DEF ins, del
  <1> QED
    BY <1>5, <1>6 DEF ins, del

\* The record being redone.
LEMMA RedoRecord ==
  ASSUME RecoveryTypeOK, LogOrdered(log), Redoing
  PROVE  /\ Record \in LogRecord /\ RecordOK(log, pos) /\ log[pos] = Record
         /\ pos \in DOMAIN log /\ pos \in 1 .. Len(log) /\ pos \in Nat /\ pos - 1 \in Nat
         /\ Len(log) \in Nat /\ DOMAIN log = 1 .. Len(log)
  <1>1. Len(log) \in Nat /\ DOMAIN log = 1 .. Len(log) /\ pos \in 1 .. Len(log)
    BY LenProperties DEF Redoing, RecoveryTypeOK
  <1>2. log[pos] \in LogRecord
    BY <1>1, ElementOfSeq DEF RecoveryTypeOK
  <1> QED
    BY <1>1, <1>2 DEF Record, LogOrdered

\* Every step keeps the types.
LEMMA RecoveryTypeStep ==
  RecoveryTypeOK /\ LogOrdered(log) /\ [RecoveryNext]_recoveryVars => RecoveryTypeOK'
  <1> SUFFICES ASSUME RecoveryTypeOK, LogOrdered(log), [RecoveryNext]_recoveryVars PROVE RecoveryTypeOK'
    OBVIOUS
  <1>0. Len(log) \in Nat /\ DOMAIN log = 1 .. Len(log) /\ pos \in 1 .. Len(log) + 1 /\ TypeOK
    BY LenProperties DEF RecoveryTypeOK
  <1>1. ASSUME NEW s \in Sessions, Serve(s) PROVE RecoveryTypeOK'
    <2>1. LogGrows /\ UNCHANGED redoVars /\ Next
      BY <1>1, ServeGrows
    <2>2. TypeOK'
      BY <1>0, <2>1, TypeStep
    <2>3. /\ log' \in Seq(LogRecord) /\ synced' \in 0 .. Len(log')
          /\ Len(log) <= Len(log') /\ Len(log') \in Nat
      BY <2>1, GrowsExtends DEF Extends
    <2>4. pos' \in 1 .. Len(log') + 1
      BY <1>0, <2>1, <2>3 DEF redoVars
    <2> QED
      BY <2>1, <2>2, <2>3, <2>4 DEF RecoveryTypeOK, redoVars
  <1>2. CASE Crash
    <2>1. PICK n \in synced .. Len(log) :
            /\ log' = SubSeq(log, 1, n) /\ synced' = n
            /\ torn' \in {FALSE, n < Len(log) /\ HasBody(log[n + 1])}
      BY <1>2 DEF Crash
    <2>2. n \in 0 .. Len(log) /\ n \in Nat
      BY <1>0, <2>1 DEF RecoveryTypeOK
    <2>3. log' \in Seq(LogRecord) /\ Len(log') = n
      BY <2>1, <2>2, LogCut DEF RecoveryTypeOK
    <2>4. torn' \in BOOLEAN
      BY <2>1 DEF HasBody
    <2>5. TypeOK'
      BY <1>2 DEF Crash, TypeOK, NoTrxId
    <2>6. crashes' \in 0 .. MaxCrashes
      BY <1>2, BoundsAssumption DEF Crash, RecoveryTypeOK
    <2>7. pos' \in 1 .. Len(log') + 1 /\ synced' \in 0 .. Len(log')
      BY <1>2, <2>1, <2>2, <2>3 DEF Crash
    <2>8. mode' = "redo" /\ DOMAIN trxes' = {} /\ trxes' \in [DOMAIN trxes' -> SUBSET Operation]
      BY <1>2 DEF Crash, NoOps
    <2> QED
      BY <2>3, <2>4, <2>5, <2>6, <2>7, <2>8 DEF RecoveryTypeOK
  <1>3. ASSUME Redoing, Advance, rows' \in [Rids -> Row \cup {NoRow}], index' \subseteq Keys \X Rids,
               current_trx_id' \in Nat, UNCHANGED recoveryIdle,
               DOMAIN trxes' \subseteq Nat, trxes' \in [DOMAIN trxes' -> SUBSET Operation]
        PROVE  RecoveryTypeOK'
    <2>1. TypeOK'
      BY <1>0, <1>3 DEF TypeOK, recoveryIdle
    <2>2. pos' \in 1 .. Len(log') + 1
      BY <1>0, <1>3 DEF Advance, Redoing, logVars
    <2> QED
      BY <1>3, <2>1, <2>2 DEF RecoveryTypeOK, Advance, logVars
  <1>4. CASE RedoBegin
    <2>1. Record \in LogRecord /\ RecordOK(log, pos) /\ log[pos] = Record /\ Redoing
      BY <1>4, RedoRecord DEF RedoBegin
    <2>2. Record.trx \in Int /\ Record.trx > 0
      BY <1>4, <2>1, RecordFields DEF RedoBegin, RecordOK
    <2>3. current_trx_id' \in Nat
      BY <1>0, <1>4, <2>2 DEF RedoBegin, TypeOK
    <2>4. DOMAIN trxes' \subseteq Nat /\ trxes' \in [DOMAIN trxes' -> SUBSET Operation]
      BY <1>4, <2>2 DEF RedoBegin, RecoveryTypeOK
    <2> QED
      BY <1>0, <1>3, <1>4, <2>1, <2>3, <2>4 DEF RedoBegin, tableVars, TypeOK
  <1>5. CASE RedoInsert
    <2>1. Record \in LogRecord /\ Redoing
      BY <1>5, RedoRecord DEF RedoInsert
    <2>2. Record.trx \in Int /\ Record.rid \in Rids /\ Record.key \in Keys
      BY <1>5, <2>1, RecordFields DEF RedoInsert
    <2>3. [begin |-> -Record.trx, end |-> MaxTrxId, key |-> Record.key] \in Row
      BY <2>2, NewRowType
    <2>4. rows' \in [Rids -> Row \cup {NoRow}] /\ index' \subseteq Keys \X Rids
      BY <1>0, <1>5, <2>2, <2>3 DEF RedoInsert, TypeOK
    <2>5. AddOperation(trxes[Record.trx], "INSERT", Record.rid) \in SUBSET Operation
      BY <1>5, <2>2, AddOperationType DEF RedoInsert, Known, RecoveryTypeOK
    <2>6. DOMAIN trxes' \subseteq Nat /\ trxes' \in [DOMAIN trxes' -> SUBSET Operation]
      BY <1>5, <2>5 DEF RedoInsert, RecoveryTypeOK
    <2> QED
      BY <1>0, <1>3, <1>5, <2>1, <2>4, <2>6 DEF RedoInsert, TypeOK
  <1>6. CASE RedoDelete
    <2>1. Record \in LogRecord /\ Redoing
      BY <1>6, RedoRecord DEF RedoDelete
    <2>2. Record.trx \in Int /\ -Record.trx \in Int /\ Record.rid \in Rids
      BY <1>6, <2>1, RecordFields DEF RedoDelete
    <2>3. rows' \in [Rids -> Row \cup {NoRow}]
      <3>1. CASE rows[Record.rid] = NoRow
        BY <1>0, <1>6, <3>1 DEF RedoDelete, TypeOK
      <3>2. CASE rows[Record.rid] /= NoRow
        <4>1. rows \in [Rids -> Row \cup {NoRow}]
          BY <1>0 DEF TypeOK
        <4>2. rows' = [rows EXCEPT ![Record.rid].end = -Record.trx]
          BY <1>6, <3>2 DEF RedoDelete
        <4> QED
          BY <2>2, <3>2, <4>1, <4>2, RowTypes
      <3> QED
        BY <3>1, <3>2
    <2>5. AddOperation(trxes[Record.trx], "DELETE", Record.rid) \in SUBSET Operation
      BY <1>6, <2>2, AddOperationType DEF RedoDelete, Known, RecoveryTypeOK
    <2>6. DOMAIN trxes' \subseteq Nat /\ trxes' \in [DOMAIN trxes' -> SUBSET Operation]
      BY <1>6, <2>5 DEF RedoDelete, RecoveryTypeOK
    <2> QED
      BY <1>0, <1>3, <1>6, <2>1, <2>3, <2>6 DEF RedoDelete, TypeOK
  <1>7. CASE RedoCommit
    <2>1. \A r \in Rids : rows'[r] \in Row \cup {NoRow}
      BY <1>7, CommitRows
    <2>2. rows' = [r \in Rids |-> rows'[r]]
      BY <1>7 DEF RedoCommit
    <2>3. rows' \in [Rids -> Row \cup {NoRow}]
      BY <2>1, <2>2
    <2>4. DOMAIN trxes' \subseteq Nat /\ trxes' \in [DOMAIN trxes' -> SUBSET Operation]
      BY <1>7 DEF RedoCommit, RecoveryTypeOK
    <2> QED
      BY <1>0, <1>3, <1>7, <2>3, <2>4 DEF RedoCommit, TypeOK
  <1>8. CASE RedoRollback
    <2>1. rows' \in [Rids -> Row \cup {NoRow}] /\ index' \subseteq Keys \X Rids
      BY <1>8, UndoType DEF RedoRollback
    <2>2. DOMAIN trxes' \subseteq Nat /\ trxes' \in [DOMAIN trxes' -> SUBSET Operation]
      BY <1>8 DEF RedoRollback, RecoveryTypeOK
    <2> QED
      BY <1>0, <1>3, <1>8, <2>1, <2>2 DEF RedoRollback, TypeOK
  <1>9. CASE RedoFails
    BY <1>9 DEF RedoFails, RecoveryTypeOK, TypeOK, vars, kitVars, tableVars, trxVars, logVars
  <1>10. CASE UndoUnfinished
    <2>1. rows' \in [Rids -> Row \cup {NoRow}] /\ index' \subseteq Keys \X Rids
      BY <1>0, <1>10, UndoType DEF UndoUnfinished, tableVars, TypeOK
    <2>2. TypeOK'
      BY <1>0, <1>10, <2>1 DEF UndoUnfinished, TypeOK, recoveryIdle
    <2>3. DOMAIN trxes' \subseteq Nat /\ trxes' \in [DOMAIN trxes' -> SUBSET Operation]
      BY <1>10 DEF UndoUnfinished, RecoveryTypeOK
    <2>4. mode' \in {"up", "redo"} /\ UNCHANGED <<log, synced, pos, torn, crashes>>
      BY <1>10 DEF UndoUnfinished, logVars
    <2> QED
      BY <2>2, <2>3, <2>4 DEF RecoveryTypeOK
  <1>11. CASE UNCHANGED recoveryVars
    BY <1>11 DEF recoveryVars, redoVars, RecoveryTypeOK, TypeOK, vars, kitVars, tableVars, trxVars, logVars
  <1> QED
    BY <1>1, <1>2, <1>4, <1>5, <1>6, <1>7, <1>8, <1>9, <1>10, <1>11 DEF RecoveryNext

-----------------------------------------------------------------------------
(* The sessions and the log while the server is up.                        *)

\* The records that m has more than l do not concern transaction x.
Quiet(l, m, x) == \A j \in Len(l) + 1 .. Len(m) : m[j].trx /= x \/ m[j].type = "MTR_BEGIN"

\* They leave its fate and its operation set as they are.
LEMMA OpsQuiet ==
  ASSUME NEW l \in Seq(LogRecord), NEW m, Extends(l, m), NEW x, Quiet(l, m, x)
  PROVE  /\ Ended(m, x, Len(m)) <=> Ended(l, x, Len(l))
         /\ Begun(l, x, Len(l)) => Begun(m, x, Len(m))
         /\ RolledBack(m, x, Len(m)) <=> RolledBack(l, x, Len(l))
         /\ \A c \in 1 .. Len(m) : CommittedAt(m, c, x) => c \in 1 .. Len(l) /\ CommittedAt(l, c, x)
         /\ \A ops : OpsMatch(ops, l, x, Len(l)) => OpsMatch(ops, m, x, Len(m))
  <1>1. /\ Len(l) \in Nat /\ Len(m) \in Nat /\ Len(l) <= Len(m) /\ Agree(l, m, Len(l))
        /\ Len(l) \in 0 .. Len(m) /\ Len(l) \in 0 .. Len(l)
    BY LenProperties DEF Extends
  <1>2. \A j \in 1 .. Len(m) : j \in 1 .. Len(l) \/ j \in Len(l) + 1 .. Len(m)
    BY <1>1
  <1>3. \A j \in Len(l) + 1 .. Len(m) : ~Ends(m, j, x) /\ ~(IsData(m[j]) /\ m[j].trx = x)
    BY DEF Quiet, Ends, IsData
  <1>4. /\ \A e \in 1 .. Len(l) : Ends(l, e, x) <=> Ends(m, e, x)
        /\ \A e \in 1 .. Len(l) : EndedAt(l, e, x) <=> EndedAt(m, e, x)
        /\ Begun(l, x, Len(l)) <=> Begun(m, x, Len(l))
        /\ \A c \in 1 .. Len(l) : CommittedAt(l, c, x) <=> CommittedAt(m, c, x)
    BY <1>1, AgreeFates
  <1>5. \A j \in 1 .. Len(l) : j \in 1 .. Len(m) /\ m[j] = l[j]
    BY <1>1 DEF Agree
  <1>6. Ended(m, x, Len(m)) <=> Ended(l, x, Len(l))
    BY <1>2, <1>3, <1>4, <1>5 DEF Ended
  <1>7. \A e \in 1 .. Len(m) : EndedAt(m, e, x) => e \in 1 .. Len(l) /\ EndedAt(l, e, x)
    BY <1>2, <1>3, <1>4 DEF EndedAt
  <1>8. RolledBack(m, x, Len(m)) <=> RolledBack(l, x, Len(l))
    BY <1>4, <1>5, <1>7 DEF RolledBack
  <1>9. \A c \in 1 .. Len(m) : CommittedAt(m, c, x) => c \in 1 .. Len(l) /\ CommittedAt(l, c, x)
    BY <1>5, <1>7 DEF CommittedAt
  <1>10. ASSUME NEW ops, OpsMatch(ops, l, x, Len(l)) PROVE OpsMatch(ops, m, x, Len(m))
    <2>1. \A op \in ops : \E i \in 1 .. Len(m) :
            IsData(m[i]) /\ m[i].trx = x /\ m[i].type = op.type /\ m[i].rid = op.rid
      BY <1>5, <1>10 DEF OpsMatch
    <2>2. ASSUME ~Ended(m, x, Len(m)), NEW i \in 1 .. Len(m), IsData(m[i]), m[i].trx = x
          PROVE  \/ [type |-> m[i].type, rid |-> m[i].rid] \in ops
                 \/ \E d \in 1 .. i - 1 : IsData(m[d]) /\ m[d].trx = x /\ m[d].rid = m[i].rid
      <3>1. i \in 1 .. Len(l)
        BY <1>2, <1>3, <2>2
      <3>2. l[i] = m[i] /\ \A d \in 1 .. i - 1 : l[d] = m[d]
        BY <1>1, <1>5, <3>1
      <3> QED
        BY <1>6, <1>10, <2>2, <3>1, <3>2 DEF OpsMatch
    <2> QED
      BY <1>6, <1>10, <2>1, <2>2 DEF OpsMatch
  <1> QED
    BY <1>1, <1>4, <1>6, <1>8, <1>9, <1>10, Growing

\* A connection that began no transaction has no operations.
LEMMA OpsNone ==
  ASSUME NEW l \in Seq(LogRecord), LogOrdered(l)
  PROVE  /\ \A ops : OpsMatch(ops, l, NoTrxId, Len(l)) => ops = {}
         /\ OpsMatch({}, l, NoTrxId, Len(l))
  <1>1. DOMAIN l = 1 .. Len(l)
    BY LenProperties
  <1>2. \A i \in 1 .. Len(l) : IsData(l[i]) => l[i].trx /= NoTrxId
    BY <1>1 DEF LogOrdered, RecordOK
  <1>3. OpsMatch({}, l, NoTrxId, Len(l))
    BY <1>2 DEF OpsMatch
  <1>4. ASSUME NEW ops, OpsMatch(ops, l, NoTrxId, Len(l)) PROVE ops = {}
    BY <1>2, <1>4 DEF OpsMatch
  <1> QED
    BY <1>3, <1>4

\* Nothing of session t changes.
Rests(t) ==
  /\ trx_id'[t] = trx_id[t] /\ started'[t] = started[t] /\ phase'[t] = phase[t]
  /\ operations'[t] = operations[t] /\ todo'[t] = todo[t] /\ commit_xid'[t] = commit_xid[t]

\* A session that rests stays sound when others log.
LEMMA SessionFrame ==
  ASSUME RecoveryTypeOK, RecoveryTypeOK', LogOrdered(log'), Extends(log, log'),
         current_trx_id <= current_trx_id', NEW t \in Sessions, SessionOK(t), Rests(t),
         LogOrdered(log), trx_id[t] = NoTrxId \/ Quiet(log, log', trx_id[t])
  PROVE  SessionOK(t)'
  <1>1. log \in Seq(LogRecord) /\ log' \in Seq(LogRecord) /\ current_trx_id \in Nat /\ current_trx_id' \in Nat
    BY DEF RecoveryTypeOK, TypeOK
  <1>2. CASE trx_id[t] = NoTrxId
    <2>1. operations[t] = {}
      BY <1>1, <1>2, OpsNone DEF SessionOK
    <2>2. OpsMatch({}, log', NoTrxId, Len(log'))
      BY <1>1, OpsNone
    <2>3. OpsMatch(operations'[t], log', trx_id'[t], Len(log'))
      BY <1>2, <2>1, <2>2 DEF Rests
    <2> QED
      BY <1>2, <2>3 DEF SessionOK, Rests
  <1>3. CASE trx_id[t] /= NoTrxId
    <2> DEFINE x == trx_id[t]
    <2>1. /\ Ended(log', x, Len(log')) <=> Ended(log, x, Len(log))
          /\ Begun(log, x, Len(log)) => Begun(log', x, Len(log'))
          /\ OpsMatch(operations[t], log, x, Len(log)) => OpsMatch(operations[t], log', x, Len(log'))
      BY <1>1, <1>3, OpsQuiet
    <2>2. x \in 1 .. current_trx_id => x \in 1 .. current_trx_id'
      BY <1>1
    <2> QED
      BY <1>3, <2>1, <2>2 DEF SessionOK, Rests
  <1> QED
    BY <1>2, <1>3

\* One session acts, for its own transaction: the sessions stay in order when
\* the acting one does.
LEMMA OneActs ==
  ASSUME RecoveryTypeOK, RecoveryTypeOK', LogOrdered(log), LogOrdered(log'), Extends(log, log'),
         SessionsOK, NEW s \in Sessions, \A t \in Sessions \ {s} : Rests(t),
         current_trx_id <= current_trx_id',
         \/ trx_id'[s] \in {trx_id[s], NoTrxId}
         \/ trx_id'[s] = current_trx_id + 1 /\ current_trx_id' = current_trx_id + 1,
         \A j \in Len(log) + 1 .. Len(log') : log'[j].trx = trx_id'[s],
         SessionOK(s)'
  PROVE  SessionsOK'
  <1>1. /\ log \in Seq(LogRecord) /\ log' \in Seq(LogRecord)
        /\ current_trx_id \in Nat /\ current_trx_id' \in Nat
        /\ trx_id \in [Sessions -> Int] /\ trx_id' \in [Sessions -> Int]
    BY DEF RecoveryTypeOK, TypeOK
  <1>2. /\ DOMAIN log = 1 .. Len(log) /\ DOMAIN log' = 1 .. Len(log')
        /\ Len(log) \in Nat /\ Len(log') \in Nat /\ Len(log) <= Len(log')
    BY <1>1, LenProperties DEF Extends
  <1>3. \A t \in Sessions : trx_id[t] <= current_trx_id
    <2>1. \A t \in Sessions : trx_id[t] = NoTrxId \/ trx_id[t] \in 1 .. current_trx_id
      BY DEF SessionsOK, SessionOK
    <2> QED
      BY <1>1, <2>1 DEF NoTrxId
  <1>4. trx_id'[s] <= current_trx_id'
    <2>1. NoTrxId <= current_trx_id'
      BY <1>1 DEF NoTrxId
    <2>2. trx_id[s] <= current_trx_id /\ trx_id[s] \in Int
      BY <1>1, <1>3
    <2> QED
      BY <1>1, <2>1, <2>2
  <1>5. ASSUME NEW i \in DOMAIN log' PROVE log'[i].trx <= current_trx_id'
    <2>1. CASE i \in 1 .. Len(log)
      <3>1. log'[i] = log[i] /\ log[i].trx <= current_trx_id
        BY <1>2, <2>1 DEF Extends, Agree, SessionsOK
      <3>2. log[i].trx \in Int
        BY <1>1, <1>2, <2>1, ElementOfSeq, RecordFields
      <3> QED
        BY <1>1, <3>1, <3>2
    <2>2. CASE i \in Len(log) + 1 .. Len(log')
      BY <1>4, <2>2
    <2> QED
      BY <1>2, <2>1, <2>2
  <1>6. \A t \in Sessions \ {s} : trx_id'[t] = trx_id[t] /\ (trx_id[t] /= NoTrxId => trx_id[t] /= trx_id'[s])
    <2> SUFFICES ASSUME NEW t \in Sessions \ {s}, trx_id[t] /= NoTrxId PROVE trx_id[t] /= trx_id'[s]
      BY DEF Rests
    <2>1. trx_id[t] /= trx_id[s] /\ trx_id[t] <= current_trx_id /\ trx_id[t] \in Int
      BY <1>1, <1>3 DEF SessionsOK
    <2>2. trx_id[t] /= current_trx_id + 1
      BY <1>1, <2>1
    <2> QED
      BY <2>1, <2>2
  <1>7. ASSUME NEW t \in Sessions \ {s} PROVE SessionOK(t)'
    <2>1. trx_id[t] = NoTrxId \/ Quiet(log, log', trx_id[t])
      BY <1>6 DEF Quiet
    <2>2. SessionOK(t) /\ Rests(t)
      BY DEF SessionsOK
    <2> QED
      BY <2>1, <2>2, SessionFrame
  <1>8. ASSUME NEW a \in Sessions, NEW t \in Sessions, a /= t, trx_id'[a] /= NoTrxId
        PROVE  trx_id'[a] /= trx_id'[t]
    <2>1. CASE a = s
      <3>1. trx_id'[t] = trx_id[t] /\ (trx_id[t] /= NoTrxId => trx_id[t] /= trx_id'[s])
        BY <1>6, <1>8, <2>1
      <3> QED
        BY <1>8, <2>1, <3>1
    <2>2. CASE t = s
      BY <1>6, <1>8, <2>2
    <2>3. CASE a /= s /\ t /= s
      BY <1>6, <1>8, <2>3 DEF SessionsOK
    <2> QED
      BY <2>1, <2>2, <2>3
  <1> QED
    BY <1>5, <1>7, <1>8 DEF SessionsOK

\* A longer log is in order when its new records are.
LEMMA OrderExtended ==
  ASSUME NEW l \in Seq(LogRecord), NEW m, LogOrdered(l), Extends(l, m),
         \A j \in Len(l) + 1 .. Len(m) : RecordOK(m, j)
  PROVE  LogOrdered(m)
  <1>1. /\ Len(l) \in Nat /\ Len(m) \in Nat /\ DOMAIN l = 1 .. Len(l) /\ DOMAIN m = 1 .. Len(m)
        /\ Agree(l, m, Len(l))
    BY LenProperties DEF Extends
  <1>2. \A j \in 1 .. Len(l) : RecordOK(m, j)
    BY <1>1, AgreeOrder DEF LogOrdered
  <1>3. \A j \in 1 .. Len(m) : j \in 1 .. Len(l) \/ j \in Len(l) + 1 .. Len(m)
    BY <1>1
  <1> QED
    BY <1>1, <1>2, <1>3 DEF LogOrdered

\* One record more.
LEMMA OrderOne ==
  ASSUME NEW l \in Seq(LogRecord), NEW m, LogOrdered(l), NEW a \in LogRecord, m = l \o <<a>>,
         a.type = "MTR_BEGIN" => a.trx > 0,
         a.type = "MTR_COMMIT" => a.xid > 0,
         a.type /= "MTR_BEGIN" /\ a.trx /= NoTrxId => Begun(l, a.trx, Len(l)),
         IsData(a) => a.trx /= NoTrxId /\ ~Ended(l, a.trx, Len(l))
  PROVE  LogOrdered(m)
  <1>1. /\ Extends(l, m) /\ Len(m) = Len(l) + 1 /\ m[Len(l) + 1] = a
        /\ Len(l) \in Nat /\ DOMAIN l = 1 .. Len(l) /\ DOMAIN m = 1 .. Len(m)
    BY AppendOne, ZenonT(60)
  <1>2. Agree(l, m, Len(l)) /\ Len(l) \in 0 .. Len(l)
    BY <1>1 DEF Extends
  <1>3. /\ Begun(l, a.trx, Len(l)) <=> Begun(m, a.trx, Len(l))
        /\ Ended(l, a.trx, Len(l)) <=> Ended(m, a.trx, Len(l))
    BY <1>1, <1>2, AgreeFates
  <1>4. \A i \in 1 .. Len(l) : RecordOK(m, i)
    BY <1>1, <1>2, AgreeOrder DEF LogOrdered
  <1>5. RecordOK(m, Len(l) + 1)
    BY <1>1, <1>3, <1>4, NewRecord
  <1>6. \A j \in Len(l) + 1 .. Len(m) : RecordOK(m, j)
    BY <1>1, <1>5
  <1> QED
    BY <1>1, <1>6, OrderExtended

\* A session outside a transaction has no operations.
LEMMA NoOpsOutside ==
  ASSUME RecoveryTypeOK, LogOrdered(log), NEW s \in Sessions, SessionOK(s), ~started[s],
         phase[s] \notin Ending
  PROVE  operations[s] = {} /\ todo[s] = {}
  <1>1. log \in Seq(LogRecord)
    BY DEF RecoveryTypeOK
  <1>2. OpsMatch(operations[s], log, trx_id[s], Len(log)) /\ todo[s] \subseteq operations[s]
    BY DEF SessionOK
  <1>3. CASE trx_id[s] = NoTrxId
    BY <1>1, <1>2, <1>3, OpsNone
  <1>4. CASE trx_id[s] /= NoTrxId
    <2>1. Ended(log, trx_id[s], Len(log))
      BY <1>4 DEF SessionOK
    <2> QED
      BY <1>2, <2>1 DEF OpsMatch
  <1> QED
    BY <1>3, <1>4

\* A step that logs nothing.
LEMMA SilentSessions ==
  ASSUME RecoveryTypeOK, RecoveryTypeOK', LogOrdered(log), SessionsOK, NEW s \in Sessions,
         log' = log, trx_id' = trx_id, current_trx_id <= current_trx_id',
         \A t \in Sessions \ {s} : Rests(t), SessionOK(s)'
  PROVE  LogOrdered(log') /\ SessionsOK'
  <1>1. Extends(log, log') /\ LogOrdered(log') /\ Len(log) \in Nat /\ Len(log') = Len(log)
    BY LenProperties DEF RecoveryTypeOK, Extends, Agree
  <1>2. \A j \in Len(log) + 1 .. Len(log') : log'[j].trx = trx_id'[s]
    BY <1>1
  <1> QED
    BY <1>1, <1>2, OneActs

\* start_if_need.
LEMMA StartSessions ==
  ASSUME RecoveryTypeOK, RecoveryTypeOK', LogOrdered(log), SessionsOK, NEW s \in Sessions,
         phase[s] = "idle", StartIfNeed(s), StartLogs(s), UNCHANGED <<operations, todo, commit_xid>>,
         NEW label \in {"idle", "stmt"}, phase' = [phase EXCEPT ![s] = label]
  PROVE  LogOrdered(log') /\ SessionsOK'
  <1>1. /\ log \in Seq(LogRecord) /\ current_trx_id \in Nat /\ current_trx_id' \in Nat
        /\ trx_id \in [Sessions -> Int] /\ started \in [Sessions -> BOOLEAN] /\ SessionOK(s)
    BY DEF RecoveryTypeOK, TypeOK, SessionsOK
  <1>2. phase'[s] = label /\ phase'[s] \notin Ending /\ \A t \in Sessions \ {s} : phase'[t] = phase[t]
    BY DEF RecoveryTypeOK, TypeOK, Ending
  <1>3. CASE started[s]
    <2>1. log' = log /\ UNCHANGED <<trx_id, started, current_trx_id>>
      BY <1>3 DEF StartIfNeed, StartLogs, LogsNothing, logVars
    <2>2. \A t \in Sessions \ {s} : Rests(t)
      BY <1>2, <2>1 DEF Rests
    <2>3. SessionOK(s)'
      BY <1>1, <1>2, <1>3, <2>1 DEF SessionOK, Ending
    <2> QED
      BY <1>1, <2>1, <2>2, <2>3, SilentSessions
  <1>4. CASE ~started[s]
    <2> DEFINE x == current_trx_id + 1
               a == [type |-> "MTR_BEGIN", trx |-> x]
    <2>1. /\ log' = log \o <<a>> /\ current_trx_id' = x
          /\ trx_id' = [trx_id EXCEPT ![s] = x] /\ started' = [started EXCEPT ![s] = TRUE]
      BY <1>4 DEF StartIfNeed, StartLogs, Logs
    <2>2. a \in LogRecord /\ a.type = "MTR_BEGIN" /\ a.trx = x /\ x > 0 /\ x \in Int
      BY <1>1 DEF LogRecord
    <2> HIDE DEF a, x
    <2>3. /\ Extends(log, log') /\ Len(log') = Len(log) + 1 /\ log'[Len(log) + 1] = a
          /\ Len(log) \in Nat /\ DOMAIN log = 1 .. Len(log)
      <3>1. log \in Seq(LogRecord) /\ a \in LogRecord /\ log' = log \o <<a>>
        BY <1>1, <2>1, <2>2
      <3> QED
        BY <3>1, AppendOne
    <2>4. LogOrdered(log')
      BY <1>1, <2>1, <2>2, OrderOne DEF IsData
    <2>5. trx_id'[s] = x /\ started'[s] /\ \A t \in Sessions \ {s} : Rests(t)
      BY <1>1, <1>2, <2>1 DEF Rests
    <2>6. ASSUME NEW i \in 1 .. Len(log) PROVE log'[i] = log[i] /\ log'[i].trx /= x
      <3>1. log'[i] = log[i] /\ log[i].trx <= current_trx_id
        BY <2>3 DEF SessionsOK, Extends, Agree
      <3>2. log[i].trx \in Int
        BY <1>1, ElementOfSeq, RecordFields
      <3> QED
        BY <1>1, <3>1, <3>2 DEF x
    <2>7. \A i \in 1 .. Len(log') : ~Ends(log', i, x) /\ ~(IsData(log'[i]) /\ log'[i].trx = x)
      <3>1. \A i \in 1 .. Len(log') : i \in 1 .. Len(log) \/ i = Len(log) + 1
        BY <2>3
      <3>2. ~Ends(log', Len(log) + 1, x) /\ ~IsData(log'[Len(log) + 1])
        BY <2>2, <2>3 DEF Ends, IsData
      <3> QED
        BY <2>6, <3>1, <3>2 DEF Ends
    <2>8. Begun(log', x, Len(log'))
      BY <2>2, <2>3 DEF Begun
    <2>9. ~Ended(log', x, Len(log')) /\ OpsMatch({}, log', x, Len(log'))
      BY <2>7 DEF Ended, OpsMatch
    <2>10. operations[s] = {} /\ todo[s] = {}
      BY <1>1, <1>4, NoOpsOutside DEF Ending
    <2>11. SessionOK(s)'
      <3>1. x /= NoTrxId /\ x \in 1 .. x
        BY <1>1 DEF NoTrxId, x
      <3>2. phase'[s] \notin Ending /\ phase'[s] /= "commit"
        BY <1>2 DEF Ending
      <3> QED
        BY <2>1, <2>5, <2>8, <2>9, <2>10, <3>1, <3>2 DEF SessionOK
    <2>12. \A j \in Len(log) + 1 .. Len(log') : log'[j].trx = trx_id'[s]
      BY <2>2, <2>3, <2>5
    <2>13. current_trx_id <= current_trx_id'
      BY <1>1, <2>1 DEF x
    <2> QED
      BY <2>1, <2>3, <2>4, <2>5, <2>11, <2>12, <2>13, OneActs DEF x
  <1> QED
    BY <1>3, <1>4

\* The statement goes on to its end without a change of the transaction.
LEMMA StatementSessions ==
  ASSUME RecoveryTypeOK, RecoveryTypeOK', LogOrdered(log), SessionsOK, NEW s \in Sessions,
         phase[s] \in {"stmt", "close"}, NEW label \in {"idle", "close"},
         phase' = [phase EXCEPT ![s] = label], log' = log,
         UNCHANGED <<current_trx_id, trx_id, started, operations, todo, commit_xid>>
  PROVE  LogOrdered(log') /\ SessionsOK'
  <1>1. phase'[s] = label /\ \A t \in Sessions \ {s} : Rests(t)
    BY DEF RecoveryTypeOK, TypeOK, Rests
  <1>2. SessionOK(s) /\ current_trx_id \in Nat
    BY DEF SessionsOK, RecoveryTypeOK, TypeOK
  <1>3. SessionOK(s)'
    BY <1>1, <1>2 DEF SessionOK, Ending
  <1> QED
    BY <1>1, <1>2, <1>3, SilentSessions

\* The ends of a transaction begin.
LEMMA StartCommitSessions ==
  ASSUME RecoveryTypeOK, RecoveryTypeOK', LogOrdered(log), SessionsOK, NEW s \in Sessions,
         phase[s] \notin Ending, StartCommit(s), log' = log
  PROVE  LogOrdered(log') /\ SessionsOK'
  <1>1. SessionOK(s) /\ current_trx_id \in Nat
    BY DEF SessionsOK, RecoveryTypeOK, TypeOK
  <1>2. /\ phase'[s] = "commit" /\ ~started'[s] /\ todo'[s] = operations[s]
        /\ commit_xid'[s] = current_trx_id + 1
        /\ trx_id' = trx_id /\ operations' = operations /\ current_trx_id' = current_trx_id + 1
    BY DEF StartCommit, RecoveryTypeOK, TypeOK
  <1>3. \A t \in Sessions \ {s} : Rests(t)
    BY DEF StartCommit, RecoveryTypeOK, TypeOK, Rests
  <1>4. SessionOK(s)'
    <2>1. trx_id[s] \in 1 .. current_trx_id => trx_id[s] \in 1 .. current_trx_id'
      BY <1>1, <1>2
    <2>2. commit_xid'[s] > 0
      BY <1>1, <1>2
    <2> QED
      BY <1>1, <1>2, <2>1, <2>2 DEF SessionOK, Ending
  <1>5. current_trx_id <= current_trx_id'
    BY <1>1, <1>2
  <1> QED
    BY <1>2, <1>3, <1>4, <1>5, SilentSessions

\* Rollback(s) logs nothing yet.
LEMMA RollbackSessions ==
  ASSUME RecoveryTypeOK, RecoveryTypeOK', LogOrdered(log), SessionsOK, NEW s \in Sessions,
         Rollback(s), log' = log
  PROVE  LogOrdered(log') /\ SessionsOK'
  <1>1. SessionOK(s) /\ current_trx_id \in Nat
    BY DEF SessionsOK, RecoveryTypeOK, TypeOK
  <1>2. /\ phase'[s] = "rollback" /\ ~started'[s] /\ todo'[s] = operations[s]
        /\ trx_id' = trx_id /\ operations' = operations /\ current_trx_id' = current_trx_id
    BY DEF Rollback, RecoveryTypeOK, TypeOK, kitVars
  <1>3. \A t \in Sessions \ {s} : Rests(t)
    BY DEF Rollback, RecoveryTypeOK, TypeOK, Rests
  <1>4. SessionOK(s)'
    BY <1>1, <1>2 DEF SessionOK, Ending
  <1> QED
    BY <1>1, <1>2, <1>3, <1>4, SilentSessions

\* One operation of a commit or a rollback.
LEMMA LoopSessions ==
  ASSUME RecoveryTypeOK, RecoveryTypeOK', LogOrdered(log), SessionsOK, NEW s \in Sessions,
         NEW op \in Operation, phase[s] \in Ending, todo' = [todo EXCEPT ![s] = @ \ {op}], log' = log,
         UNCHANGED <<current_trx_id, trx_id, started, operations, phase, commit_xid>>
  PROVE  LogOrdered(log') /\ SessionsOK'
  <1>1. SessionOK(s) /\ current_trx_id \in Nat
    BY DEF SessionsOK, RecoveryTypeOK, TypeOK
  <1>2. todo'[s] = todo[s] \ {op} /\ \A t \in Sessions \ {s} : Rests(t)
    BY DEF RecoveryTypeOK, TypeOK, Rests
  <1>3. SessionOK(s)'
    BY <1>1, <1>2 DEF SessionOK
  <1> QED
    BY <1>1, <1>2, <1>3, SilentSessions

\* The session is destroyed.
LEMMA DisconnectSessions ==
  ASSUME RecoveryTypeOK, RecoveryTypeOK', LogOrdered(log), SessionsOK, NEW s \in Sessions,
         Disconnect(s), log' = log
  PROVE  LogOrdered(log') /\ SessionsOK'
  <1>1. SessionOK(s) /\ current_trx_id \in Nat /\ log \in Seq(LogRecord)
    BY DEF SessionsOK, RecoveryTypeOK, TypeOK
  <1>2. /\ phase'[s] = "idle" /\ phase[s] = "idle" /\ ~started'[s] /\ todo'[s] = todo[s]
        /\ trx_id'[s] = NoTrxId /\ operations'[s] = {} /\ current_trx_id' = current_trx_id
    BY DEF Disconnect, RecoveryTypeOK, TypeOK, kitVars
  <1>3. \A t \in Sessions \ {s} : Rests(t)
    BY DEF Disconnect, RecoveryTypeOK, TypeOK, Rests
  <1>4. OpsMatch({}, log, NoTrxId, Len(log))
    BY <1>1, OpsNone
  <1>5. SessionOK(s)'
    BY <1>1, <1>2, <1>4 DEF SessionOK, Ending
  <1>6. Extends(log, log') /\ LogOrdered(log') /\ Len(log) \in Nat /\ Len(log') = Len(log)
    BY LenProperties DEF RecoveryTypeOK, Extends, Agree
  <1>7. \A j \in Len(log) + 1 .. Len(log') : log'[j].trx = trx_id'[s]
    BY <1>6
  <1> QED
    BY <1>1, <1>2, <1>3, <1>5, <1>6, <1>7, OneActs

\* A transaction has ended: its record is logged and its set is empty.
LEMMA FinishSessions ==
  ASSUME RecoveryTypeOK, RecoveryTypeOK', LogOrdered(log), SessionsOK, NEW s \in Sessions,
         NEW a \in LogRecord, a.type \in {"MTR_COMMIT", "MTR_ROLLBACK"}, a.trx = trx_id[s],
         a.type = "MTR_COMMIT" => a.xid > 0, log' = log \o <<a>>,
         phase[s] \in Ending, todo[s] = {}, phase' = [phase EXCEPT ![s] = "idle"],
         operations' = [operations EXCEPT ![s] = {}],
         commit_xid' = commit_xid \/ commit_xid' = [commit_xid EXCEPT ![s] = 0],
         UNCHANGED <<current_trx_id, trx_id, started, todo>>
  PROVE  LogOrdered(log') /\ SessionsOK'
  <1>1. SessionOK(s) /\ current_trx_id \in Nat /\ log \in Seq(LogRecord)
    BY DEF SessionsOK, RecoveryTypeOK, TypeOK
  <1>2. phase'[s] = "idle" /\ operations'[s] = {} /\ ~started[s]
    BY <1>1 DEF RecoveryTypeOK, TypeOK, SessionOK
  <1>3. \A t \in Sessions \ {s} : Rests(t)
    BY ZenonT(60) DEF RecoveryTypeOK, TypeOK, Rests
  <1>4. /\ Extends(log, log') /\ Len(log') = Len(log) + 1 /\ log'[Len(log) + 1] = a
        /\ Len(log) \in Nat /\ DOMAIN log = 1 .. Len(log)
    <2>1. log \in Seq(LogRecord)
      BY <1>1
    <2> QED
      BY <2>1, AppendOne, ZenonT(60)
  <1>5. LogOrdered(log')
    <2>1. a.trx /= NoTrxId => Begun(log, a.trx, Len(log))
      BY <1>1 DEF SessionOK
    <2> QED
      BY <1>1, <2>1, OrderOne DEF IsData
  <1>6. Ended(log', trx_id[s], Len(log'))
    BY <1>4 DEF Ended, Ends
  <1>7. OpsMatch({}, log', trx_id[s], Len(log'))
    BY <1>6 DEF OpsMatch
  <1>8. Begun(log, trx_id[s], Len(log)) => Begun(log', trx_id[s], Len(log'))
    BY <1>4 DEF Begun, Extends, Agree
  <1>9. SessionOK(s)'
    BY <1>1, <1>2, <1>6, <1>7, <1>8 DEF SessionOK, Ending
  <1>10. \A j \in Len(log) + 1 .. Len(log') : log'[j].trx = trx_id'[s]
    BY <1>4
  <1> QED
    BY <1>1, <1>3, <1>4, <1>5, <1>9, <1>10, OneActs

\* A session that changes its operation set and nothing else of its own.
LEMMA DataSessions ==
  ASSUME RecoveryTypeOK, RecoveryTypeOK', LogOrdered(log), LogOrdered(log'), SessionsOK,
         NEW s \in Sessions, Extends(log, log'), phase[s] = "stmt",
         \A j \in Len(log) + 1 .. Len(log') : IsData(log'[j]) /\ log'[j].trx = trx_id[s],
         \A t \in Sessions \ {s} : operations'[t] = operations[t],
         OpsMatch(operations'[s], log', trx_id[s], Len(log')),
         UNCHANGED <<current_trx_id, trx_id, started, phase, todo, commit_xid>>
  PROVE  SessionsOK'
  <1>1. SessionOK(s) /\ current_trx_id \in Nat /\ log \in Seq(LogRecord)
    BY DEF SessionsOK, RecoveryTypeOK, TypeOK
  <1>2. /\ Len(log) \in Nat /\ Len(log') \in Nat /\ DOMAIN log = 1 .. Len(log)
        /\ DOMAIN log' = 1 .. Len(log') /\ Len(log) <= Len(log') /\ Agree(log, log', Len(log))
    BY <1>1, LenProperties DEF Extends
  <1>3. started[s] /\ todo[s] = {} /\ trx_id[s] /= NoTrxId /\ phase'[s] = "stmt"
    BY <1>1 DEF SessionOK, Ending
  <1>4. ~Ended(log, trx_id[s], Len(log)) /\ Begun(log, trx_id[s], Len(log))
    BY <1>1, <1>3 DEF SessionOK
  <1>5. ~Ended(log', trx_id[s], Len(log'))
    <2>1. \A e \in 1 .. Len(log) : ~Ends(log', e, trx_id[s])
      BY <1>2, <1>4, AgreeFates DEF Ended
    <2>2. \A e \in Len(log) + 1 .. Len(log') : ~Ends(log', e, trx_id[s])
      BY DEF IsData, Ends
    <2>3. \A e \in 1 .. Len(log') : e \in 1 .. Len(log) \/ e \in Len(log) + 1 .. Len(log')
      BY <1>2
    <2> QED
      BY <2>1, <2>2, <2>3 DEF Ended
  <1>6. Begun(log', trx_id[s], Len(log'))
    BY <1>2, <1>4 DEF Begun, Agree
  <1>7. SessionOK(s)'
    BY <1>1, <1>3, <1>5, <1>6 DEF SessionOK, Ending
  <1>8. \A t \in Sessions \ {s} : Rests(t)
    BY DEF Rests
  <1> QED
    BY <1>1, <1>7, <1>8, OneActs

\* insert_record or delete_record.
LEMMA DataOneSessions ==
  ASSUME RecoveryTypeOK, RecoveryTypeOK', LogOrdered(log), SessionsOK,
         NEW s \in Sessions, phase[s] = "stmt", NEW type \in {"INSERT", "DELETE"}, NEW r \in Rids,
         NEW a \in LogRecord, a.type = type, a.rid = r, a.trx = trx_id[s], log' = log \o <<a>>,
         operations' = [operations EXCEPT ![s] = AddOperation(@, type, r)],
         UNCHANGED <<current_trx_id, trx_id, started, phase, todo, commit_xid>>
  PROVE  LogOrdered(log') /\ SessionsOK'
  <1>1. SessionOK(s) /\ log \in Seq(LogRecord)
    BY DEF SessionsOK, RecoveryTypeOK
  <1>2. /\ started[s] /\ trx_id[s] /= NoTrxId /\ ~Ended(log, trx_id[s], Len(log))
        /\ Begun(log, trx_id[s], Len(log)) /\ OpsMatch(operations[s], log, trx_id[s], Len(log))
    BY <1>1 DEF SessionOK
  <1>3. /\ Extends(log, log') /\ Len(log') = Len(log) + 1 /\ log'[Len(log) + 1] = a
        /\ Len(log) \in Nat /\ DOMAIN log = 1 .. Len(log)
    BY <1>1, AppendOne
  <1>4. LogOrdered(log')
    BY <1>1, <1>2, OrderOne
  <1>5. Agree(log, log', Len(log)) /\ Len(log) \in 0 .. Len(log)
    BY <1>3 DEF Extends
  <1>6. OpsMatch(operations[s], log', trx_id[s], Len(log)) /\ ~Ended(log', trx_id[s], Len(log))
    BY <1>2, <1>3, <1>5, AgreeOps, AgreeFates
  <1>7. OpsMatch(AddOperation(operations[s], type, r), log', trx_id[s], Len(log'))
    BY <1>3, <1>6, OpsAdd
  <1>8. /\ operations'[s] = AddOperation(operations[s], type, r)
        /\ \A t \in Sessions \ {s} : operations'[t] = operations[t]
    BY DEF RecoveryTypeOK, TypeOK
  <1>9. \A j \in Len(log) + 1 .. Len(log') : IsData(log'[j]) /\ log'[j].trx = trx_id[s]
    BY <1>3 DEF IsData
  <1> QED
    BY <1>3, <1>4, <1>7, <1>8, <1>9, DataSessions

\* update_record logs a deletion and an insertion.
LEMMA DataTwoSessions ==
  ASSUME RecoveryTypeOK, RecoveryTypeOK', LogOrdered(log), SessionsOK,
         NEW s \in Sessions, phase[s] = "stmt", NEW r \in Rids, NEW r2 \in Rids, NEW k \in Keys,
         NEW q \in Seq(LogRecord), Len(q) = 2, q[1] = DeleteLog(s, r), q[2] = InsertLog(s, r2, k),
         log' = log \o q,
         operations' = [operations EXCEPT ![s] = AddOperation(AddOperation(@, "DELETE", r), "INSERT", r2)],
         UNCHANGED <<current_trx_id, trx_id, started, phase, todo, commit_xid>>
  PROVE  LogOrdered(log') /\ SessionsOK'
  <1>1. SessionOK(s) /\ log \in Seq(LogRecord)
    BY DEF SessionsOK, RecoveryTypeOK
  <1> DEFINE n == Len(log)
             x == trx_id[s]
             ops == AddOperation(operations[s], "DELETE", r)
  <1>2. /\ started[s] /\ x /= NoTrxId /\ ~Ended(log, x, n)
        /\ Begun(log, x, n) /\ OpsMatch(operations[s], log, x, n)
    BY <1>1 DEF SessionOK
  <1>4. /\ q[1].type = "DELETE" /\ q[1].rid = r /\ q[1].trx = x
        /\ q[2].type = "INSERT" /\ q[2].rid = r2 /\ q[2].trx = x
    BY DEF DeleteLog, InsertLog
  <1>6. /\ Extends(log, log') /\ Len(log') = n + 2 /\ log'[n + 1] = q[1] /\ log'[n + 2] = q[2]
        /\ n \in Nat /\ DOMAIN log = 1 .. n /\ DOMAIN log' = 1 .. Len(log')
    <2>1. log \in Seq(LogRecord)
      BY <1>1
    <2> QED
      BY <2>1, AppendTwo, ZenonT(60)
  <1>7. Agree(log, log', n) /\ n \in 0 .. n
    BY <1>6 DEF Extends
  <1>8. OpsMatch(operations[s], log', x, n) /\ ~Ended(log', x, n) /\ Begun(log', x, n)
    BY <1>2, <1>6, <1>7, AgreeOps, AgreeFates
  <1>9. OpsMatch(ops, log', x, n + 1)
    BY <1>4, <1>6, <1>8, OpsAdd
  <1>10. ~Ended(log', x, n + 1) /\ Begun(log', x, n + 1)
    <2>1. ~Ends(log', n + 1, x) /\ \A e \in 1 .. n + 1 : e \in 1 .. n \/ e = n + 1
      BY <1>4, <1>6 DEF Ends
    <2>2. n \in 0 .. n + 1 /\ n + 1 \in Nat
      BY <1>6
    <2>3. ~Ended(log', x, n + 1)
      BY <1>8, <2>1 DEF Ended
    <2>4. Begun(log', x, n + 1)
      BY <1>8, <2>2, Growing
    <2> QED
      BY <2>3, <2>4
  <1>11. OpsMatch(AddOperation(ops, "INSERT", r2), log', x, n + 2)
    <2>1. n + 1 \in Nat /\ (n + 1) + 1 = n + 2
      BY <1>6
    <2> QED
      BY <1>4, <1>6, <1>9, <1>10, <2>1, OpsAdd
  <1>12. LogOrdered(log')
    <2>1. \A i \in 1 .. n : RecordOK(log', i)
      BY <1>6, <1>7, AgreeOrder DEF LogOrdered
    <2>2. RecordOK(log', n + 1)
      BY <1>2, <1>4, <1>6, <1>8, <2>1, NewRecord
    <2>3. n + 1 \in Nat /\ (n + 1) + 1 = n + 2 /\ \A i \in 1 .. n + 1 : RecordOK(log', i)
      <3>1. n + 1 \in Nat /\ (n + 1) + 1 = n + 2 /\ \A i \in 1 .. n + 1 : i \in 1 .. n \/ i = n + 1
        BY <1>6
      <3> QED
        BY <2>1, <2>2, <3>1
    <2>4. RecordOK(log', n + 2)
      BY <1>2, <1>4, <1>6, <1>10, <2>3, NewRecord
    <2>5. \A j \in n + 1 .. Len(log') : RecordOK(log', j)
      BY <1>6, <2>2, <2>4
    <2> QED
      BY <1>1, <1>6, <2>5, OrderExtended
  <1>13. /\ operations'[s] = AddOperation(ops, "INSERT", r2)
         /\ \A t \in Sessions \ {s} : operations'[t] = operations[t]
    BY DEF RecoveryTypeOK, TypeOK
  <1>14. \A j \in n + 1 .. Len(log') : IsData(log'[j]) /\ log'[j].trx = x
    BY <1>4, <1>6 DEF IsData
  <1> QED
    BY <1>6, <1>11, <1>12, <1>13, <1>14, DataSessions

\* The log after a handler that appends one record.
LEMMA LoggedOne ==
  ASSUME RecoveryTypeOK, NEW a \in LogRecord, Logs(<<a>>)
  PROVE  /\ log' = log \o <<a>> /\ Extends(log, log') /\ Len(log') = Len(log) + 1
         /\ log'[Len(log) + 1] = a /\ Len(log) \in Nat /\ DOMAIN log = 1 .. Len(log)
         /\ DOMAIN log' = 1 .. Len(log') /\ \A i \in 1 .. Len(log) : log'[i] = log[i]
  <1>1. log \in Seq(LogRecord) /\ log' = log \o <<a>>
    BY DEF RecoveryTypeOK, Logs
  <1>2. /\ Extends(log, log') /\ Len(log') = Len(log) + 1
        /\ log'[Len(log) + 1] = a /\ Len(log) \in Nat /\ DOMAIN log = 1 .. Len(log)
        /\ DOMAIN log' = 1 .. Len(log')
    BY <1>1, AppendOne
  <1> QED
    BY <1>1, <1>2 DEF Extends, Agree

\* The log after update_record.
LEMMA LoggedUpdate ==
  ASSUME RecoveryTypeOK, NEW s \in Sessions, NEW r \in Rids, NEW r2 \in Rids, NEW k \in Keys,
         Logs(<<DeleteLog(s, r), InsertLog(s, r2, k)>>)
  PROVE  /\ \E q \in Seq(LogRecord) : /\ Len(q) = 2 /\ q[1] = DeleteLog(s, r)
                                      /\ q[2] = InsertLog(s, r2, k) /\ log' = log \o q
         /\ Extends(log, log') /\ Len(log') = Len(log) + 2
         /\ log'[Len(log) + 1] = DeleteLog(s, r) /\ log'[Len(log) + 2] = InsertLog(s, r2, k)
         /\ Len(log) \in Nat /\ DOMAIN log = 1 .. Len(log) /\ DOMAIN log' = 1 .. Len(log')
         /\ \A i \in 1 .. Len(log) : log'[i] = log[i]
  <1> DEFINE q == <<DeleteLog(s, r), InsertLog(s, r2, k)>>
  <1>1. DeleteLog(s, r) \in LogRecord /\ InsertLog(s, r2, k) \in LogRecord
    BY LoggedTypes
  <1>2. q \in Seq(LogRecord) /\ Len(q) = 2 /\ q[1] = DeleteLog(s, r) /\ q[2] = InsertLog(s, r2, k)
    BY <1>1
  <1>3. log \in Seq(LogRecord) /\ log' = log \o q
    BY DEF RecoveryTypeOK, Logs
  <1> HIDE DEF q
  <1>4. /\ Extends(log, log') /\ Len(log') = Len(log) + 2
        /\ log'[Len(log) + 1] = q[1] /\ log'[Len(log) + 2] = q[2]
        /\ Len(log) \in Nat /\ DOMAIN log = 1 .. Len(log) /\ DOMAIN log' = 1 .. Len(log')
    BY <1>2, <1>3, AppendTwo, ZenonT(60)
  <1>5. \A i \in 1 .. Len(log) : log'[i] = log[i]
    BY <1>4 DEF Extends, Agree
  <1> QED
    BY <1>2, <1>3, <1>4, <1>5

\* The record that ends a transaction.
LEMMA LoggedEnd ==
  ASSUME RecoveryTypeOK, NEW s \in Sessions,
         \/ FinishCommit(s) /\ CommitTrx(s)
         \/ FinishRollback(s) /\ Logs(<<[type |-> "MTR_ROLLBACK", trx |-> trx_id[s]]>>)
  PROVE  \E a \in LogRecord :
           /\ a.type = IF phase[s] = "commit" THEN "MTR_COMMIT" ELSE "MTR_ROLLBACK"
           /\ a.trx = trx_id[s] /\ log' = log \o <<a>>
           /\ a.type = "MTR_COMMIT" => a.xid = commit_xid[s]
  <1>1. CASE FinishCommit(s) /\ CommitTrx(s)
    <2> DEFINE a == [type |-> "MTR_COMMIT", trx |-> trx_id[s], xid |-> commit_xid[s]]
    <2>1. a \in LogRecord
      BY DEF RecoveryTypeOK, TypeOK, LogRecord
    <2>2. Append(log, a) = log \o <<a>>
      BY <2>1, AppendIsConcat DEF RecoveryTypeOK
    <2> QED
      BY <1>1, <2>1, <2>2 DEF CommitTrx, FinishCommit
  <1>2. CASE FinishRollback(s) /\ Logs(<<[type |-> "MTR_ROLLBACK", trx |-> trx_id[s]]>>)
    <2> DEFINE a == [type |-> "MTR_ROLLBACK", trx |-> trx_id[s]]
    <2>1. a \in LogRecord /\ a.type = "MTR_ROLLBACK" /\ a.trx = trx_id[s]
      BY DEF RecoveryTypeOK, TypeOK, LogRecord
    <2> QED
      BY <1>2, <2>1 DEF Logs, FinishRollback
  <1> QED
    BY <1>1, <1>2

\* Every request keeps the log in order and the sessions with it.
LEMMA ServeSessions ==
  ASSUME RecoveryTypeOK, RecoveryTypeOK', LogOrdered(log), SessionsOK, NEW s \in Sessions, Serve(s)
  PROVE  LogOrdered(log') /\ SessionsOK'
  <1>0. SessionOK(s)
    BY DEF SessionsOK
  <1>1. ASSUME LogsNothing PROVE log' = log
    BY <1>1 DEF LogsNothing, logVars
  <1>2. CASE Begin(s) /\ StartLogs(s)
    <2>1. phase' = [phase EXCEPT ![s] = "idle"] /\ phase[s] = "idle"
      BY <1>2 DEF Begin, RecoveryTypeOK, TypeOK
    <2> QED
      BY <1>2, <2>1, StartSessions DEF Begin
  <1>3. CASE OpenStatement(s) /\ StartLogs(s)
    BY <1>3, StartSessions DEF OpenStatement
  <1>4. CASE CloseStatement(s) /\ LogsNothing
    <2>1. CASE multi[s]
      BY <1>1, <1>4, <2>1, StatementSessions DEF CloseStatement, kitVars, trxVars
    <2>2. CASE ~multi[s]
      BY <1>1, <1>4, <2>2, StartCommitSessions DEF CloseStatement, Ending
    <2> QED
      BY <2>1, <2>2
  <1>5. ASSUME NEW r \in Rids, NEW k \in Keys, InsertRecord(s, r, k),
               IF DuplicateKey(index, k, r) THEN LogsNothing ELSE Logs(<<InsertLog(s, r, k)>>)
        PROVE  LogOrdered(log') /\ SessionsOK'
    <2>1. CASE DuplicateKey(index, k, r)
      BY <1>1, <1>5, <2>1, StatementSessions DEF InsertRecord, kitVars
    <2>2. CASE ~DuplicateKey(index, k, r)
      <3> DEFINE a == InsertLog(s, r, k)
      <3>1. a \in LogRecord /\ a.type = "INSERT" /\ a.rid = r /\ a.trx = trx_id[s]
        BY LoggedTypes DEF InsertLog
      <3>2. log' = log \o <<a>>
        BY <1>5, <2>2 DEF Logs
      <3> HIDE DEF a
      <3> QED
        BY <1>5, <2>2, <3>1, <3>2, DataOneSessions DEF InsertRecord, kitVars
    <2> QED
      BY <2>1, <2>2
  <1>6. ASSUME NEW r \in Rids, DeleteRecord(s, r), Logs(<<DeleteLog(s, r)>>)
        PROVE  LogOrdered(log') /\ SessionsOK'
    <2> DEFINE a == DeleteLog(s, r)
    <2>1. a \in LogRecord /\ a.type = "DELETE" /\ a.rid = r /\ a.trx = trx_id[s]
      BY DEF DeleteLog, LogRecord, RecoveryTypeOK, TypeOK
    <2>2. log' = log \o <<a>>
      BY <1>6 DEF Logs
    <2> HIDE DEF a
    <2> QED
      BY <1>6, <2>1, <2>2, DataOneSessions DEF DeleteRecord, kitVars
  <1>7. ASSUME NEW r \in Rids, NEW r2 \in Rids, NEW k \in Keys, UpdateRecord(s, r, r2, k),
               IF DuplicateKey(index \ {<<rows[r].key, r>>}, k, r2) THEN LogsNothing
               ELSE Logs(<<DeleteLog(s, r), InsertLog(s, r2, k)>>)
        PROVE  LogOrdered(log') /\ SessionsOK'
    <2>1. CASE DuplicateKey(index \ {<<rows[r].key, r>>}, k, r2)
      BY <1>1, <1>7, <2>1, StatementSessions DEF UpdateRecord, kitVars
    <2>2. CASE ~DuplicateKey(index \ {<<rows[r].key, r>>}, k, r2)
      <3>1. PICK q \in Seq(LogRecord) : /\ Len(q) = 2 /\ q[1] = DeleteLog(s, r)
                                        /\ q[2] = InsertLog(s, r2, k) /\ log' = log \o q
        BY <1>7, <2>2, LoggedUpdate
      <3>2. /\ operations' = [operations EXCEPT ![s] =
                                AddOperation(AddOperation(@, "DELETE", r), "INSERT", r2)]
            /\ UNCHANGED <<current_trx_id, trx_id, started, phase, todo, commit_xid>>
            /\ phase[s] = "stmt"
        BY <1>7, <2>2 DEF UpdateRecord, kitVars
      <3> QED
        BY <3>1, <3>2, DataTwoSessions
    <2> QED
      BY <2>1, <2>2
  <1>8. ASSUME NEW r \in Rids, WriteConflict(s, r), LogsNothing PROVE LogOrdered(log') /\ SessionsOK'
    BY <1>1, <1>8, StatementSessions DEF WriteConflict, kitVars, trxVars
  <1>9. CASE Commit(s) /\ LogsNothing
    BY <1>1, <1>9, StartCommitSessions DEF Commit, Ending
  <1>10. ASSUME NEW op \in Operation, CommitOperation(s, op) \/ RollbackOperation(s, op), LogsNothing
         PROVE  LogOrdered(log') /\ SessionsOK'
    <2>1. /\ phase[s] \in Ending /\ todo' = [todo EXCEPT ![s] = @ \ {op}] /\ log' = log
          /\ UNCHANGED <<current_trx_id, trx_id, started, operations, phase, commit_xid>>
      BY <1>1, <1>10 DEF CommitOperation, RollbackOperation, Ending, kitVars
    <2> QED
      BY <2>1, LoopSessions
  <1>11. CASE \/ FinishCommit(s) /\ CommitTrx(s)
              \/ FinishRollback(s) /\ Logs(<<[type |-> "MTR_ROLLBACK", trx |-> trx_id[s]]>>)
    <2>1. /\ phase[s] \in Ending /\ todo[s] = {} /\ phase' = [phase EXCEPT ![s] = "idle"]
          /\ operations' = [operations EXCEPT ![s] = {}]
          /\ commit_xid' = commit_xid \/ commit_xid' = [commit_xid EXCEPT ![s] = 0]
          /\ UNCHANGED <<current_trx_id, trx_id, started, todo>>
      BY <1>11 DEF FinishCommit, FinishRollback, Ending, kitVars
    <2>2. PICK a \in LogRecord :
            /\ a.type = IF phase[s] = "commit" THEN "MTR_COMMIT" ELSE "MTR_ROLLBACK"
            /\ a.trx = trx_id[s] /\ log' = log \o <<a>>
            /\ a.type = "MTR_COMMIT" => a.xid = commit_xid[s]
      BY <1>11, LoggedEnd
    <2>3. a.type \in {"MTR_COMMIT", "MTR_ROLLBACK"} /\ (a.type = "MTR_COMMIT" => a.xid > 0)
      BY <1>0, <2>2 DEF SessionOK
    <2> QED
      BY <2>1, <2>2, <2>3, FinishSessions
  <1>12. CASE Rollback(s) /\ LogsNothing
    BY <1>1, <1>12, RollbackSessions
  <1>13. CASE Disconnect(s) /\ LogsNothing
    BY <1>1, <1>13, DisconnectSessions
  <1> QED
    BY <1>2, <1>3, <1>4, <1>5, <1>6, <1>7, <1>8, <1>9, <1>10, <1>11, <1>12, <1>13 DEF Serve

-----------------------------------------------------------------------------
(* What a request does to a record.                                        *)

\* Slot r takes the record of an INSERT or the new version of an UPDATE.
Inserted(s, r) ==
  /\ rows[r] = NoRow /\ phase[s] = "stmt" /\ Len(log) < Len(log')
  /\ \E op \in operations'[s] : op.rid = r
  /\ \E k \in Keys : /\ rows'[r] = [begin |-> -trx_id[s], end |-> MaxTrxId, key |-> k]
                     /\ log'[Len(log')] = InsertLog(s, r, k)

\* The index refuses the new version of the record in slot r.
UpdateFails(r) ==
  \E r2 \in Rids, k \in Keys : rows[r2] = NoRow /\ DuplicateKey(index \ {<<rows[r].key, r>>}, k, r2)

\* A DELETE or an UPDATE marks the record in slot r; one that fails logs nothing.
Marked(s, r) ==
  /\ rows[r] /= NoRow /\ phase[s] = "stmt" /\ rows'[r] = [rows[r] EXCEPT !.end = -trx_id[s]]
  /\ \/ UpdateFails(r)
     \/ /\ Len(log) < Len(log') /\ log'[Len(log) + 1] = DeleteLog(s, r)
        /\ \E op \in operations'[s] : op.rid = r

\* A commit writes its id into the record in slot r.
Stamped(s, r) ==
  /\ rows[r] /= NoRow /\ phase[s] = "commit"
  /\ \E op \in todo[s] :
       /\ op.rid = r
       /\ \/ op.type = "INSERT" /\ rows'[r] = [rows[r] EXCEPT !.begin = commit_xid[s]]
          \/ op.type = "DELETE" /\ rows'[r] = [rows[r] EXCEPT !.end = commit_xid[s]]

\* A rollback empties slot r or takes the mark away.
Released(s, r) ==
  /\ rows[r] /= NoRow /\ phase[s] = "rollback"
  /\ \E op \in todo[s] :
       /\ op.rid = r
       /\ \/ op.type = "INSERT" /\ rows'[r] = NoRow
          \/ op.type = "DELETE" /\ rows'[r] = [rows[r] EXCEPT !.end = MaxTrxId]

\* After an operation on a record the set has one on that record.
LEMMA AddedOp ==
  ASSUME NEW ops, NEW type, NEW r
  PROVE  /\ \E op \in AddOperation(ops, type, r) : op.rid = r
         /\ ops \subseteq AddOperation(ops, type, r)
  <1>1. CASE \E op \in ops : op.rid = r
    BY <1>1 DEF AddOperation
  <1>2. CASE ~\E op \in ops : op.rid = r
    <2> DEFINE new == [type |-> type, rid |-> r]
    <2>1. AddOperation(ops, type, r) = ops \cup {new} /\ new.rid = r
      BY <1>2 DEF AddOperation
    <2> HIDE DEF new
    <2> QED
      BY <2>1
  <1> QED
    BY <1>1, <1>2

\* Every change of a record is one of the four.
LEMMA ServeRows ==
  ASSUME RecoveryTypeOK, NEW s \in Sessions, Serve(s), NEW q \in Rids
  PROVE  rows'[q] = rows[q] \/ Inserted(s, q) \/ Marked(s, q) \/ Stamped(s, q) \/ Released(s, q)
  <1> DEFINE Goal == rows'[q] = rows[q] \/ Inserted(s, q) \/ Marked(s, q) \/ Stamped(s, q) \/ Released(s, q)
  <1>0. /\ rows \in [Rids -> Row \cup {NoRow}] /\ operations \in [Sessions -> SUBSET Operation]
        /\ todo \in [Sessions -> SUBSET Operation]
    BY DEF RecoveryTypeOK, TypeOK
  <1>1. ASSUME rows' = rows PROVE Goal
    BY <1>1
  <1>2. ASSUME NEW r \in Rids, NEW k \in Keys, InsertRecord(s, r, k),
               IF DuplicateKey(index, k, r) THEN LogsNothing ELSE Logs(<<InsertLog(s, r, k)>>)
        PROVE  Goal
    <2>1. CASE DuplicateKey(index, k, r)
      BY <1>2, <2>1 DEF InsertRecord, tableVars
    <2>2. CASE ~DuplicateKey(index, k, r)
      <3>1. InsertLog(s, r, k) \in LogRecord
        BY LoggedTypes
      <3>2. Len(log') = Len(log) + 1 /\ log'[Len(log) + 1] = InsertLog(s, r, k) /\ Len(log) \in Nat
        BY <1>2, <2>2, <3>1, LoggedOne
      <3>3. /\ rows[r] = NoRow /\ phase[s] = "stmt"
            /\ rows' = [rows EXCEPT ![r] = [begin |-> -trx_id[s], end |-> MaxTrxId, key |-> k]]
            /\ operations'[s] = AddOperation(operations[s], "INSERT", r)
        BY <1>0, <1>2, <2>2 DEF InsertRecord
      <3>4. q /= r => rows'[q] = rows[q]
        BY <1>0, <3>3
      <3>5. q = r => Inserted(s, q)
        <4>1. Len(log) < Len(log') /\ log'[Len(log')] = InsertLog(s, r, k)
          BY <3>2
        <4>2. rows'[r] = [begin |-> -trx_id[s], end |-> MaxTrxId, key |-> k]
          BY <1>0, <3>3
        <4> QED
          BY <3>3, <4>1, <4>2, AddedOp DEF Inserted
      <3> QED
        BY <3>4, <3>5
    <2> QED
      BY <2>1, <2>2
  <1>3. ASSUME NEW r \in Rids, DeleteRecord(s, r), Logs(<<DeleteLog(s, r)>>) PROVE Goal
    <2>1. DeleteLog(s, r) \in LogRecord
      BY DEF DeleteLog, LogRecord, RecoveryTypeOK, TypeOK
    <2>2. Len(log') = Len(log) + 1 /\ log'[Len(log) + 1] = DeleteLog(s, r) /\ Len(log) \in Nat
      BY <1>3, <2>1, LoggedOne
    <2>3. /\ rows[r] /= NoRow /\ phase[s] = "stmt"
          /\ rows' = [rows EXCEPT ![r].end = -trx_id[s]]
          /\ operations'[s] = AddOperation(operations[s], "DELETE", r)
      BY <1>0, <1>3 DEF DeleteRecord
    <2>4. q /= r => rows'[q] = rows[q]
      BY <1>0, <2>3
    <2>5. q = r => Marked(s, q)
      <3>1. rows'[r] = [rows[r] EXCEPT !.end = -trx_id[s]] /\ Len(log) < Len(log')
        BY <1>0, <2>2, <2>3
      <3> QED
        BY <2>2, <2>3, <3>1, AddedOp DEF Marked
    <2> QED
      BY <2>4, <2>5
  <1>4. ASSUME NEW r \in Rids, NEW r2 \in Rids, NEW k \in Keys, UpdateRecord(s, r, r2, k),
               IF DuplicateKey(index \ {<<rows[r].key, r>>}, k, r2) THEN LogsNothing
               ELSE Logs(<<DeleteLog(s, r), InsertLog(s, r2, k)>>)
        PROVE  Goal
    <2>1. rows[r] /= NoRow /\ rows[r2] = NoRow /\ phase[s] = "stmt"
      BY <1>4 DEF UpdateRecord
    <2>2. CASE DuplicateKey(index \ {<<rows[r].key, r>>}, k, r2)
      <3>1. rows' = [rows EXCEPT ![r].end = -trx_id[s]]
        BY <1>4, <2>2 DEF UpdateRecord
      <3>2. q /= r => rows'[q] = rows[q]
        BY <1>0, <3>1
      <3>3. q = r => Marked(s, q)
        <4>1. rows'[r] = [rows[r] EXCEPT !.end = -trx_id[s]]
          BY <1>0, <3>1
        <4> QED
          BY <2>1, <2>2, <4>1 DEF Marked, UpdateFails
      <3> QED
        BY <3>2, <3>3
    <2>3. CASE ~DuplicateKey(index \ {<<rows[r].key, r>>}, k, r2)
      <3>1. /\ Len(log') = Len(log) + 2 /\ log'[Len(log) + 1] = DeleteLog(s, r)
            /\ log'[Len(log) + 2] = InsertLog(s, r2, k) /\ Len(log) \in Nat
        BY <1>4, <2>3, LoggedUpdate
      <3>2. operations'[s] = AddOperation(AddOperation(operations[s], "DELETE", r), "INSERT", r2)
        BY <1>0, <1>4, <2>3 DEF UpdateRecord
      <3>3. rows' = [[rows EXCEPT ![r].end = -trx_id[s]] EXCEPT ![r2] =
                       [begin |-> -trx_id[s], end |-> MaxTrxId, key |-> k]]
        BY <1>4, <2>3 DEF UpdateRecord
      <3>4. q /= r /\ q /= r2 => rows'[q] = rows[q]
        BY <1>0, <3>3
      <3>5. q = r => Marked(s, q)
        <4>1. rows'[r] = [rows[r] EXCEPT !.end = -trx_id[s]] /\ Len(log) < Len(log')
          BY <1>0, <2>1, <3>1, <3>3
        <4>2. \E op \in operations'[s] : op.rid = r
          BY <3>2, AddedOp
        <4> QED
          BY <2>1, <3>1, <4>1, <4>2 DEF Marked
      <3>6. q = r2 => Inserted(s, q)
        <4>1. rows'[r2] = [begin |-> -trx_id[s], end |-> MaxTrxId, key |-> k]
          BY <1>0, <3>3
        <4>2. Len(log) < Len(log') /\ log'[Len(log')] = InsertLog(s, r2, k)
          BY <3>1
        <4> QED
          BY <2>1, <3>2, <4>1, <4>2, AddedOp DEF Inserted
      <3> QED
        BY <3>4, <3>5, <3>6
    <2> QED
      BY <2>2, <2>3
  <1>5. ASSUME NEW op \in Operation, CommitOperation(s, op) PROVE Goal
    <2>1. phase[s] = "commit" /\ op \in todo[s] /\ op.rid \in Rids /\ op.type \in {"INSERT", "DELETE"}
      BY <1>5 DEF CommitOperation, Operation
    <2>2. CASE rows[op.rid] = NoRow
      BY <1>5, <2>2 DEF CommitOperation
    <2>3. CASE rows[op.rid] /= NoRow
      <3>1. rows' = IF op.type = "INSERT" THEN [rows EXCEPT ![op.rid].begin = commit_xid[s]]
                    ELSE [rows EXCEPT ![op.rid].end = commit_xid[s]]
        BY <1>5, <2>3 DEF CommitOperation
      <3>2. q /= op.rid => rows'[q] = rows[q]
        BY <1>0, <2>1, <3>1
      <3>3. rows'[op.rid] = IF op.type = "INSERT" THEN [rows[op.rid] EXCEPT !.begin = commit_xid[s]]
                            ELSE [rows[op.rid] EXCEPT !.end = commit_xid[s]]
        BY <1>0, <2>1, <3>1
      <3>4. q = op.rid => Stamped(s, q)
        BY <2>1, <2>3, <3>3 DEF Stamped
      <3> QED
        BY <3>2, <3>4
    <2> QED
      BY <2>2, <2>3
  <1>6. ASSUME NEW op \in Operation, RollbackOperation(s, op) PROVE Goal
    <2>1. phase[s] = "rollback" /\ op \in todo[s] /\ op.rid \in Rids /\ op.type \in {"INSERT", "DELETE"}
      BY <1>6 DEF RollbackOperation, Operation
    <2>2. CASE op.type = "INSERT"
      <3>1. rows' = rows \/ (rows[op.rid] /= NoRow /\ rows' = [rows EXCEPT ![op.rid] = NoRow])
        BY <1>6, <2>2 DEF RollbackOperation, TableDeleteRecord, tableVars
      <3> QED
        BY <1>0, <2>1, <2>2, <3>1 DEF Released
    <2>3. CASE op.type = "DELETE"
      <3>1. rows' = rows \/ (rows[op.rid] /= NoRow /\ rows' = [rows EXCEPT ![op.rid].end = MaxTrxId])
        BY <1>6, <2>3 DEF RollbackOperation
      <3>2. rows' = rows \/ (rows[op.rid] /= NoRow /\ rows'[op.rid] = [rows[op.rid] EXCEPT !.end = MaxTrxId])
        BY <1>0, <2>1, <3>1
      <3>3. q /= op.rid => rows'[q] = rows[q]
        BY <1>0, <2>1, <3>1
      <3>4. q = op.rid => rows'[q] = rows[q] \/ Released(s, q)
        BY <2>1, <2>3, <3>2 DEF Released
      <3> QED
        BY <3>3, <3>4
    <2> QED
      BY <2>1, <2>2, <2>3
  <1>7. ASSUME \/ Begin(s) \/ OpenStatement(s) \/ CloseStatement(s) \/ Commit(s) \/ Rollback(s)
               \/ FinishCommit(s) \/ FinishRollback(s) \/ Disconnect(s)
               \/ \E r \in Rids : WriteConflict(s, r)
        PROVE  rows' = rows
    BY <1>7 DEF Begin, OpenStatement, CloseStatement, StartCommit, Commit, Rollback, FinishCommit,
                FinishRollback, Disconnect, WriteConflict, tableVars
  <1> HIDE DEF Goal
  <1>8. Goal
    BY <1>1, <1>2, <1>3, <1>4, <1>5, <1>6, <1>7 DEF Serve
  <1> QED
    BY <1>8 DEF Goal

\* A slot that was used again stays so in a longer log.
LEMMA SlotKept ==
  ASSUME NEW l \in Seq(LogRecord), NEW m, Extends(l, m), SlotReused(l, Len(l))
  PROVE  SlotReused(m, Len(m))
  <1>1. /\ Len(l) \in Nat /\ Len(m) \in Nat /\ Len(l) <= Len(m) /\ Agree(l, m, Len(l))
        /\ Len(l) \in 0 .. Len(m) /\ Len(l) \in 0 .. Len(l)
    BY LenProperties DEF Extends
  <1>2. SlotReused(m, Len(l))
    BY <1>1, AgreeSlots
  <1> QED
    BY <1>1, <1>2, Growing

\* Ids only grow, and a transaction that runs after a step ran before it, with
\* no more operations, or begins in it.
LEMMA ServeStarted ==
  ASSUME RecoveryTypeOK, SessionsOK, NEW s \in Sessions, Serve(s)
  PROVE  /\ current_trx_id <= current_trx_id'
         /\ \A t \in Sessions : started'[t] =>
              \/ /\ started[t] /\ trx_id'[t] = trx_id[t] /\ operations[t] \subseteq operations'[t]
              \/ t = s /\ trx_id'[t] = current_trx_id + 1 /\ rows' = rows /\ Len(log) < Len(log')
  <1> DEFINE Same(t) == started[t] /\ trx_id'[t] = trx_id[t] /\ operations[t] \subseteq operations'[t]
             New(t) == t = s /\ trx_id'[t] = current_trx_id + 1 /\ rows' = rows /\ Len(log) < Len(log')
             Goal == current_trx_id <= current_trx_id' /\ \A t \in Sessions : started'[t] => Same(t) \/ New(t)
  <1>0. /\ current_trx_id \in Nat /\ trx_id \in [Sessions -> Int] /\ started \in [Sessions -> BOOLEAN]
        /\ operations \in [Sessions -> SUBSET Operation] /\ log \in Seq(LogRecord)
    BY DEF RecoveryTypeOK, TypeOK
  <1>1. ASSUME StartIfNeed(s), StartLogs(s), UNCHANGED <<rows, operations>> PROVE Goal
    <2>1. CASE started[s]
      BY <1>0, <1>1, <2>1 DEF StartIfNeed
    <2>2. CASE ~started[s]
      <3> DEFINE a == [type |-> "MTR_BEGIN", trx |-> current_trx_id + 1]
      <3>1. /\ current_trx_id' = current_trx_id + 1
            /\ trx_id' = [trx_id EXCEPT ![s] = current_trx_id + 1] /\ started' = [started EXCEPT ![s] = TRUE]
            /\ Logs(<<a>>)
        BY <1>1, <2>2 DEF StartIfNeed, StartLogs
      <3>2. a \in LogRecord
        BY <1>0 DEF LogRecord
      <3>3. Len(log') = Len(log) + 1 /\ Len(log) \in Nat
        BY <3>1, <3>2, LoggedOne
      <3>4. current_trx_id <= current_trx_id' /\ Len(log) < Len(log')
        BY <1>0, <3>1, <3>3
      <3> QED
        BY <1>0, <1>1, <3>1, <3>4
    <2> QED
      BY <2>1, <2>2
  <1>2. ASSUME UNCHANGED <<current_trx_id, trx_id>>,
               \A t \in Sessions : started'[t] => started[t] /\ operations[t] \subseteq operations'[t]
        PROVE  Goal
    BY <1>0, <1>2
  <1>3. ASSUME StartCommit(s) PROVE Goal
    <2>1. current_trx_id' = current_trx_id + 1 /\ trx_id' = trx_id /\ operations' = operations
      BY <1>3 DEF StartCommit
    <2>2. \A t \in Sessions : started'[t] => started[t]
      BY <1>0, <1>3 DEF StartCommit
    <2> QED
      BY <1>0, <2>1, <2>2
  <1>4. ASSUME Begin(s) /\ StartLogs(s) PROVE Goal
    BY <1>1, <1>4 DEF Begin, tableVars
  <1>5. ASSUME OpenStatement(s) /\ StartLogs(s) PROVE Goal
    BY <1>1, <1>5 DEF OpenStatement, tableVars
  <1>6. ASSUME CloseStatement(s) PROVE Goal
    BY <1>2, <1>3, <1>6 DEF CloseStatement, kitVars, trxVars
  <1>7. ASSUME NEW r \in Rids, NEW k \in Keys, InsertRecord(s, r, k) PROVE Goal
    <2>1. operations[s] \subseteq AddOperation(operations[s], "INSERT", r)
      BY AddedOp
    <2>2. \A t \in Sessions : operations[t] \subseteq operations'[t]
      BY <1>0, <1>7, <2>1 DEF InsertRecord
    <2> QED
      BY <1>2, <1>7, <2>2 DEF InsertRecord, kitVars
  <1>8. ASSUME NEW r \in Rids, DeleteRecord(s, r) PROVE Goal
    <2>1. operations[s] \subseteq AddOperation(operations[s], "DELETE", r)
      BY AddedOp
    <2>2. \A t \in Sessions : operations[t] \subseteq operations'[t]
      BY <1>0, <1>8, <2>1 DEF DeleteRecord
    <2> QED
      BY <1>2, <1>8, <2>2 DEF DeleteRecord, kitVars
  <1>9. ASSUME NEW r \in Rids, NEW r2 \in Rids, NEW k \in Keys, UpdateRecord(s, r, r2, k) PROVE Goal
    <2>1. operations[s] \subseteq AddOperation(AddOperation(operations[s], "DELETE", r), "INSERT", r2)
      BY AddedOp
    <2>2. \A t \in Sessions : operations[t] \subseteq operations'[t]
      BY <1>0, <1>9, <2>1 DEF UpdateRecord
    <2>3. UNCHANGED <<current_trx_id, trx_id, started>>
      BY <1>9 DEF UpdateRecord, kitVars
    <2> QED
      BY <1>2, <2>2, <2>3
  <1>10. ASSUME NEW r \in Rids, WriteConflict(s, r) PROVE Goal
    BY <1>2, <1>10 DEF WriteConflict, kitVars, trxVars
  <1>11. ASSUME Commit(s) PROVE Goal
    BY <1>3, <1>11 DEF Commit
  <1>12. ASSUME NEW op \in Operation, CommitOperation(s, op) \/ RollbackOperation(s, op) PROVE Goal
    BY <1>2, <1>12 DEF CommitOperation, RollbackOperation, kitVars
  <1>13. ASSUME FinishCommit(s) \/ FinishRollback(s) PROVE Goal
    <2>1. UNCHANGED <<current_trx_id, trx_id, started>> /\ operations' = [operations EXCEPT ![s] = {}]
          /\ phase[s] \in Ending
      BY <1>13 DEF FinishCommit, FinishRollback, kitVars, Ending
    <2>2. ~started[s]
      BY <2>1 DEF SessionsOK, SessionOK
    <2> QED
      BY <1>0, <1>2, <2>1, <2>2
  <1>14. ASSUME Rollback(s) PROVE Goal
    BY <1>0, <1>2, <1>14 DEF Rollback, kitVars
  <1>15. ASSUME Disconnect(s) PROVE Goal
    <2>1. /\ current_trx_id' = current_trx_id
          /\ \A t \in Sessions : started'[t] => started[t] /\ trx_id'[t] = trx_id[t] /\ operations'[t] = operations[t]
      BY <1>0, <1>15 DEF Disconnect, kitVars
    <2> QED
      BY <1>0, <2>1
  <1> HIDE DEF Goal
  <1>16. Goal
    BY <1>4, <1>5, <1>6, <1>7, <1>8, <1>9, <1>10, <1>11, <1>12, <1>13, <1>14, <1>15 DEF Serve
  <1> QED
    BY <1>16 DEF Goal

\* The ids of a session that runs or ends a transaction.
LEMMA SessionIds ==
  ASSUME RecoveryTypeOK, SessionsOK, NEW s \in Sessions
  PROVE  /\ phase[s] = "stmt" \/ started[s] => trx_id[s] \in 1 .. current_trx_id
         /\ phase[s] = "commit" => commit_xid[s] > 0
         /\ trx_id[s] \in Int /\ commit_xid[s] \in Int /\ -trx_id[s] \in Int /\ current_trx_id \in Nat
         /\ todo[s] \subseteq operations[s]
         /\ operations[s] /= {} => ~Ended(log, trx_id[s], Len(log))
         /\ OpsMatch(operations[s], log, trx_id[s], Len(log))
  <1>1. SessionOK(s)
    BY DEF SessionsOK
  <1>2. trx_id[s] \in Int /\ commit_xid[s] \in Int /\ -trx_id[s] \in Int /\ current_trx_id \in Nat
    BY DEF RecoveryTypeOK, TypeOK
  <1> QED
    BY <1>1, <1>2 DEF SessionOK, OpsMatch

\* No mark is of an id that was not drawn.
LEMMA ServeMarks ==
  ASSUME RecoveryTypeOK, RecoveryTypeOK', SessionsOK, MarksDrawn, NEW s \in Sessions, Serve(s)
  PROVE  MarksDrawn'
  <1> SUFFICES ASSUME NEW r \in Rids, rows'[r] /= NoRow
               PROVE  -rows'[r].begin <= current_trx_id' /\ -rows'[r].end <= current_trx_id'
    BY DEF MarksDrawn
  <1>1. current_trx_id <= current_trx_id' /\ current_trx_id \in Nat /\ current_trx_id' \in Nat
    BY ServeStarted DEF RecoveryTypeOK, TypeOK
  <1>2. /\ phase[s] = "stmt" => trx_id[s] \in 1 .. current_trx_id
        /\ phase[s] = "commit" => commit_xid[s] > 0
        /\ trx_id[s] \in Int /\ commit_xid[s] \in Int /\ -trx_id[s] \in Int
    BY SessionIds
  <1>3. rows[r] /= NoRow => /\ rows[r] \in Row /\ rows[r].begin \in Int /\ rows[r].end \in Int
                            /\ -rows[r].begin <= current_trx_id /\ -rows[r].end <= current_trx_id
    BY DEF MarksDrawn, RecoveryTypeOK, TypeOK, Row
  <1>4. MaxTrxId \in Nat /\ MaxTrxId \in Int
    BY ConstantsAssumption
  <1>5. CASE rows'[r] = rows[r]
    BY <1>1, <1>3, <1>5
  <1>6. CASE Inserted(s, r)
    <2>1. rows'[r].begin = -trx_id[s] /\ rows'[r].end = MaxTrxId /\ phase[s] = "stmt"
      BY <1>6 DEF Inserted
    <2> QED
      BY <1>1, <1>2, <1>4, <2>1
  <1>7. CASE Marked(s, r)
    <2>1. rows'[r] = [rows[r] EXCEPT !.end = -trx_id[s]] /\ phase[s] = "stmt" /\ rows[r] /= NoRow
      BY <1>7 DEF Marked
    <2>2. rows'[r].begin = rows[r].begin /\ rows'[r].end = -trx_id[s]
      BY <1>2, <1>3, <2>1, SetEnd
    <2> QED
      BY <1>1, <1>2, <1>3, <2>1, <2>2
  <1>8. CASE Stamped(s, r)
    <2>1. /\ phase[s] = "commit" /\ rows[r] /= NoRow
          /\ \/ rows'[r] = [rows[r] EXCEPT !.begin = commit_xid[s]]
             \/ rows'[r] = [rows[r] EXCEPT !.end = commit_xid[s]]
      BY <1>8 DEF Stamped
    <2>2. \/ rows'[r].begin = commit_xid[s] /\ rows'[r].end = rows[r].end
          \/ rows'[r].end = commit_xid[s] /\ rows'[r].begin = rows[r].begin
      BY <1>2, <1>3, <2>1, SetEnd, SetBegin
    <2> QED
      BY <1>1, <1>2, <1>3, <2>1, <2>2
  <1>9. CASE Released(s, r)
    <2>1. rows[r] /= NoRow /\ rows'[r] = [rows[r] EXCEPT !.end = MaxTrxId]
      BY <1>9 DEF Released
    <2>2. rows'[r].begin = rows[r].begin /\ rows'[r].end = MaxTrxId
      BY <1>3, <1>4, <2>1, SetEnd
    <2> QED
      BY <1>1, <1>3, <1>4, <2>1, <2>2
  <1> QED
    BY <1>5, <1>6, <1>7, <1>8, <1>9, ServeRows

-----------------------------------------------------------------------------
(* Redo.                                                                   *)

\* One more record that does not end x, or ends it again, changes nothing.
LEMMA FateStep ==
  ASSUME NEW l, NEW n \in Nat, NEW x, ~Ends(l, n + 1, x) \/ Ended(l, x, n)
  PROVE  /\ Ended(l, x, n + 1) <=> Ended(l, x, n)
         /\ RolledBack(l, x, n + 1) <=> RolledBack(l, x, n)
         /\ Committed(l, x, n + 1) <=> Committed(l, x, n)
         /\ \A c \in 1 .. n + 1 : CommittedAt(l, c, x) => c \in 1 .. n
  <1>1. n \in 0 .. n + 1 /\ n + 1 \in Nat /\ n + 1 \in 1 .. n + 1
    OBVIOUS
  <1>2. \A c \in 1 .. n + 1 : c \in 1 .. n \/ c = n + 1
    OBVIOUS
  <1>3. ~EndedAt(l, n + 1, x)
    <2>1. CASE ~Ends(l, n + 1, x)
      BY <2>1 DEF EndedAt
    <2>2. CASE Ended(l, x, n)
      <3>1. PICK e \in 1 .. n : Ends(l, e, x)
        BY <2>2 DEF Ended
      <3>2. e \in 1 .. n + 1 - 1
        OBVIOUS
      <3> QED
        BY <3>1, <3>2 DEF EndedAt
    <2> QED
      BY <2>1, <2>2
  <1>4. Ended(l, x, n + 1) => Ended(l, x, n)
    BY <1>2 DEF Ended
  <1>5. RolledBack(l, x, n + 1) => RolledBack(l, x, n)
    BY <1>2, <1>3 DEF RolledBack
  <1>6. \A c \in 1 .. n + 1 : CommittedAt(l, c, x) => c \in 1 .. n
    BY <1>2, <1>3 DEF CommittedAt
  <1>7. Committed(l, x, n + 1) => Committed(l, x, n)
    BY <1>6 DEF Committed
  <1> QED
    BY <1>1, <1>4, <1>5, <1>6, <1>7, Growing

\* The record that ends x decides its fate.
LEMMA FirstEnd ==
  ASSUME NEW l, NEW n \in Nat, NEW x, Ends(l, n + 1, x), ~Ended(l, x, n)
  PROVE  /\ Ended(l, x, n + 1) /\ EndedAt(l, n + 1, x)
         /\ l[n + 1].type = "MTR_ROLLBACK" => RolledBack(l, x, n + 1) /\ ~Committed(l, x, n + 1)
         /\ l[n + 1].type = "MTR_COMMIT" => Committed(l, x, n + 1) /\ ~RolledBack(l, x, n + 1)
         /\ \A c \in 1 .. n + 1 : CommittedAt(l, c, x) => c = n + 1
         /\ ~Committed(l, x, n) /\ ~RolledBack(l, x, n)
  <1>1. n + 1 \in 1 .. n + 1 /\ n + 1 \in Nat /\ 1 .. n + 1 - 1 = 1 .. n
    OBVIOUS
  <1>2. \A c \in 1 .. n + 1 : c \in 1 .. n \/ c = n + 1
    OBVIOUS
  <1>3. Ended(l, x, n + 1) /\ EndedAt(l, n + 1, x)
    BY <1>1 DEF Ended, EndedAt
  <1>4. \A c \in 1 .. n : ~EndedAt(l, c, x)
    BY DEF Ended, EndedAt
  <1>5. \A c \in 1 .. n + 1 : CommittedAt(l, c, x) => c = n + 1
    BY <1>2, <1>4 DEF CommittedAt
  <1>6. l[n + 1].type = "MTR_COMMIT" => Committed(l, x, n + 1)
    BY <1>1, <1>3 DEF Committed, CommittedAt
  <1>7. l[n + 1].type = "MTR_ROLLBACK" => RolledBack(l, x, n + 1)
    BY <1>1, <1>3 DEF RolledBack
  <1>8. ~Committed(l, x, n) /\ ~RolledBack(l, x, n)
    BY <1>4 DEF Committed, CommittedAt, RolledBack
  <1> QED
    BY <1>1, <1>3, <1>5, <1>6, <1>7, <1>8, OneFate

\* What redo keeps was not rolled back.
LEMMA KeptFate ==
  ASSUME NEW x, Kept(x), pos - 1 \in Nat
  PROVE  ~RolledBack(log, x, pos - 1)
  BY OneFate DEF Kept

\* A redone record moves pos by one.
LEMMA Advances ==
  ASSUME RecoveryTypeOK, LogOrdered(log), Redoing, Advance
  PROVE  /\ log' = log /\ pos' = pos + 1 /\ pos' - 1 = pos /\ mode' = mode
         /\ pos - 1 \in Nat /\ pos = (pos - 1) + 1 /\ pos \in Nat
         /\ \A i \in 1 .. pos : i \in 1 .. pos - 1 \/ i = pos
         /\ \A i \in 1 .. pos - 1 : i \in 1 .. pos /\ i \in DOMAIN log /\ i \in Nat /\ i < pos
         /\ 1 .. pos \subseteq DOMAIN log /\ 1 .. pos - 1 \subseteq DOMAIN log /\ pos \in DOMAIN log
         /\ pos \in 1 .. pos /\ pos - 1 \in 0 .. pos
         /\ Record = log[pos] /\ Record \in LogRecord /\ RecordOK(log, pos)
         /\ \A i \in DOMAIN log : log[i] \in LogRecord
  <1>1. pos \in Nat /\ pos \in 1 .. Len(log) /\ Len(log) \in Nat /\ DOMAIN log = 1 .. Len(log)
        /\ Record = log[pos] /\ Record \in LogRecord /\ RecordOK(log, pos)
    BY RedoRecord
  <1>2. log' = log /\ pos' = pos + 1 /\ mode' = mode
    BY DEF Advance, logVars
  <1>3. \A i \in DOMAIN log : log[i] \in LogRecord
    BY <1>1, ElementOfSeq DEF RecoveryTypeOK
  <1> QED
    BY <1>1, <1>2, <1>3

\* A record that ends nothing new keeps what redo keeps.
LEMMA KeptSame ==
  ASSUME log' = log, pos' = pos + 1, pos - 1 \in Nat, pos = (pos - 1) + 1, pos' - 1 = pos,
         DOMAIN trxes' = DOMAIN trxes,
         NEW y, ~Ends(log, pos, y) \/ Ended(log, y, pos - 1)
  PROVE  /\ Kept(y)' <=> Kept(y)
         /\ Ended(log, y, pos) <=> Ended(log, y, pos - 1)
         /\ RolledBack(log, y, pos) <=> RolledBack(log, y, pos - 1)
  <1>1. /\ Ended(log, y, pos) <=> Ended(log, y, pos - 1)
        /\ RolledBack(log, y, pos) <=> RolledBack(log, y, pos - 1)
        /\ Committed(log, y, pos) <=> Committed(log, y, pos - 1)
    BY FateStep
  <1>2. Kept(y)' <=> Committed(log, y, pos) \/ (y \in DOMAIN trxes /\ ~Ended(log, y, pos))
    BY DEF Kept
  <1> QED
    BY <1>1, <1>2 DEF Kept

\* No record of a transaction comes before its MTR_BEGIN.
LEMMA NoEarlierData ==
  ASSUME LogOrdered(log), NEW n \in Nat, 1 .. n \subseteq DOMAIN log, NEW x, ~Begun(log, x, n)
  PROVE  \A i \in 1 .. n : IsData(log[i]) => log[i].trx /= x
  <1> SUFFICES ASSUME NEW i \in 1 .. n, IsData(log[i]), log[i].trx = x PROVE FALSE
    OBVIOUS
  <1>1. RecordOK(log, i)
    BY DEF LogOrdered
  <1>2. log[i].type /= "MTR_BEGIN" /\ x /= NoTrxId
    BY <1>1 DEF RecordOK, IsData
  <1>3. Begun(log, x, i - 1) /\ i - 1 \in 0 .. n
    BY <1>1, <1>2 DEF RecordOK
  <1> QED
    BY <1>3, Growing

\* A data record joins the operation set of its transaction, which is open.
LEMMA RedoDataTrxes ==
  ASSUME RecoveryTypeOK, LogOrdered(log), Redoing, Advance, RedoTrxes, Known, IsData(Record),
         trxes' = [trxes EXCEPT ![Record.trx] = AddOperation(@, Record.type, Record.rid)],
         current_trx_id' = current_trx_id
  PROVE  /\ RedoTrxes' /\ DOMAIN trxes' = DOMAIN trxes
         /\ ~Ended(log, Record.trx, pos - 1) /\ Kept(Record.trx)
         /\ \A y : Kept(y)' <=> Kept(y)
         /\ \A y : Ended(log, y, pos) <=> Ended(log, y, pos - 1)
         /\ \A y : RolledBack(log, y, pos) <=> RolledBack(log, y, pos - 1)
         /\ \A y \in DOMAIN trxes : trxes[y] \subseteq trxes'[y]
  <1> DEFINE x == Record.trx
             ty == Record.type
             r == Record.rid
  <1>1. /\ log' = log /\ pos' = pos + 1 /\ pos' - 1 = pos /\ pos - 1 \in Nat /\ pos = (pos - 1) + 1
        /\ \A i \in 1 .. pos : i \in 1 .. pos - 1 \/ i = pos
        /\ \A i \in 1 .. pos - 1 : i \in 1 .. pos
        /\ Record = log[pos] /\ RecordOK(log, pos) /\ pos - 1 \in 0 .. pos /\ pos \in Nat /\ pos \in 1 .. pos
    BY Advances
  <1>2. \A y : ~Ends(log, pos, y)
    BY <1>1 DEF Ends, IsData
  <1>3. DOMAIN trxes' = DOMAIN trxes /\ Len(log) \in Nat
    BY DEF RecoveryTypeOK
  <1>4. /\ \A y : Kept(y)' <=> Kept(y)
        /\ \A y : Ended(log, y, pos) <=> Ended(log, y, pos - 1)
        /\ \A y : RolledBack(log, y, pos) <=> RolledBack(log, y, pos - 1)
    BY <1>1, <1>2, <1>3, KeptSame
  <1>5. ~Ended(log, x, pos - 1)
    <2>1. ~Ended(log, x, pos)
      BY <1>1 DEF RecordOK
    <2> QED
      BY <1>4, <2>1
  <1>6. Kept(x)
    BY <1>5 DEF Kept, Known
  <1>7. /\ trxes'[x] = AddOperation(trxes[x], ty, r) /\ x \in DOMAIN trxes
        /\ \A y \in DOMAIN trxes : y /= x => trxes'[y] = trxes[y]
    BY DEF Known, RecoveryTypeOK
  <1>8. ASSUME NEW y \in DOMAIN trxes PROVE Begun(log, y, pos) /\ OpsMatch(trxes'[y], log, y, pos)
    <2>1. Begun(log, y, pos - 1) /\ OpsMatch(trxes[y], log, y, pos - 1)
      BY DEF RedoTrxes
    <2>2. Begun(log, y, pos)
      BY <1>1, <2>1, Growing
    <2>3. CASE y = x
      <3>1. ty \in {"INSERT", "DELETE"} /\ log[(pos - 1) + 1].type = ty
            /\ log[(pos - 1) + 1].rid = r /\ log[(pos - 1) + 1].trx = x
        BY <1>1 DEF IsData
      <3> HIDE DEF x, ty, r
      <3>2. OpsMatch(AddOperation(trxes[x], ty, r), log, x, (pos - 1) + 1)
        BY <1>1, <1>5, <2>1, <2>3, <3>1, OpsAdd
      <3> QED
        BY <1>1, <1>7, <2>2, <2>3, <3>2
    <2>4. CASE y /= x
      <3>1. log[(pos - 1) + 1].trx /= y
        BY <1>1, <2>4
      <3>2. OpsMatch(trxes[y], log, y, (pos - 1) + 1)
        BY <1>1, <2>1, <3>1, OpsOther
      <3> QED
        BY <1>1, <1>7, <2>2, <2>4, <3>2
    <2> QED
      BY <2>3, <2>4
  <1>9. \A i \in 1 .. pos : log[i].type = "MTR_BEGIN" =>
          log[i].trx <= current_trx_id /\ log[i].trx \in DOMAIN trxes
    <2>1. pos <= Len(log)
      BY DEF Redoing
    <2>2. log[pos].type /= "MTR_BEGIN"
      BY <1>1 DEF IsData
    <2> QED
      BY <1>1, <2>1, <2>2 DEF RedoTrxes
  <1>10. RedoTrxes'
    BY <1>1, <1>3, <1>8, <1>9 DEF RedoTrxes
  <1>11. \A y \in DOMAIN trxes : trxes[y] \subseteq trxes'[y]
    <2>1. trxes[x] \subseteq trxes'[x]
      BY <1>7, AddedOp
    <2> QED
      BY <1>7, <2>1
  <1> QED
    BY <1>3, <1>4, <1>5, <1>6, <1>10, <1>11

\* The end of a transaction empties its operation set.
LEMMA RedoEndTrxes ==
  ASSUME RecoveryTypeOK, LogOrdered(log), Redoing, Advance, RedoTrxes, Known,
         Record.type \in {"MTR_COMMIT", "MTR_ROLLBACK"},
         trxes' = [trxes EXCEPT ![Record.trx] = {}], current_trx_id' = current_trx_id
  PROVE  /\ RedoTrxes' /\ DOMAIN trxes' = DOMAIN trxes
         /\ \A y \in DOMAIN trxes : y /= Record.trx => trxes'[y] = trxes[y]
         /\ OpsMatch(trxes[Record.trx], log, Record.trx, pos - 1)
         /\ Ended(log, Record.trx, pos - 1) => trxes[Record.trx] = {}
         /\ \A y : y /= Record.trx \/ Ended(log, Record.trx, pos - 1) =>
              /\ Kept(y)' <=> Kept(y)
              /\ RolledBack(log, y, pos) <=> RolledBack(log, y, pos - 1)
              /\ \A c \in 1 .. pos : CommittedAt(log, c, y) => c \in 1 .. pos - 1
  <1> DEFINE x == Record.trx
  <1>1. /\ log' = log /\ pos' = pos + 1 /\ pos' - 1 = pos /\ pos - 1 \in Nat /\ pos = (pos - 1) + 1
        /\ \A i \in 1 .. pos : i \in 1 .. pos - 1 \/ i = pos
        /\ \A i \in 1 .. pos - 1 : i \in 1 .. pos
        /\ Record = log[pos] /\ pos - 1 \in 0 .. pos /\ pos \in Nat /\ pos \in 1 .. pos
    BY Advances
  <1>2. /\ DOMAIN trxes' = DOMAIN trxes /\ x \in DOMAIN trxes /\ trxes'[x] = {}
        /\ \A y \in DOMAIN trxes : y /= x => trxes'[y] = trxes[y]
    BY DEF Known, RecoveryTypeOK
  <1>3. Ends(log, pos, x) /\ Ended(log, x, pos)
    BY <1>1 DEF Ends, Ended
  <1>4. OpsMatch(trxes[x], log, x, pos - 1)
    BY <1>2 DEF RedoTrxes
  <1>5. Ended(log, x, pos - 1) => trxes[x] = {}
    BY <1>4 DEF OpsMatch
  <1>6. ASSUME NEW y, y /= x \/ Ended(log, x, pos - 1)
        PROVE  /\ Kept(y)' <=> Kept(y)
               /\ RolledBack(log, y, pos) <=> RolledBack(log, y, pos - 1)
               /\ \A c \in 1 .. pos : CommittedAt(log, c, y) => c \in 1 .. pos - 1
    <2>1. ~Ends(log, pos, y) \/ Ended(log, y, pos - 1)
      BY <1>1, <1>6 DEF Ends
    <2>2. \A c \in 1 .. (pos - 1) + 1 : CommittedAt(log, c, y) => c \in 1 .. pos - 1
      BY <1>1, <2>1, FateStep
    <2> QED
      BY <1>1, <1>2, <2>1, <2>2, KeptSame
  <1>7. ASSUME NEW y \in DOMAIN trxes PROVE Begun(log, y, pos) /\ OpsMatch(trxes'[y], log, y, pos)
    <2>1. Begun(log, y, pos - 1) /\ OpsMatch(trxes[y], log, y, pos - 1)
      BY DEF RedoTrxes
    <2>2. Begun(log, y, pos)
      BY <1>1, <2>1, Growing
    <2>3. CASE y = x
      BY <1>1, <1>2, <1>3, <2>2, <2>3, OpsEnd
    <2>4. CASE y /= x
      <3>1. log[(pos - 1) + 1].trx /= y
        BY <1>1, <2>4
      <3>2. OpsMatch(trxes[y], log, y, (pos - 1) + 1)
        BY <1>1, <2>1, <3>1, OpsOther
      <3> QED
        BY <1>1, <1>2, <2>2, <2>4, <3>2
    <2> QED
      BY <2>3, <2>4
  <1>8. \A i \in 1 .. pos : log[i].type = "MTR_BEGIN" =>
          log[i].trx <= current_trx_id /\ log[i].trx \in DOMAIN trxes
    <2>1. pos <= Len(log)
      BY DEF Redoing
    <2>2. log[pos].type /= "MTR_BEGIN"
      BY <1>1
    <2> QED
      BY <1>1, <2>1, <2>2 DEF RedoTrxes
  <1>9. RedoTrxes'
    BY <1>1, <1>2, <1>7, <1>8 DEF RedoTrxes
  <1> QED
    BY <1>2, <1>4, <1>5, <1>6, <1>9

\* MTR_BEGIN: a new transaction has no record before it.
LEMMA RedoBeginTrxes ==
  ASSUME RecoveryTypeOK, LogOrdered(log), RedoBegin, RedoTrxes
  PROVE  /\ RedoTrxes'
         /\ \A i \in 1 .. pos : IsData(log[i]) => i \in 1 .. pos - 1 /\ (Kept(log[i].trx)' <=> Kept(log[i].trx))
         /\ \A y : RolledBack(log, y, pos) <=> RolledBack(log, y, pos - 1)
         /\ \A y : \A c \in 1 .. pos : CommittedAt(log, c, y) => c \in 1 .. pos - 1
         /\ \A y \in DOMAIN trxes : y \in DOMAIN trxes' /\ trxes'[y] = trxes[y]
         /\ current_trx_id <= current_trx_id'
  <1> DEFINE x == Record.trx
  <1>0. Redoing /\ Advance /\ Record.type = "MTR_BEGIN"
    BY DEF RedoBegin
  <1>1. /\ log' = log /\ pos' = pos + 1 /\ pos' - 1 = pos /\ pos - 1 \in Nat /\ pos = (pos - 1) + 1
        /\ \A i \in 1 .. pos : i \in 1 .. pos - 1 \/ i = pos
        /\ \A i \in 1 .. pos - 1 : i \in 1 .. pos
        /\ Record = log[pos] /\ pos - 1 \in 0 .. pos /\ pos \in Nat /\ pos \in 1 .. pos
        /\ 1 .. pos - 1 \subseteq DOMAIN log /\ x \in Int /\ \A i \in DOMAIN log : log[i] \in LogRecord
    BY <1>0, Advances, RecordFields
  <1>2. /\ DOMAIN trxes' = DOMAIN trxes \cup {x}
        /\ \A y \in DOMAIN trxes : trxes'[y] = trxes[y]
        /\ x \notin DOMAIN trxes => trxes'[x] = {}
    BY DEF RedoBegin
  <1>3. /\ current_trx_id \in Nat /\ current_trx_id' \in Int
        /\ current_trx_id <= current_trx_id' /\ x <= current_trx_id'
    BY <1>1 DEF RedoBegin, RecoveryTypeOK, TypeOK
  <1>4. \A y : ~Ends(log, pos, y)
    BY <1>0, <1>1 DEF Ends
  <1>5. \A y : /\ Ended(log, y, pos) <=> Ended(log, y, pos - 1)
               /\ RolledBack(log, y, pos) <=> RolledBack(log, y, pos - 1)
               /\ Committed(log, y, pos) <=> Committed(log, y, pos - 1)
               /\ \A c \in 1 .. pos : CommittedAt(log, c, y) => c \in 1 .. pos - 1
    <2> TAKE y
    <2>1. ~Ends(log, (pos - 1) + 1, y)
      BY <1>1, <1>4
    <2> QED
      BY <1>1, <2>1, FateStep
  <1>6. x \notin DOMAIN trxes => \A i \in 1 .. pos - 1 : IsData(log[i]) => log[i].trx /= x
    <2>1. pos <= Len(log)
      BY <1>0 DEF Redoing
    <2>2. x \notin DOMAIN trxes => ~Begun(log, x, pos - 1)
      BY <2>1 DEF RedoTrxes, Begun
    <2> QED
      BY <1>1, <2>2, NoEarlierData
  <1>7. \A y : y \in DOMAIN trxes \/ y /= x => (Kept(y)' <=> Kept(y))
    <2>1. \A y : Kept(y)' <=> Committed(log, y, pos) \/ (y \in DOMAIN trxes \cup {x} /\ ~Ended(log, y, pos))
      BY <1>1, <1>2 DEF Kept
    <2> QED
      BY <1>5, <2>1 DEF Kept
  <1>8. \A i \in 1 .. pos : IsData(log[i]) => i \in 1 .. pos - 1 /\ (Kept(log[i].trx)' <=> Kept(log[i].trx))
    <2>1. ~IsData(log[pos])
      BY <1>0, <1>1 DEF IsData
    <2> QED
      BY <1>1, <1>6, <1>7, <2>1
  <1>9. ASSUME NEW y \in DOMAIN trxes' PROVE Begun(log, y, pos) /\ OpsMatch(trxes'[y], log, y, pos)
    <2>1. CASE y \in DOMAIN trxes
      <3>1. Begun(log, y, pos - 1) /\ OpsMatch(trxes[y], log, y, pos - 1)
        BY <2>1 DEF RedoTrxes
      <3>2. log[(pos - 1) + 1].type = "MTR_BEGIN"
        BY <1>0, <1>1
      <3>3. OpsMatch(trxes[y], log, y, (pos - 1) + 1)
        BY <1>1, <3>1, <3>2, OpsOther
      <3>4. Begun(log, y, pos)
        BY <1>1, <3>1, Growing
      <3> QED
        BY <1>1, <1>2, <2>1, <3>3, <3>4
    <2>2. CASE y \notin DOMAIN trxes
      <3>1. y = x /\ trxes'[y] = {}
        BY <1>2, <2>2
      <3>2. \A i \in 1 .. pos : IsData(log[i]) => log[i].trx /= x
        BY <1>6, <1>8, <2>2, <3>1
      <3>3. OpsMatch({}, log, x, pos)
        BY <3>2 DEF OpsMatch
      <3>4. Begun(log, x, pos)
        BY <1>0, <1>1 DEF Begun
      <3> QED
        BY <3>1, <3>3, <3>4
    <2> QED
      BY <2>1, <2>2
  <1>10. \A i \in 1 .. pos : log[i].type = "MTR_BEGIN" =>
          log[i].trx <= current_trx_id' /\ log[i].trx \in DOMAIN trxes'
    <2>1. pos <= Len(log)
      BY <1>0 DEF Redoing
    <2>2. \A i \in 1 .. pos - 1 : log[i].type = "MTR_BEGIN" =>
            log[i].trx <= current_trx_id /\ log[i].trx \in DOMAIN trxes /\ log[i].trx \in Int
      BY <1>1, <2>1, RecordFields DEF RedoTrxes
    <2> QED
      BY <1>1, <1>2, <1>3, <2>2
  <1>11. RedoTrxes'
    BY <1>1, <1>9, <1>10 DEF RedoTrxes
  <1> QED
    BY <1>2, <1>3, <1>5, <1>8, <1>11

\* The records of a table, and the marks that redo may put on them.
LEMMA RowFields ==
  ASSUME RecoveryTypeOK, NEW r \in Rids, rows[r] /= NoRow
  PROVE  rows[r] \in Row /\ rows[r].begin \in Int /\ rows[r].end \in Int
  BY DEF RecoveryTypeOK, TypeOK, Row

\* The ids that recover() keeps are drawn.
LEMMA RedoIds ==
  ASSUME RecoveryTypeOK, RedoTrxes, NEW x \in DOMAIN trxes
  PROVE  x \in Nat /\ x <= current_trx_id
  <1>1. Begun(log, x, pos - 1) /\ x \in Nat
    BY DEF RedoTrxes, RecoveryTypeOK
  <1> QED
    BY <1>1 DEF RedoTrxes, Begun

\* A redone insertion.
LEMMA RedoInsertInv ==
  ASSUME RecoveryTypeOK, LogOrdered(log), RedoInsert, RedoTrxes, MarksDrawn, RedoEnds
  PROVE  RedoTrxes' /\ MarksDrawn' /\ RedoEnds'
  <1> DEFINE x == Record.trx
             r == Record.rid
             new == [begin |-> -x, end |-> MaxTrxId, key |-> Record.key]
  <1>0. /\ Redoing /\ Advance /\ Known /\ IsData(Record) /\ Record.type = "INSERT"
        /\ current_trx_id' = current_trx_id /\ rows' = [rows EXCEPT ![r] = new]
        /\ trxes' = [trxes EXCEPT ![Record.trx] = AddOperation(@, Record.type, Record.rid)]
    BY DEF RedoInsert, IsData
  <1>1. /\ RedoTrxes' /\ DOMAIN trxes' = DOMAIN trxes
        /\ \A y \in DOMAIN trxes : trxes[y] \subseteq trxes'[y]
    BY <1>0, RedoDataTrxes
  <1>2. log' = log /\ Record \in LogRecord /\ r \in Rids
    BY <1>0, Advances, RecordFields
  <1>3. x \in Nat /\ x <= current_trx_id /\ current_trx_id \in Nat /\ MaxTrxId \in Nat /\ MaxTrxId > 0
    BY <1>0, RedoIds, ConstantsAssumption DEF Known, RecoveryTypeOK, TypeOK
  <1>4. /\ rows'[r] = new /\ new.begin = -x /\ new.end = MaxTrxId
        /\ \A q \in Rids : q /= r => rows'[q] = rows[q]
    BY <1>0, <1>2 DEF RecoveryTypeOK, TypeOK
  <1> HIDE DEF x, r, new
  <1>5. MarksDrawn'
    BY <1>0, <1>3, <1>4 DEF MarksDrawn
  <1>6. RedoEnds'
    <2> SUFFICES ASSUME NEW q \in Rids, rows'[q] /= NoRow
                 PROVE  \/ rows'[q].end > 0
                        \/ \E y \in DOMAIN trxes' : [type |-> "DELETE", rid |-> q] \in trxes'[y]
                        \/ OwnDeletion(q)'
      BY DEF RedoEnds
    <2>1. CASE q = r
      BY <1>3, <1>4, <2>1
    <2>2. CASE q /= r
      <3>1. rows'[q] = rows[q]
        BY <1>4, <2>2
      <3>2. OwnDeletion(q)' <=> OwnDeletion(q)
        BY <1>2 DEF OwnDeletion, OwnRecord
      <3> QED
        BY <1>1, <3>1, <3>2 DEF RedoEnds
    <2> QED
      BY <2>1, <2>2
  <1> QED
    BY <1>1, <1>5, <1>6

\* A redone deletion.
LEMMA RedoDeleteInv ==
  ASSUME RecoveryTypeOK, LogOrdered(log), RedoDelete, RedoTrxes, MarksDrawn, RedoEnds
  PROVE  /\ RedoTrxes' /\ MarksDrawn' /\ RedoEnds' /\ Record.rid \in Rids
         /\ \A q \in Rids : q /= Record.rid => rows'[q] = rows[q]
         /\ rows[Record.rid] = NoRow => rows'[Record.rid] = NoRow
         /\ rows[Record.rid] /= NoRow => /\ rows'[Record.rid] /= NoRow
                                         /\ rows'[Record.rid].begin = rows[Record.rid].begin
                                         /\ rows'[Record.rid].key = rows[Record.rid].key
  <1> DEFINE x == Record.trx
             r == Record.rid
  <1>0. /\ Redoing /\ Advance /\ Known /\ IsData(Record) /\ Record.type = "DELETE"
        /\ current_trx_id' = current_trx_id
        /\ rows' = IF rows[r] = NoRow THEN rows ELSE [rows EXCEPT ![r].end = -x]
        /\ trxes' = [trxes EXCEPT ![Record.trx] = AddOperation(@, Record.type, Record.rid)]
    BY DEF RedoDelete, IsData
  <1>1. /\ RedoTrxes' /\ DOMAIN trxes' = DOMAIN trxes
        /\ \A y \in DOMAIN trxes : trxes[y] \subseteq trxes'[y]
    BY <1>0, RedoDataTrxes
  <1>2. /\ log' = log /\ Record \in LogRecord /\ r \in Rids /\ log[pos] = Record /\ pos \in DOMAIN log
        /\ \A i \in 1 .. pos - 1 : i \in DOMAIN log
    BY <1>0, Advances, RecordFields
  <1>3. x \in Nat /\ x <= current_trx_id /\ current_trx_id \in Nat /\ -x \in Int
    BY <1>0, RedoIds DEF Known, RecoveryTypeOK, TypeOK
  <1>4. \A q \in Rids : q /= r => rows'[q] = rows[q]
    BY <1>0, <1>2 DEF RecoveryTypeOK, TypeOK
  <1>5. /\ rows[r] = NoRow => rows'[r] = NoRow
        /\ rows[r] /= NoRow => rows'[r] = [rows[r] EXCEPT !.end = -x]
    BY <1>0, <1>2 DEF RecoveryTypeOK, TypeOK
  <1>6. rows[r] /= NoRow => /\ rows'[r] /= NoRow /\ rows'[r].begin = rows[r].begin
                            /\ rows'[r].end = -x /\ rows'[r].key = rows[r].key
    <2> SUFFICES ASSUME rows[r] /= NoRow
                 PROVE  /\ rows'[r] /= NoRow /\ rows'[r].begin = rows[r].begin
                        /\ rows'[r].end = -x /\ rows'[r].key = rows[r].key
      OBVIOUS
    <2>1. rows[r] \in Row
      BY <1>2, RowFields
    <2> HIDE DEF x, r
    <2> QED
      BY <1>3, <1>5, <2>1, SetEnd
  <1>7. \E y \in DOMAIN trxes' : [type |-> "DELETE", rid |-> r] \in trxes'[y] \/ OwnDeletion(r)
    <2>1. x \in DOMAIN trxes /\ trxes'[x] = AddOperation(trxes[x], "DELETE", r)
      BY <1>0 DEF Known, RecoveryTypeOK
    <2>2. CASE ~\E op \in trxes[x] : op.rid = r
      BY <1>1, <2>1, <2>2 DEF AddOperation
    <2>3. CASE \E op \in trxes[x] : op.rid = r
      <3>1. PICK op \in trxes[x] : op.rid = r
        BY <2>3
      <3>2. op \in Operation /\ trxes[x] \subseteq trxes'[x]
        BY <1>1, <2>1 DEF RecoveryTypeOK
      <3>3. op.type \in {"INSERT", "DELETE"} /\ op = [type |-> op.type, rid |-> r]
        BY <3>1, <3>2 DEF Operation
      <3>4. CASE op.type = "DELETE"
        BY <1>1, <2>1, <3>1, <3>2, <3>3, <3>4
      <3>5. CASE op.type = "INSERT"
        <4>1. PICK i \in 1 .. pos - 1 : log[i].trx = x /\ log[i].type = op.type /\ log[i].rid = op.rid
          BY <2>1, <3>1 DEF RedoTrxes, OpsMatch
        <4>2. OwnRecord(log, pos)
          BY <1>2, <3>1, <3>5, <4>1 DEF OwnRecord
        <4>3. OwnDeletion(r)
          BY <1>0, <1>2, <4>2 DEF OwnDeletion
        <4> QED
          BY <1>1, <2>1, <4>3
      <3> QED
        BY <3>3, <3>4, <3>5
    <2> QED
      BY <2>2, <2>3
  <1> HIDE DEF x
  <1>8. MarksDrawn'
    <2> SUFFICES ASSUME NEW q \in Rids, rows'[q] /= NoRow
                 PROVE  -rows'[q].begin <= current_trx_id' /\ -rows'[q].end <= current_trx_id'
      BY DEF MarksDrawn
    <2>1. CASE q = r
      BY <1>0, <1>3, <1>5, <1>6, <2>1, RowFields DEF MarksDrawn
    <2>2. CASE q /= r
      BY <1>0, <1>4, <2>2 DEF MarksDrawn
    <2> QED
      BY <2>1, <2>2
  <1>9. RedoEnds'
    <2> SUFFICES ASSUME NEW q \in Rids, rows'[q] /= NoRow
                 PROVE  \/ rows'[q].end > 0
                        \/ \E y \in DOMAIN trxes' : [type |-> "DELETE", rid |-> q] \in trxes'[y]
                        \/ OwnDeletion(q)'
      BY DEF RedoEnds
    <2>1. OwnDeletion(q)' <=> OwnDeletion(q)
      BY <1>2 DEF OwnDeletion, OwnRecord
    <2>2. CASE q = r
      BY <1>7, <2>1, <2>2
    <2>3. CASE q /= r
      <3>1. rows'[q] = rows[q]
        BY <1>4, <2>3
      <3> QED
        BY <1>1, <2>1, <3>1 DEF RedoEnds
    <2> QED
      BY <2>2, <2>3
  <1> QED
    BY <1>1, <1>2, <1>4, <1>5, <1>6, <1>8, <1>9

\* A redone commit.
LEMMA RedoCommitInv ==
  ASSUME RecoveryTypeOK, LogOrdered(log), RedoCommit, RedoTrxes, MarksDrawn, RedoEnds
  PROVE  RedoTrxes' /\ MarksDrawn' /\ RedoEnds'
  <1> DEFINE x == Record.trx
             ops == trxes[Record.trx]
             ins(r) == [type |-> "INSERT", rid |-> r] \in ops
             del(r) == [type |-> "DELETE", rid |-> r] \in ops
  <1>0. /\ Redoing /\ Advance /\ Known /\ Record.type = "MTR_COMMIT" /\ current_trx_id' = current_trx_id
        /\ trxes' = [trxes EXCEPT ![Record.trx] = {}]
    BY DEF RedoCommit
  <1>1. /\ RedoTrxes' /\ DOMAIN trxes' = DOMAIN trxes
        /\ \A y \in DOMAIN trxes : y /= x => trxes'[y] = trxes[y]
        /\ OpsMatch(ops, log, x, pos - 1)
    BY <1>0, RedoEndTrxes
  <1>2. /\ log' = log /\ Record \in LogRecord /\ log[pos] = Record /\ pos \in DOMAIN log
        /\ \A i \in 1 .. pos - 1 : i \in DOMAIN log
        /\ RecordOK(log, pos) /\ Record.xid \in Int
    BY <1>0, Advances, RecordFields
  <1>3. Record.xid > 0
    BY <1>0, <1>2 DEF RecordOK
  <1>4. ASSUME NEW q \in Rids, rows'[q] /= NoRow
        PROVE  /\ rows[q] /= NoRow
               /\ rows'[q].begin = IF ins(q) THEN Record.xid ELSE rows[q].begin
               /\ rows'[q].end = IF del(q) /\ ~ins(q) THEN Record.xid ELSE rows[q].end
    BY <1>4, CommitRows
  <1>5. MarksDrawn'
    <2> SUFFICES ASSUME NEW q \in Rids, rows'[q] /= NoRow
                 PROVE  -rows'[q].begin <= current_trx_id' /\ -rows'[q].end <= current_trx_id'
      BY DEF MarksDrawn
    <2>1. current_trx_id \in Nat /\ rows[q].begin \in Int /\ rows[q].end \in Int
      BY <1>4, RowFields DEF RecoveryTypeOK, TypeOK
    <2>2. -rows[q].begin <= current_trx_id /\ -rows[q].end <= current_trx_id
      BY <1>4 DEF MarksDrawn
    <2> HIDE DEF ins, del
    <2> QED
      BY <1>0, <1>2, <1>3, <1>4, <2>1, <2>2
  <1>6. \A q : ins(q) /\ del(q) => OwnDeletion(q)
    <2> SUFFICES ASSUME NEW q, ins(q), del(q) PROVE OwnDeletion(q)
      OBVIOUS
    <2>1. PICK i \in 1 .. pos - 1 : log[i].trx = x /\ log[i].type = "INSERT" /\ log[i].rid = q
      BY <1>1 DEF OpsMatch
    <2>2. PICK d \in 1 .. pos - 1 : log[d].trx = x /\ log[d].type = "DELETE" /\ log[d].rid = q
      BY <1>1 DEF OpsMatch
    <2> QED
      BY <1>2, <2>1, <2>2 DEF OwnDeletion, OwnRecord
  <1>7. RedoEnds'
    <2> SUFFICES ASSUME NEW q \in Rids, rows'[q] /= NoRow
                 PROVE  \/ rows'[q].end > 0
                        \/ \E y \in DOMAIN trxes' : [type |-> "DELETE", rid |-> q] \in trxes'[y]
                        \/ OwnDeletion(q)'
      BY DEF RedoEnds
    <2>1. OwnDeletion(q)' <=> OwnDeletion(q)
      BY <1>2 DEF OwnDeletion, OwnRecord
    <2>2. CASE del(q)
      BY <1>3, <1>4, <1>6, <2>1, <2>2
    <2>3. CASE ~del(q)
      <3>1. rows'[q].end = rows[q].end /\ rows[q] /= NoRow
        BY <1>4, <2>3
      <3>2. \A y \in DOMAIN trxes : [type |-> "DELETE", rid |-> q] \in trxes[y] => y /= x
        BY <2>3
      <3> QED
        BY <1>1, <2>1, <3>1, <3>2 DEF RedoEnds
    <2> QED
      BY <2>2, <2>3
  <1> QED
    BY <1>1, <1>5, <1>7

\* Undoing a transaction puts no mark on a record.
LEMMA UndoInv ==
  ASSUME RecoveryTypeOK, MarksDrawn, RedoEnds, NEW x \in DOMAIN trxes, Undo(trxes[x]),
         log' = log, current_trx_id' = current_trx_id,
         \A y \in DOMAIN trxes : y /= x => y \in DOMAIN trxes' /\ trxes'[y] = trxes[y]
  PROVE  MarksDrawn' /\ RedoEnds'
  <1> DEFINE ops == trxes[x]
  <1>0. /\ MaxTrxId \in Nat /\ MaxTrxId > 0 /\ MaxTrxId \in Int /\ current_trx_id \in Nat
    BY ConstantsAssumption DEF RecoveryTypeOK, TypeOK
  <1>1. ASSUME NEW q \in Rids, rows'[q] /= NoRow
        PROVE  /\ rows[q] /= NoRow /\ rows'[q].begin = rows[q].begin
               /\ rows'[q].end \in {rows[q].end, MaxTrxId}
               /\ [type |-> "DELETE", rid |-> q] \in ops => rows'[q].end = MaxTrxId
    <2>1. /\ rows[q] /= NoRow /\ rows'[q].begin = rows[q].begin
          /\ rows'[q].end \in {rows[q].end, MaxTrxId} /\ ~UndoneRecord(q, ops)
      BY <1>1, UndoRows
    <2>2. ASSUME [type |-> "DELETE", rid |-> q] \in ops PROVE rows'[q].end = MaxTrxId
      <3>1. rows'[q] = [rows[q] EXCEPT !.end = MaxTrxId] /\ rows[q] \in Row
        BY <2>1, <2>2, UndoRows, RowFields
      <3> QED
        BY <1>0, <3>1, SetEnd
    <2> QED
      BY <2>1, <2>2
  <1>2. MarksDrawn'
    <2> SUFFICES ASSUME NEW q \in Rids, rows'[q] /= NoRow
                 PROVE  -rows'[q].begin <= current_trx_id' /\ -rows'[q].end <= current_trx_id'
      BY DEF MarksDrawn
    <2>1. rows[q] /= NoRow /\ rows'[q].begin = rows[q].begin /\ rows'[q].end \in {rows[q].end, MaxTrxId}
      BY <1>1
    <2>2. -rows[q].begin <= current_trx_id /\ -rows[q].end <= current_trx_id
      BY <2>1 DEF MarksDrawn
    <2> QED
      BY <1>0, <2>1, <2>2
  <1>3. RedoEnds'
    <2> SUFFICES ASSUME NEW q \in Rids, rows'[q] /= NoRow
                 PROVE  \/ rows'[q].end > 0
                        \/ \E y \in DOMAIN trxes' : [type |-> "DELETE", rid |-> q] \in trxes'[y]
                        \/ OwnDeletion(q)'
      BY DEF RedoEnds
    <2>1. OwnDeletion(q)' <=> OwnDeletion(q)
      BY DEF OwnDeletion, OwnRecord
    <2>2. CASE rows'[q].end = MaxTrxId
      BY <1>0, <2>2
    <2>3. CASE rows'[q].end /= MaxTrxId
      <3>1. rows[q] /= NoRow /\ rows'[q].end = rows[q].end /\ [type |-> "DELETE", rid |-> q] \notin ops
        BY <1>1, <2>3
      <3> QED
        BY <2>1, <3>1 DEF RedoEnds
    <2> QED
      BY <2>2, <2>3
  <1> QED
    BY <1>2, <1>3

\* A record that the transaction did not insert stays, with its index entry.
LEMMA UndoKeeps ==
  ASSUME RecoveryTypeOK, NEW ops, Undo(ops), NEW r \in Rids, [type |-> "INSERT", rid |-> r] \notin ops
  PROVE  /\ rows[r] /= NoRow => /\ rows'[r] /= NoRow /\ rows'[r].begin = rows[r].begin
                                /\ rows'[r].key = rows[r].key
         /\ [type |-> "DELETE", rid |-> r] \notin ops => rows'[r] = rows[r]
         /\ \A k : <<k, r>> \in index => <<k, r>> \in index'
  <1>1. ~UndoneRecord(r, ops)
    BY DEF UndoneRecord
  <1>2. [type |-> "DELETE", rid |-> r] \notin ops => rows'[r] = rows[r]
    BY <1>1, UndoRows
  <1>3. ASSUME rows[r] /= NoRow
        PROVE  rows'[r] /= NoRow /\ rows'[r].begin = rows[r].begin /\ rows'[r].key = rows[r].key
    <2>1. CASE [type |-> "DELETE", rid |-> r] \in ops
      <3>1. rows'[r] = [rows[r] EXCEPT !.end = MaxTrxId] /\ rows[r] \in Row /\ MaxTrxId \in Int
        BY <1>1, <1>3, <2>1, UndoRows, RowFields, ConstantsAssumption
      <3> QED
        BY <3>1, SetEnd
    <2>2. CASE [type |-> "DELETE", rid |-> r] \notin ops
      BY <1>2, <1>3, <2>2
    <2> QED
      BY <2>1, <2>2
  <1>4. \A k : <<k, r>> \in index => <<k, r>> \in index'
    BY <1>1 DEF Undo
  <1> QED
    BY <1>2, <1>3, <1>4

\* Undo of the operation set of x: what the other transactions left stays, and
\* nothing of x does.
LEMMA UndoTable ==
  ASSUME RecoveryTypeOK, LogOrdered(log), NEW x \in DOMAIN trxes, Undo(trxes[x]), log' = log,
         RedoTrxes, RedoTable, CommittedRows(pos - 1), ~SlotReused(log, pos - 1), pos - 1 \in Nat,
         1 .. pos - 1 \subseteq DOMAIN log, pos' - 1 \in Nat,
         \A i \in 1 .. pos - 1 : i \in 1 .. pos' - 1,
         \A i \in 1 .. pos' - 1 : i \in 1 .. pos - 1 \/ ~IsData(log[i]),
         \A y : y /= x \/ Ended(log, x, pos - 1) => (Kept(y)' <=> Kept(y)),
         ~Ended(log, x, pos - 1) => ~Kept(x)',
         \A y : \A c \in 1 .. pos' - 1 : CommittedAt(log, c, y) => c \in 1 .. pos - 1
  PROVE  RedoTable' /\ CommittedRows(pos - 1)'
  <1> DEFINE ops == trxes[x]
  <1>1. /\ OpsMatch(ops, log, x, pos - 1) /\ (Ended(log, x, pos - 1) => ops = {})
    BY DEF RedoTrxes, OpsMatch
  <1>2. \A i \in DOMAIN log : log[i] \in LogRecord
    BY ElementOfSeq DEF RecoveryTypeOK
  <1>3. ASSUME NEW i \in 1 .. pos - 1, IsData(log[i]),
               log[i].trx /= x \/ Ended(log, x, pos - 1), ~RolledBack(log, log[i].trx, pos - 1)
        PROVE  log[i].type = "INSERT" => [type |-> "INSERT", rid |-> log[i].rid] \notin ops
    BY <1>1, <1>3, ForeignInsert
  <1>4. ASSUME NEW i \in 1 .. pos - 1, log[i].type = "INSERT", Kept(log[i].trx)'
        PROVE  /\ Kept(log[i].trx) /\ log[i].rid \in Rids
               /\ [type |-> "INSERT", rid |-> log[i].rid] \notin ops
    <2>1. log[i].trx /= x \/ Ended(log, x, pos - 1)
      BY <1>4
    <2>2. Kept(log[i].trx)
      BY <1>4, <2>1
    <2>3. ~RolledBack(log, log[i].trx, pos - 1)
      BY <2>2, KeptFate
    <2>4. log[i].rid \in Rids /\ IsData(log[i])
      BY <1>2, <1>4, RecordFields DEF IsData
    <2> QED
      BY <1>3, <1>4, <2>1, <2>2, <2>3, <2>4
  <1>5. ASSUME NEW i \in 1 .. pos' - 1, log[i].type = "INSERT" PROVE i \in 1 .. pos - 1
    BY <1>5 DEF IsData
  <1>6. ASSUME NEW i \in 1 .. pos' - 1, log[i].type = "INSERT", Kept(log[i].trx)'
        PROVE  /\ rows'[log[i].rid] /= NoRow /\ rows'[log[i].rid].key = log[i].key
               /\ <<log[i].key, log[i].rid>> \in index'
    <2>1. i \in 1 .. pos - 1
      BY <1>5, <1>6
    <2>2. Kept(log[i].trx) /\ log[i].rid \in Rids /\ [type |-> "INSERT", rid |-> log[i].rid] \notin ops
      BY <1>4, <1>6, <2>1
    <2>3. /\ rows[log[i].rid] /= NoRow /\ rows[log[i].rid].key = log[i].key
          /\ <<log[i].key, log[i].rid>> \in index
      BY <1>6, <2>1, <2>2 DEF RedoTable
    <2> QED
      BY <2>2, <2>3, UndoKeeps
  \* An insertion of x itself is undone.
  <1>7. ASSUME NEW i \in 1 .. pos - 1, log[i].type = "INSERT", Kept(log[i].trx), ~Kept(log[i].trx)'
        PROVE  log[i].rid \in Rids /\ rows[log[i].rid].key = log[i].key /\ UndoneRecord(log[i].rid, ops)
    <2>1. log[i].trx = x /\ ~Ended(log, x, pos - 1)
      BY <1>7
    <2>2. [type |-> "INSERT", rid |-> log[i].rid] \in ops
      BY <1>1, <1>7, <2>1, InsertInOps
    <2>3. log[i].rid \in Rids
      BY <1>2, <1>7, RecordFields
    <2>4. /\ rows[log[i].rid] /= NoRow /\ rows[log[i].rid].key = log[i].key
          /\ <<log[i].key, log[i].rid>> \in index
      BY <1>7 DEF RedoTable
    <2> QED
      BY <2>2, <2>3, <2>4 DEF UndoneRecord
  <1>8. ASSUME NEW e \in index'
        PROVE  \E i \in 1 .. pos' - 1 : Holds(i, e[2])' /\ log[i].key = e[1]
    <2>1. e \in index /\ \A q \in Rids : UndoneRecord(q, ops) => e /= <<rows[q].key, q>>
      BY DEF Undo
    <2>2. PICK i \in 1 .. pos - 1 : Holds(i, e[2]) /\ log[i].key = e[1]
      BY <2>1 DEF RedoTable
    <2>3. log[i].type = "INSERT" /\ log[i].rid = e[2] /\ Kept(log[i].trx)
      BY <2>2 DEF Holds
    <2>4. e = <<e[1], e[2]>>
      BY <2>1 DEF RecoveryTypeOK, TypeOK
    <2>5. Kept(log[i].trx)'
      BY <1>7, <2>1, <2>2, <2>3, <2>4
    <2>6. Holds(i, e[2])'
      BY <2>3, <2>5 DEF Holds
    <2> QED
      BY <2>2, <2>6
  <1>9. ASSUME NEW r \in Rids, rows'[r] /= NoRow PROVE \E i \in 1 .. pos' - 1 : Holds(i, r)'
    <2>1. rows[r] /= NoRow /\ ~UndoneRecord(r, ops)
      BY <1>9, UndoRows
    <2>2. PICK i \in 1 .. pos - 1 : Holds(i, r)
      BY <2>1 DEF RedoTable
    <2>3. log[i].type = "INSERT" /\ log[i].rid = r /\ Kept(log[i].trx)
      BY <2>2 DEF Holds
    <2>4. Kept(log[i].trx)'
      BY <1>7, <2>1, <2>3
    <2> QED
      BY <2>3, <2>4 DEF Holds
  <1>10. RedoTable'
    BY <1>6, <1>8, <1>9 DEF RedoTable
  <1>11. ASSUME NEW c \in 1 .. pos - 1, NEW i \in 1 .. pos - 1, CommittedAt(log, c, log[i].trx)
         PROVE  /\ log[i].type = "INSERT" => /\ rows'[log[i].rid] /= NoRow
                                             /\ rows'[log[i].rid].begin = log[c].xid
                                             /\ rows'[log[i].rid].key = log[i].key
                /\ log[i].type = "DELETE" /\ ~OwnRecord(log, i) /\ OnlyDeletion(log, i) =>
                     rows'[log[i].rid] = NoRow \/ rows'[log[i].rid].end = log[c].xid
    <2>1. Committed(log, log[i].trx, pos - 1)
      BY <1>11 DEF Committed
    <2>2. Ended(log, log[i].trx, pos - 1) /\ ~RolledBack(log, log[i].trx, pos - 1)
      BY <2>1, OneFate
    <2>3. log[i].trx /= x \/ ops = {}
      BY <1>1, <2>2
    <2>4. ASSUME log[i].type = "INSERT"
          PROVE  /\ rows'[log[i].rid] /= NoRow /\ rows'[log[i].rid].begin = log[c].xid
                 /\ rows'[log[i].rid].key = log[i].key
      <3>1. [type |-> "INSERT", rid |-> log[i].rid] \notin ops /\ log[i].rid \in Rids
        BY <1>2, <1>3, <2>2, <2>3, <2>4, RecordFields DEF IsData
      <3>2. /\ rows[log[i].rid] /= NoRow /\ rows[log[i].rid].begin = log[c].xid
            /\ rows[log[i].rid].key = log[i].key
        BY <1>11, <2>4 DEF CommittedRows
      <3> QED
        BY <3>1, <3>2, UndoKeeps
    <2>5. ASSUME log[i].type = "DELETE", ~OwnRecord(log, i), OnlyDeletion(log, i)
          PROVE  rows'[log[i].rid] = NoRow \/ rows'[log[i].rid].end = log[c].xid
      <3>1. [type |-> "DELETE", rid |-> log[i].rid] \notin ops /\ log[i].rid \in Rids
        BY <1>1, <1>2, <2>3, <2>5, RecordFields, ForeignDelete
      <3>2. rows[log[i].rid] = NoRow \/ rows[log[i].rid].end = log[c].xid
        BY <1>11, <2>5 DEF CommittedRows
      <3>3. UndoneRecord(log[i].rid, ops) => rows'[log[i].rid] = NoRow
        BY <3>1, UndoRows
      <3>4. ~UndoneRecord(log[i].rid, ops) => rows'[log[i].rid] = rows[log[i].rid]
        BY <3>1, UndoRows
      <3> QED
        BY <3>2, <3>3, <3>4
    <2> QED
      BY <2>4, <2>5
  <1>12. CommittedRows(pos - 1)'
    <2> SUFFICES ASSUME NEW c \in 1 .. pos' - 1, NEW i \in 1 .. pos' - 1, CommittedAt(log, c, log[i].trx)
                 PROVE  /\ log[i].type = "INSERT" => /\ rows'[log[i].rid] /= NoRow
                                                     /\ rows'[log[i].rid].begin = log[c].xid
                                                     /\ rows'[log[i].rid].key = log[i].key
                        /\ log[i].type = "DELETE" /\ ~OwnRecord(log, i) /\ OnlyDeletion(log, i) =>
                             rows'[log[i].rid] = NoRow \/ rows'[log[i].rid].end = log[c].xid
      BY DEF CommittedRows
    <2>1. c \in 1 .. pos - 1
      OBVIOUS
    <2>2. CASE i \in 1 .. pos - 1
      BY <1>11, <2>1, <2>2
    <2>3. CASE i \notin 1 .. pos - 1
      BY <2>3 DEF IsData
    <2> QED
      BY <2>2, <2>3
  <1> QED
    BY <1>10, <1>12

\* A redone BEGIN changes no record.
LEMMA RedoBeginInv ==
  ASSUME RecoveryTypeOK, RecoveryTypeOK', LogOrdered(log), RedoBegin, RedoTrxes, MarksDrawn, RedoEnds, RedoRows
  PROVE  RedoTrxes' /\ MarksDrawn' /\ RedoEnds' /\ RedoRows'
  <1>0. /\ Redoing /\ Advance /\ rows' = rows /\ index' = index /\ mode = "redo"
        /\ current_trx_id \in Nat /\ current_trx_id' \in Nat
    BY DEF RedoBegin, Redoing, tableVars, RecoveryTypeOK, TypeOK
  <1>1. /\ RedoTrxes'
        /\ \A i \in 1 .. pos : IsData(log[i]) =>
             i \in 1 .. pos - 1 /\ (Kept(log[i].trx)' <=> Kept(log[i].trx))
        /\ \A y : \A c \in 1 .. pos : CommittedAt(log, c, y) => c \in 1 .. pos - 1
        /\ \A y \in DOMAIN trxes : y \in DOMAIN trxes' /\ trxes'[y] = trxes[y]
        /\ current_trx_id <= current_trx_id'
    BY RedoBeginTrxes
  <1>2. /\ log' = log /\ pos' - 1 = pos /\ pos \in Nat /\ pos - 1 \in 0 .. pos
        /\ \A i \in 1 .. pos - 1 : i \in 1 .. pos
    BY <1>0, Advances
  <1>3. MarksDrawn'
    <2> SUFFICES ASSUME NEW q \in Rids, rows[q] /= NoRow
                 PROVE  -rows[q].begin <= current_trx_id' /\ -rows[q].end <= current_trx_id'
      BY <1>0 DEF MarksDrawn
    <2>1. rows[q].begin \in Int /\ rows[q].end \in Int
      BY RowFields
    <2>2. -rows[q].begin <= current_trx_id /\ -rows[q].end <= current_trx_id
      BY DEF MarksDrawn
    <2> QED
      BY <1>0, <1>1, <2>1, <2>2
  <1>4. RedoEnds'
    <2> SUFFICES ASSUME NEW q \in Rids, rows[q] /= NoRow
                 PROVE  \/ rows[q].end > 0
                        \/ \E y \in DOMAIN trxes' : [type |-> "DELETE", rid |-> q] \in trxes'[y]
                        \/ OwnDeletion(q)'
      BY <1>0 DEF RedoEnds
    <2>1. OwnDeletion(q)' <=> OwnDeletion(q)
      BY <1>2 DEF OwnDeletion, OwnRecord
    <2> QED
      BY <1>1, <2>1 DEF RedoEnds
  <1>5. ASSUME ~SlotReused(log, pos) PROVE RedoTable' /\ CommittedRows(pos - 1)'
    <2>1. ~SlotReused(log, pos - 1)
      BY <1>2, <1>5, Growing
    <2>2. RedoTable /\ CommittedRows(pos - 1)
      BY <1>0, <2>1 DEF RedoRows
    <2>3. \A i \in 1 .. pos : log[i].type = "INSERT" =>
            i \in 1 .. pos - 1 /\ (Kept(log[i].trx)' <=> Kept(log[i].trx))
      BY <1>1 DEF IsData
    <2>4. \A r : \A i \in 1 .. pos - 1 : Holds(i, r)' <=> Holds(i, r)
      BY <1>2, <2>3 DEF Holds
    <2>5. RedoTable'
      BY <1>0, <1>2, <2>2, <2>3, <2>4 DEF RedoTable
    <2>6. CommittedRows(pos - 1)'
      <3> SUFFICES ASSUME NEW c \in 1 .. pos, NEW i \in 1 .. pos, CommittedAt(log, c, log[i].trx)
                   PROVE  /\ log[i].type = "INSERT" => /\ rows[log[i].rid] /= NoRow
                                                       /\ rows[log[i].rid].begin = log[c].xid
                                                       /\ rows[log[i].rid].key = log[i].key
                          /\ log[i].type = "DELETE" /\ ~OwnRecord(log, i) /\ OnlyDeletion(log, i) =>
                               rows[log[i].rid] = NoRow \/ rows[log[i].rid].end = log[c].xid
        BY <1>0, <1>2 DEF CommittedRows
      <3>1. c \in 1 .. pos - 1 /\ (IsData(log[i]) => i \in 1 .. pos - 1)
        BY <1>1
      <3> QED
        BY <2>2, <3>1 DEF CommittedRows, IsData
    <2> QED
      BY <2>5, <2>6
  <1>6. RedoRows'
    BY <1>2, <1>5 DEF RedoRows
  <1> QED
    BY <1>1, <1>3, <1>4, <1>6

\* Redoing an insertion: its slot belongs to no record that stands.
LEMMA RedoInsertRows ==
  ASSUME RecoveryTypeOK, LogOrdered(log), RedoInsert, RedoTrxes, RedoRows
  PROVE  RedoRows'
  <1> DEFINE x == Record.trx
             r == Record.rid
             k == Record.key
             new == [begin |-> -x, end |-> MaxTrxId, key |-> k]
  <1>0. /\ Redoing /\ Advance /\ Known /\ IsData(Record) /\ Record.type = "INSERT" /\ mode = "redo"
        /\ current_trx_id' = current_trx_id /\ rows' = [rows EXCEPT ![r] = new]
        /\ index' = index \cup {<<k, r>>}
        /\ trxes' = [trxes EXCEPT ![Record.trx] = AddOperation(@, Record.type, Record.rid)]
    BY DEF RedoInsert, IsData, Redoing
  <1>1. /\ ~Ended(log, x, pos - 1) /\ Kept(x)
        /\ \A y : Kept(y)' <=> Kept(y)
        /\ \A y : Ended(log, y, pos) <=> Ended(log, y, pos - 1)
        /\ \A y : RolledBack(log, y, pos) <=> RolledBack(log, y, pos - 1)
    BY <1>0, RedoDataTrxes
  <1>2. /\ log' = log /\ pos' - 1 = pos /\ pos \in Nat /\ pos - 1 \in 0 .. pos /\ pos - 1 \in Nat
        /\ pos = (pos - 1) + 1
        /\ \A i \in 1 .. pos : i \in 1 .. pos - 1 \/ i = pos
        /\ \A i \in 1 .. pos - 1 : i \in 1 .. pos /\ i \in DOMAIN log /\ i < pos
        /\ Record = log[pos] /\ pos \in 1 .. pos /\ Record \in LogRecord
        /\ \A i \in DOMAIN log : log[i] \in LogRecord
    BY <1>0, Advances
  <1>3. r \in Rids /\ k \in Keys /\ -x \in Int
    BY <1>0, <1>2, RecordFields
  <1>4. rows'[r] = new /\ \A q \in Rids : q /= r => rows'[q] = rows[q]
    BY <1>0, <1>3 DEF RecoveryTypeOK, TypeOK
  <1>5. new.key = k /\ new /= NoRow
    BY <1>3, NewRowType, NoRowAssumption
  <1>6. \A y : ~Ends(log, pos, y)
    BY <1>0, <1>2 DEF Ends
  <1> SUFFICES ASSUME ~SlotReused(log, pos) PROVE RedoTable' /\ CommittedRows(pos - 1)'
    BY <1>2 DEF RedoRows
  <1>7. RedoTable /\ CommittedRows(pos - 1)
    <2>1. ~SlotReused(log, pos - 1)
      BY <1>2, Growing
    <2> QED
      BY <1>0, <2>1 DEF RedoRows
  <1>8. ASSUME NEW i \in 1 .. pos - 1, IsData(log[i]), ~RolledBack(log, log[i].trx, pos - 1)
        PROVE  log[i].rid /= r /\ log[i].rid \in Rids
    <2>1. log[i].rid \in Rids
      BY <1>2, <1>8, RecordFields DEF IsData
    <2>2. log[i].rid /= r
      <3> SUFFICES ASSUME log[i].rid = r PROVE FALSE
        OBVIOUS
      <3>1. ~RolledBack(log, log[i].trx, pos) /\ log[pos].type = "INSERT" /\ log[i].rid = log[pos].rid
        BY <1>0, <1>1, <1>2, <1>8
      <3> QED
        BY <1>2, <1>8, <3>1, EarlierClash
    <2> QED
      BY <2>1, <2>2
  <1> HIDE DEF x, r, k, new
  <1>9. ASSUME NEW i \in 1 .. pos, log[i].type = "INSERT", Kept(log[i].trx)
        PROVE  /\ rows'[log[i].rid] /= NoRow /\ rows'[log[i].rid].key = log[i].key
               /\ <<log[i].key, log[i].rid>> \in index'
    <2>1. CASE i = pos
      <3>1. log[i].rid = r /\ log[i].key = k
        BY <1>2, <2>1 DEF r, k
      <3> QED
        BY <1>0, <1>4, <1>5, <3>1
    <2>2. CASE i \in 1 .. pos - 1
      <3>1. log[i].rid /= r /\ log[i].rid \in Rids
        BY <1>2, <1>8, <1>9, <2>2, KeptFate DEF IsData
      <3>2. /\ rows[log[i].rid] /= NoRow /\ rows[log[i].rid].key = log[i].key
            /\ <<log[i].key, log[i].rid>> \in index
        BY <1>7, <1>9, <2>2 DEF RedoTable
      <3> QED
        BY <1>0, <1>4, <3>1, <3>2
    <2> QED
      BY <1>2, <2>1, <2>2
  <1>10. /\ \A i \in 1 .. pos : \A q : Holds(i, q)' <=> Holds(i, q)
         /\ Holds(pos, r) /\ log[pos].key = k
    BY <1>0, <1>1, <1>2 DEF Holds, x, r, k
  <1>11. ASSUME NEW e \in index' PROVE \E i \in 1 .. pos : Holds(i, e[2]) /\ log[i].key = e[1]
    <2>1. CASE e \in index
      BY <1>2, <1>7, <2>1 DEF RedoTable
    <2>2. CASE e = <<k, r>>
      BY <1>2, <1>10, <2>2
    <2> QED
      BY <1>0, <2>1, <2>2
  <1>12. ASSUME NEW q \in Rids, rows'[q] /= NoRow PROVE \E i \in 1 .. pos : Holds(i, q)
    <2>1. CASE q = r
      BY <1>2, <1>10, <2>1
    <2>2. CASE q /= r
      BY <1>2, <1>4, <1>7, <1>12, <2>2 DEF RedoTable
    <2> QED
      BY <2>1, <2>2
  <1>13. RedoTable'
    BY <1>1, <1>2, <1>9, <1>10, <1>11, <1>12 DEF RedoTable
  <1>14. CommittedRows(pos - 1)'
    <2> SUFFICES ASSUME NEW c \in 1 .. pos, NEW i \in 1 .. pos, CommittedAt(log, c, log[i].trx)
                 PROVE  /\ log[i].type = "INSERT" => /\ rows'[log[i].rid] /= NoRow
                                                     /\ rows'[log[i].rid].begin = log[c].xid
                                                     /\ rows'[log[i].rid].key = log[i].key
                        /\ log[i].type = "DELETE" /\ ~OwnRecord(log, i) /\ OnlyDeletion(log, i) =>
                             rows'[log[i].rid] = NoRow \/ rows'[log[i].rid].end = log[c].xid
      BY <1>2 DEF CommittedRows
    <2>1. c \in 1 .. pos - 1
      BY <1>2, <1>6, FateStep
    <2>2. Committed(log, log[i].trx, pos - 1)
      BY <2>1 DEF Committed
    <2>3. Ended(log, log[i].trx, pos - 1) /\ ~RolledBack(log, log[i].trx, pos - 1)
      BY <1>2, <2>2, OneFate
    <2>4. i \in 1 .. pos - 1
      BY <1>1, <1>2, <2>3 DEF x
    <2>5. IsData(log[i]) => rows'[log[i].rid] = rows[log[i].rid]
      BY <1>4, <1>8, <2>3, <2>4
    <2> QED
      BY <1>7, <2>1, <2>4, <2>5 DEF CommittedRows, IsData
  <1> QED
    BY <1>13, <1>14

\* Redoing a deletion: only the end id changes, and a deletion that stands
\* alone is not followed by another one.
LEMMA RedoDeleteRows ==
  ASSUME RecoveryTypeOK, LogOrdered(log), RedoDelete, RedoTrxes, MarksDrawn, RedoEnds, RedoRows
  PROVE  RedoRows'
  <1> DEFINE x == Record.trx
             r == Record.rid
  <1>0. /\ Redoing /\ Advance /\ Known /\ IsData(Record) /\ Record.type = "DELETE" /\ mode = "redo"
        /\ current_trx_id' = current_trx_id /\ index' = index
        /\ trxes' = [trxes EXCEPT ![Record.trx] = AddOperation(@, Record.type, Record.rid)]
    BY DEF RedoDelete, IsData, Redoing
  <1>1. /\ ~Ended(log, x, pos - 1)
        /\ \A y : Kept(y)' <=> Kept(y)
    BY <1>0, RedoDataTrxes
  <1>2. /\ log' = log /\ pos' - 1 = pos /\ pos \in Nat /\ pos - 1 \in 0 .. pos /\ pos - 1 \in Nat
        /\ pos = (pos - 1) + 1
        /\ \A i \in 1 .. pos : i \in 1 .. pos - 1 \/ i = pos
        /\ \A i \in 1 .. pos - 1 : i \in 1 .. pos /\ i \in DOMAIN log /\ i < pos /\ i \in Nat
        /\ Record = log[pos] /\ pos \in DOMAIN log
        /\ \A i \in DOMAIN log : log[i] \in LogRecord
    BY <1>0, Advances
  <1>3. /\ r \in Rids /\ \A q \in Rids : q /= r => rows'[q] = rows[q]
        /\ rows[r] = NoRow => rows'[r] = NoRow
        /\ rows[r] /= NoRow => /\ rows'[r] /= NoRow /\ rows'[r].begin = rows[r].begin
                               /\ rows'[r].key = rows[r].key
    BY RedoDeleteInv
  <1>4. \A q \in Rids : /\ rows'[q] /= NoRow <=> rows[q] /= NoRow
                        /\ rows[q] /= NoRow => rows'[q].begin = rows[q].begin /\ rows'[q].key = rows[q].key
    BY <1>3
  <1>5. \A y : ~Ends(log, pos, y)
    BY <1>0, <1>2 DEF Ends
  <1> SUFFICES ASSUME ~SlotReused(log, pos) PROVE RedoTable' /\ CommittedRows(pos - 1)'
    BY <1>2 DEF RedoRows
  <1>6. RedoTable /\ CommittedRows(pos - 1)
    <2>1. ~SlotReused(log, pos - 1)
      BY <1>2, Growing
    <2> QED
      BY <1>0, <2>1 DEF RedoRows
  <1>7. \A i \in 1 .. pos : log[i].type = "INSERT" => i \in 1 .. pos - 1 /\ log[i].rid \in Rids
    BY <1>0, <1>2, RecordFields
  <1>8. \A i \in 1 .. pos : \A q : Holds(i, q)' <=> Holds(i, q)
    BY <1>1, <1>2 DEF Holds
  <1>9. RedoTable'
    <2>1. ASSUME NEW i \in 1 .. pos, log[i].type = "INSERT", Kept(log[i].trx)
          PROVE  /\ rows'[log[i].rid] /= NoRow /\ rows'[log[i].rid].key = log[i].key
                 /\ <<log[i].key, log[i].rid>> \in index'
      BY <1>0, <1>4, <1>6, <1>7, <2>1 DEF RedoTable
    <2>2. \A e \in index' : \E i \in 1 .. pos : Holds(i, e[2]) /\ log[i].key = e[1]
      BY <1>0, <1>2, <1>6 DEF RedoTable
    <2>3. \A q \in Rids : rows'[q] /= NoRow => \E i \in 1 .. pos : Holds(i, q)
      BY <1>2, <1>4, <1>6 DEF RedoTable
    <2> QED
      BY <1>1, <1>2, <1>8, <2>1, <2>2, <2>3 DEF RedoTable
  <1>10. CommittedRows(pos - 1)'
    <2> SUFFICES ASSUME NEW c \in 1 .. pos, NEW i \in 1 .. pos, CommittedAt(log, c, log[i].trx)
                 PROVE  /\ log[i].type = "INSERT" => /\ rows'[log[i].rid] /= NoRow
                                                     /\ rows'[log[i].rid].begin = log[c].xid
                                                     /\ rows'[log[i].rid].key = log[i].key
                        /\ log[i].type = "DELETE" /\ ~OwnRecord(log, i) /\ OnlyDeletion(log, i) =>
                             rows'[log[i].rid] = NoRow \/ rows'[log[i].rid].end = log[c].xid
      BY <1>2 DEF CommittedRows
    <2>1. c \in 1 .. pos - 1
      BY <1>2, <1>5, FateStep
    <2>2. Committed(log, log[i].trx, pos - 1)
      BY <2>1 DEF Committed
    <2>3. i \in 1 .. pos - 1
      BY <1>1, <1>2, <2>2, OneFate
    <2>4. IsData(log[i]) => log[i].rid \in Rids
      BY <1>2, <2>3, RecordFields DEF IsData
    <2>5. log[i].type = "DELETE" /\ OnlyDeletion(log, i) => log[i].rid /= r
      <3> SUFFICES ASSUME log[i].type = "DELETE", OnlyDeletion(log, i), log[i].rid = r PROVE FALSE
        OBVIOUS
      <3>1. pos \in DOMAIN log \ {i} /\ ~(pos < i)
        BY <1>2, <2>3
      <3> QED
        BY <1>0, <1>2, <3>1 DEF OnlyDeletion
    <2>6. /\ log[i].type = "INSERT" => /\ rows[log[i].rid] /= NoRow
                                       /\ rows[log[i].rid].begin = log[c].xid
                                       /\ rows[log[i].rid].key = log[i].key
          /\ log[i].type = "DELETE" /\ ~OwnRecord(log, i) /\ OnlyDeletion(log, i) =>
               rows[log[i].rid] = NoRow \/ rows[log[i].rid].end = log[c].xid
      BY <1>6, <2>1, <2>3 DEF CommittedRows
    <2> QED
      BY <1>3, <1>4, <2>4, <2>5, <2>6 DEF IsData
  <1> QED
    BY <1>9, <1>10

\* Redoing a commit stamps the records of the transaction and no other.
LEMMA RedoCommitTable ==
  ASSUME RecoveryTypeOK, LogOrdered(log), RedoCommit, RedoTrxes, RedoRows
  PROVE  RedoRows'
  <1> SUFFICES ASSUME NEW x, x = Record.trx PROVE RedoRows'
    OBVIOUS
  <1> DEFINE ops == trxes[x]
             ins(r) == [type |-> "INSERT", rid |-> r] \in ops
             del(r) == [type |-> "DELETE", rid |-> r] \in ops
  <1>0. /\ Redoing /\ Advance /\ Known /\ Record.type = "MTR_COMMIT" /\ mode = "redo"
        /\ current_trx_id' = current_trx_id /\ index' = index
        /\ trxes' = [trxes EXCEPT ![Record.trx] = {}]
        /\ Record.type \in {"MTR_COMMIT", "MTR_ROLLBACK"}
    BY DEF RedoCommit, Redoing
  <1>1. /\ DOMAIN trxes' = DOMAIN trxes
        /\ OpsMatch(ops, log, x, pos - 1)
        /\ Ended(log, x, pos - 1) => ops = {}
        /\ \A y : y /= x \/ Ended(log, x, pos - 1) =>
             /\ Kept(y)' <=> Kept(y)
             /\ \A c \in 1 .. pos : CommittedAt(log, c, y) => c \in 1 .. pos - 1
    BY <1>0, RedoEndTrxes
  <1>2. /\ log' = log /\ pos' - 1 = pos /\ pos \in Nat /\ pos - 1 \in 0 .. pos /\ pos - 1 \in Nat
        /\ pos = (pos - 1) + 1
        /\ \A i \in 1 .. pos : i \in 1 .. pos - 1 \/ i = pos
        /\ \A i \in 1 .. pos - 1 : i \in 1 .. pos /\ i \in DOMAIN log
        /\ Record = log[pos] /\ pos \in DOMAIN log /\ 1 .. pos - 1 \subseteq DOMAIN log
        /\ \A i \in DOMAIN log : log[i] \in LogRecord
    BY <1>0, Advances
  <1>3. Ends(log, (pos - 1) + 1, x) /\ Ends(log, pos, x)
    BY <1>0, <1>2 DEF Ends
  <1>4. ~Ended(log, x, pos - 1) =>
          /\ \A c \in 1 .. pos : CommittedAt(log, c, x) => c = pos
          /\ Committed(log, x, pos) /\ Kept(x) /\ Kept(x)'
    <2> SUFFICES ASSUME ~Ended(log, x, pos - 1)
                 PROVE  /\ \A c \in 1 .. pos : CommittedAt(log, c, x) => c = pos
                        /\ Committed(log, x, pos) /\ Kept(x) /\ Kept(x)'
      OBVIOUS
    <2>1. /\ \A c \in 1 .. (pos - 1) + 1 : CommittedAt(log, c, x) => c = (pos - 1) + 1
          /\ log[(pos - 1) + 1].type = "MTR_COMMIT" => Committed(log, x, (pos - 1) + 1)
      BY <1>2, <1>3, FirstEnd
    <2>2. Committed(log, x, pos) /\ \A c \in 1 .. pos : CommittedAt(log, c, x) => c = pos
      BY <1>0, <1>2, <2>1
    <2>3. Kept(x)'
      BY <1>2, <2>2 DEF Kept
    <2>4. Kept(x)
      BY <1>0 DEF Kept, Known
    <2> QED
      BY <2>2, <2>3, <2>4
  <1>5. \A y : Kept(y)' <=> Kept(y)
    BY <1>1, <1>4
  <1>6. ASSUME NEW q \in Rids
        PROVE  /\ rows[q] = NoRow => rows'[q] = NoRow
               /\ rows[q] /= NoRow =>
                    /\ rows'[q] /= NoRow /\ rows'[q].key = rows[q].key
                    /\ rows'[q].begin = IF ins(q) THEN Record.xid ELSE rows[q].begin
                    /\ rows'[q].end = IF del(q) /\ ~ins(q) THEN Record.xid ELSE rows[q].end
    BY CommitRows
  <1> SUFFICES ASSUME ~SlotReused(log, pos) PROVE RedoTable' /\ CommittedRows(pos - 1)'
    BY <1>2 DEF RedoRows
  <1>7. RedoTable /\ CommittedRows(pos - 1) /\ ~SlotReused(log, pos - 1)
    <2>1. ~SlotReused(log, pos - 1)
      BY <1>2, Growing
    <2> QED
      BY <1>0, <2>1 DEF RedoRows
  <1>8. \A i \in 1 .. pos : IsData(log[i]) => i \in 1 .. pos - 1 /\ log[i].rid \in Rids
    BY <1>0, <1>2, RecordFields DEF IsData
  <1>9. \A i \in 1 .. pos : \A q : Holds(i, q)' <=> Holds(i, q)
    BY <1>2, <1>5 DEF Holds
  <1>10. RedoTable'
    <2>1. ASSUME NEW i \in 1 .. pos, log[i].type = "INSERT", Kept(log[i].trx)
          PROVE  /\ rows'[log[i].rid] /= NoRow /\ rows'[log[i].rid].key = log[i].key
                 /\ <<log[i].key, log[i].rid>> \in index'
      <3>1. i \in 1 .. pos - 1 /\ log[i].rid \in Rids
        BY <1>8, <2>1 DEF IsData
      <3>2. /\ rows[log[i].rid] /= NoRow /\ rows[log[i].rid].key = log[i].key
            /\ <<log[i].key, log[i].rid>> \in index
        BY <1>7, <2>1, <3>1 DEF RedoTable
      <3> QED
        BY <1>0, <1>6, <3>1, <3>2
    <2>2. \A e \in index' : \E i \in 1 .. pos : Holds(i, e[2]) /\ log[i].key = e[1]
      BY <1>0, <1>2, <1>7 DEF RedoTable
    <2>3. \A q \in Rids : rows'[q] /= NoRow => \E i \in 1 .. pos : Holds(i, q)
      BY <1>2, <1>6, <1>7 DEF RedoTable
    <2> QED
      BY <1>2, <1>5, <1>9, <2>1, <2>2, <2>3 DEF RedoTable
  <1>11. CommittedRows(pos - 1)'
    <2> SUFFICES ASSUME NEW c \in 1 .. pos, NEW i \in 1 .. pos, CommittedAt(log, c, log[i].trx)
                 PROVE  /\ log[i].type = "INSERT" => /\ rows'[log[i].rid] /= NoRow
                                                     /\ rows'[log[i].rid].begin = log[c].xid
                                                     /\ rows'[log[i].rid].key = log[i].key
                        /\ log[i].type = "DELETE" /\ ~OwnRecord(log, i) /\ OnlyDeletion(log, i) =>
                             rows'[log[i].rid] = NoRow \/ rows'[log[i].rid].end = log[c].xid
      BY <1>2 DEF CommittedRows
    <2>1. CASE log[i].trx = x /\ ~Ended(log, x, pos - 1)
      <3>1. c = pos /\ Kept(x)
        BY <1>4, <2>1
      <3>2. ASSUME log[i].type = "INSERT"
            PROVE  /\ rows'[log[i].rid] /= NoRow /\ rows'[log[i].rid].begin = log[c].xid
                   /\ rows'[log[i].rid].key = log[i].key
        <4>1. i \in 1 .. pos - 1 /\ log[i].rid \in Rids
          BY <1>8, <3>2 DEF IsData
        <4>2. ins(log[i].rid)
          BY <1>1, <1>2, <1>7, <2>1, <3>2, <4>1, InsertInOps
        <4>3. rows[log[i].rid] /= NoRow /\ rows[log[i].rid].key = log[i].key
          BY <1>7, <2>1, <3>1, <3>2, <4>1 DEF RedoTable
        <4> QED
          BY <1>2, <1>6, <3>1, <4>1, <4>2, <4>3
      <3>3. ASSUME log[i].type = "DELETE", ~OwnRecord(log, i), OnlyDeletion(log, i)
            PROVE  rows'[log[i].rid] = NoRow \/ rows'[log[i].rid].end = log[c].xid
        <4>1. i \in 1 .. pos - 1 /\ log[i].rid \in Rids
          BY <1>8, <3>3 DEF IsData
        <4>2. del(log[i].rid)
          BY <1>1, <1>2, <2>1, <3>3, <4>1, DeleteInOps
        <4>3. ~ins(log[i].rid)
          <5> SUFFICES ASSUME ins(log[i].rid) PROVE FALSE
            OBVIOUS
          <5>1. PICK j \in 1 .. pos - 1 : log[j].trx = x /\ log[j].type = "INSERT" /\ log[j].rid = log[i].rid
            BY <1>1 DEF OpsMatch
          <5> QED
            BY <1>2, <2>1, <3>3, <5>1 DEF OwnRecord
        <4> HIDE DEF ins, del
        <4> QED
          BY <1>2, <1>6, <3>1, <4>1, <4>2, <4>3
      <3> QED
        BY <3>2, <3>3
    <2>2. CASE log[i].trx /= x \/ Ended(log, x, pos - 1)
      <3>1. c \in 1 .. pos - 1
        BY <1>1, <2>2
      <3>2. Committed(log, log[i].trx, pos - 1)
        BY <3>1 DEF Committed
      <3>3. Ended(log, log[i].trx, pos - 1) /\ ~RolledBack(log, log[i].trx, pos - 1)
        BY <1>2, <3>2, OneFate
      <3>4. log[i].trx /= x \/ ops = {}
        BY <1>1, <2>2
      <3>5. ASSUME log[i].type = "INSERT"
            PROVE  /\ rows'[log[i].rid] /= NoRow /\ rows'[log[i].rid].begin = log[c].xid
                   /\ rows'[log[i].rid].key = log[i].key
        <4>1. i \in 1 .. pos - 1 /\ log[i].rid \in Rids
          BY <1>8, <3>5 DEF IsData
        <4>2. ~ins(log[i].rid)
          BY <1>1, <1>2, <1>7, <3>3, <3>4, <3>5, <4>1, ForeignInsert
        <4>3. /\ rows[log[i].rid] /= NoRow /\ rows[log[i].rid].begin = log[c].xid
              /\ rows[log[i].rid].key = log[i].key
          BY <1>7, <3>1, <3>5, <4>1 DEF CommittedRows
        <4> HIDE DEF ins, del
        <4> QED
          BY <1>6, <4>1, <4>2, <4>3
      <3>6. ASSUME log[i].type = "DELETE", ~OwnRecord(log, i), OnlyDeletion(log, i)
            PROVE  rows'[log[i].rid] = NoRow \/ rows'[log[i].rid].end = log[c].xid
        <4>1. i \in 1 .. pos - 1 /\ log[i].rid \in Rids
          BY <1>8, <3>6 DEF IsData
        <4>2. ~del(log[i].rid)
          BY <1>1, <1>2, <3>4, <3>6, <4>1, ForeignDelete
        <4>3. rows[log[i].rid] = NoRow \/ rows[log[i].rid].end = log[c].xid
          BY <1>7, <3>1, <3>6, <4>1 DEF CommittedRows
        <4> HIDE DEF ins, del
        <4> QED
          BY <1>6, <4>1, <4>2, <4>3
      <3> QED
        BY <3>5, <3>6
    <2> QED
      BY <2>1, <2>2
  <1> QED
    BY <1>10, <1>11

\* Redoing a rollback.
LEMMA RedoRollbackInv ==
  ASSUME RecoveryTypeOK, LogOrdered(log), RedoRollback, RedoTrxes, MarksDrawn, RedoEnds, RedoRows
  PROVE  RedoTrxes' /\ MarksDrawn' /\ RedoEnds' /\ RedoRows'
  <1> SUFFICES ASSUME NEW x, x = Record.trx PROVE RedoTrxes' /\ MarksDrawn' /\ RedoEnds' /\ RedoRows'
    OBVIOUS
  <1>0. /\ Redoing /\ Advance /\ Known /\ Record.type = "MTR_ROLLBACK" /\ mode = "redo"
        /\ current_trx_id' = current_trx_id /\ Undo(trxes[x])
        /\ trxes' = [trxes EXCEPT ![Record.trx] = {}]
        /\ Record.type \in {"MTR_COMMIT", "MTR_ROLLBACK"}
    BY DEF RedoRollback, Redoing
  <1>1. /\ RedoTrxes' /\ DOMAIN trxes' = DOMAIN trxes
        /\ \A y \in DOMAIN trxes : y /= x => trxes'[y] = trxes[y]
        /\ \A y : y /= x \/ Ended(log, x, pos - 1) =>
             /\ Kept(y)' <=> Kept(y)
             /\ \A c \in 1 .. pos : CommittedAt(log, c, y) => c \in 1 .. pos - 1
    BY <1>0, RedoEndTrxes
  <1>2. /\ log' = log /\ pos' - 1 = pos /\ pos \in Nat /\ pos - 1 \in 0 .. pos /\ pos - 1 \in Nat
        /\ pos = (pos - 1) + 1
        /\ \A i \in 1 .. pos : i \in 1 .. pos - 1 \/ i = pos
        /\ \A i \in 1 .. pos - 1 : i \in 1 .. pos /\ i \in DOMAIN log
        /\ Record = log[pos] /\ 1 .. pos - 1 \subseteq DOMAIN log
    BY <1>0, Advances
  <1>3. x \in DOMAIN trxes
    BY <1>0 DEF Known
  <1>4. MarksDrawn' /\ RedoEnds'
    BY <1>0, <1>1, <1>2, <1>3, UndoInv
  <1>5. Ends(log, (pos - 1) + 1, x) /\ log[(pos - 1) + 1].type = "MTR_ROLLBACK"
    BY <1>0, <1>2 DEF Ends
  <1>6. ~Ended(log, x, pos - 1) =>
          ~Kept(x)' /\ \A c \in 1 .. pos : ~CommittedAt(log, c, x)
    <2> SUFFICES ASSUME ~Ended(log, x, pos - 1)
                 PROVE  ~Kept(x)' /\ \A c \in 1 .. pos : ~CommittedAt(log, c, x)
      OBVIOUS
    <2>1. ~Committed(log, x, pos) /\ Ended(log, x, pos)
      BY <1>2, <1>5, FirstEnd
    <2> QED
      BY <1>2, <2>1 DEF Kept, Committed
  <1>7. \A y : \A c \in 1 .. pos : CommittedAt(log, c, y) => c \in 1 .. pos - 1
    BY <1>1, <1>6
  <1>8. ASSUME ~SlotReused(log, pos) PROVE RedoTable' /\ CommittedRows(pos - 1)'
    <2>1. ~SlotReused(log, pos - 1)
      BY <1>2, <1>8, Growing
    <2>2. RedoTable /\ CommittedRows(pos - 1)
      BY <1>0, <2>1 DEF RedoRows
    <2>3. \A i \in 1 .. pos : i \in 1 .. pos - 1 \/ ~IsData(log[i])
      BY <1>0, <1>2 DEF IsData
    <2>4. pos' - 1 \in Nat
      BY <1>2
    <2> QED
      BY <1>0, <1>1, <1>2, <1>3, <1>6, <1>7, <2>1, <2>2, <2>3, <2>4, UndoTable
  <1>9. RedoRows'
    BY <1>2, <1>8 DEF RedoRows
  <1> QED
    BY <1>1, <1>4, <1>9

\* The transactions left over at the end of the log are rolled back.
LEMMA UndoneInv ==
  ASSUME RecoveryTypeOK, LogOrdered(log), UndoUnfinished, trxes /= NoOps, RedoTrxes, MarksDrawn,
         RedoEnds, RedoRows
  PROVE  RedoTrxes' /\ MarksDrawn' /\ RedoEnds' /\ RedoRows'
  <1>0. /\ mode = "redo" /\ pos = Len(log) + 1 /\ log' = log /\ pos' = pos /\ mode' = mode
        /\ current_trx_id' = current_trx_id /\ log \in Seq(LogRecord)
    BY DEF UndoUnfinished, logVars, RecoveryTypeOK
  <1>1. PICK x \in DOMAIN trxes : Undo(trxes[x]) /\ trxes' = [y \in DOMAIN trxes \ {x} |-> trxes[y]]
    BY DEF UndoUnfinished
  <1>2. /\ DOMAIN trxes' = DOMAIN trxes \ {x}
        /\ \A y \in DOMAIN trxes : y /= x => y \in DOMAIN trxes' /\ trxes'[y] = trxes[y]
    BY <1>1
  <1>3. /\ pos - 1 \in Nat /\ 1 .. pos - 1 \subseteq DOMAIN log /\ ~(pos <= Len(log)) /\ pos' - 1 = pos - 1
    BY <1>0, LenProperties
  <1>4. MarksDrawn' /\ RedoEnds'
    BY <1>0, <1>1, <1>2, UndoInv
  <1>5. RedoTrxes'
    BY <1>0, <1>2, <1>3 DEF RedoTrxes
  <1>6. /\ \A y : y /= x \/ Ended(log, x, pos - 1) => (Kept(y)' <=> Kept(y))
        /\ ~Ended(log, x, pos - 1) => ~Kept(x)'
    <2>1. \A y : Kept(y)' <=> Committed(log, y, pos - 1) \/ (y \in DOMAIN trxes \ {x} /\ ~Ended(log, y, pos - 1))
      BY <1>0, <1>2 DEF Kept
    <2>2. Committed(log, x, pos - 1) => Ended(log, x, pos - 1)
      BY <1>3, OneFate
    <2> QED
      BY <2>1, <2>2 DEF Kept
  <1>7. ASSUME ~SlotReused(log, pos - 1) PROVE RedoTable' /\ CommittedRows(pos - 1)'
    <2>1. RedoTable /\ CommittedRows(pos - 1)
      BY <1>0, <1>7 DEF RedoRows
    <2> QED
      BY <1>0, <1>1, <1>3, <1>6, <1>7, <2>1, UndoTable
  <1>8. RedoRows'
    BY <1>0, <1>7 DEF RedoRows
  <1> QED
    BY <1>4, <1>5, <1>8

\* Two deletions of a record stand.
LEMMA DeleteClash ==
  ASSUME NEW l, NEW n \in Nat, NEW i \in 1 .. n, NEW j \in 1 .. n, i /= j,
         l[i].type = "DELETE", l[j].type = "DELETE", l[i].rid = l[j].rid,
         ~RolledBack(l, l[i].trx, n), ~RolledBack(l, l[j].trx, n)
  PROVE  DeletedTwice(l, n)
  <1>1. i - 1 \in 0 .. n /\ j - 1 \in 0 .. n
    OBVIOUS
  <1>2. ~RolledBack(l, l[i].trx, j - 1) /\ ~RolledBack(l, l[j].trx, i - 1)
    BY <1>1, Growing
  <1>3. i \in 1 .. j - 1 \/ j \in 1 .. i - 1
    OBVIOUS
  <1> QED
    BY <1>2, <1>3 DEF DeletedTwice

\* The transaction of an operation set that is not empty is open, and has logged
\* what is in it.
LEMMA OpLogged ==
  ASSUME NEW l, NEW x, NEW n \in Nat, NEW ops, OpsMatch(ops, l, x, n), NEW type, NEW r,
         [type |-> type, rid |-> r] \in ops
  PROVE  /\ ~Ended(l, x, n) /\ ~RolledBack(l, x, n)
         /\ \E i \in 1 .. n : IsData(l[i]) /\ l[i].trx = x /\ l[i].type = type /\ l[i].rid = r
  <1>1. ~Ended(l, x, n)
    BY DEF OpsMatch
  <1>2. \E i \in 1 .. n : IsData(l[i]) /\ l[i].trx = x /\ l[i].type = type /\ l[i].rid = r
    BY DEF OpsMatch
  <1> QED
    BY <1>1, <1>2, OneFate

\* One open transaction at most has deleted a record.
LEMMA OneDeletes ==
  ASSUME RedoTrxes, pos - 1 \in Nat, ~DeletedTwice(log, pos - 1), NEW x \in DOMAIN trxes,
         NEW y \in DOMAIN trxes, NEW r, DeleteOp(r) \in trxes[x], DeleteOp(r) \in trxes[y]
  PROVE  x = y
  <1> SUFFICES ASSUME x /= y PROVE FALSE
    OBVIOUS
  <1>1. /\ OpsMatch(trxes[x], log, x, pos - 1) /\ OpsMatch(trxes[y], log, y, pos - 1)
        /\ [type |-> "DELETE", rid |-> r] \in trxes[x] /\ [type |-> "DELETE", rid |-> r] \in trxes[y]
    BY DEF RedoTrxes, DeleteOp
  <1>2. /\ ~RolledBack(log, x, pos - 1) /\ ~RolledBack(log, y, pos - 1)
        /\ \E i \in 1 .. pos - 1 : log[i].trx = x /\ log[i].type = "DELETE" /\ log[i].rid = r
        /\ \E j \in 1 .. pos - 1 : log[j].trx = y /\ log[j].type = "DELETE" /\ log[j].rid = r
    <2>1. ~RolledBack(log, x, pos - 1) /\ ~RolledBack(log, y, pos - 1)
      BY <1>1, OpLogged
    <2>2. \E i \in 1 .. pos - 1 : log[i].trx = x /\ log[i].type = "DELETE" /\ log[i].rid = r
      BY <1>1 DEF OpsMatch
    <2>3. \E j \in 1 .. pos - 1 : log[j].trx = y /\ log[j].type = "DELETE" /\ log[j].rid = r
      BY <1>1 DEF OpsMatch
    <2> QED
      BY <2>1, <2>2, <2>3
  <1>3. PICK i \in 1 .. pos - 1 : log[i].trx = x /\ log[i].type = "DELETE" /\ log[i].rid = r
    BY <1>2
  <1>4. PICK j \in 1 .. pos - 1 : log[j].trx = y /\ log[j].type = "DELETE" /\ log[j].rid = r
    BY <1>2
  <1> QED
    BY <1>2, <1>3, <1>4, DeleteClash

\* The fates of transactions after one more record.
LEMMA StepFates ==
  ASSUME RecoveryTypeOK, LogOrdered(log), Redoing, Advance, NEW y,
         ~Ends(log, pos, y) \/ Ended(log, y, pos - 1)
  PROVE  /\ Ended(log, y, pos) <=> Ended(log, y, pos - 1)
         /\ RolledBack(log, y, pos) <=> RolledBack(log, y, pos - 1)
         /\ Committed(log, y, pos) <=> Committed(log, y, pos - 1)
  <1>1. pos - 1 \in Nat /\ pos = (pos - 1) + 1
    BY Advances
  <1> QED
    BY <1>1, FateStep

\* More records, more deletions.
LEMMA TwiceGrows ==
  ASSUME NEW l, NEW n, NEW m, 1 .. n \subseteq 1 .. m, DeletedTwice(l, n)
  PROVE  DeletedTwice(l, m)
  BY DEF DeletedTwice

\* A redone BEGIN.
LEMMA RedoBeginAsserts ==
  ASSUME RecoveryTypeOK, LogOrdered(log), RedoBegin, RedoTrxes, RedoAsserts
  PROVE  RedoAsserts'
  <1>0. /\ Redoing /\ Advance /\ rows' = rows /\ mode = "redo" /\ Record.type = "MTR_BEGIN"
    BY DEF RedoBegin, Redoing, tableVars
  <1>1. /\ log' = log /\ pos' - 1 = pos /\ pos \in Nat /\ pos - 1 \in 0 .. pos /\ pos - 1 \in Nat
        /\ \A i \in 1 .. pos : i \in 1 .. pos - 1 \/ i = pos
        /\ \A i \in 1 .. pos - 1 : i \in 1 .. pos
        /\ 1 .. pos - 1 \subseteq 1 .. pos /\ Record = log[pos]
    BY <1>0, Advances
  <1>2. \A y : /\ Ended(log, y, pos) <=> Ended(log, y, pos - 1)
               /\ RolledBack(log, y, pos) <=> RolledBack(log, y, pos - 1)
    <2>1. \A y : ~Ends(log, pos, y)
      BY <1>0, <1>1 DEF Ends
    <2> QED
      BY <1>0, <2>1, StepFates
  <1>3. /\ \A i \in 1 .. pos : IsData(log[i]) =>
             i \in 1 .. pos - 1 /\ (Kept(log[i].trx)' <=> Kept(log[i].trx))
        /\ \A y \in DOMAIN trxes : y \in DOMAIN trxes' /\ trxes'[y] = trxes[y]
    BY RedoBeginTrxes
  <1>4. \A y \in DOMAIN trxes' : y \notin DOMAIN trxes => trxes'[y] = {}
    BY DEF RedoBegin
  <1> SUFFICES ASSUME ~SlotReused(log, pos) PROVE RedoDeletes' /\ RedoBegins' /\ RedoMarks'
    BY <1>1 DEF RedoAsserts
  <1>5. RedoDeletes /\ RedoBegins /\ RedoMarks
    <2>1. ~SlotReused(log, pos - 1)
      BY <1>1, Growing
    <2> QED
      BY <1>0, <2>1 DEF RedoAsserts
  <1>6. RedoDeletes'
    <2>1. \A d \in 1 .. pos - 1 : \A r \in Rids : Standing(d, r) => Standing(d, r)'
      BY <1>1, <1>2, <1>3 DEF Standing, InsertOf, DeleteOf, DeleteOp
    <2> QED
      BY <1>0, <1>1, <1>5, <2>1 DEF RedoDeletes
  <1>7. RedoBegins'
    <2> SUFFICES ASSUME NEW i \in 1 .. pos, log[i].type = "INSERT", log[i].trx \in DOMAIN trxes',
                        ~Ended(log, log[i].trx, pos)
                 PROVE  rows[log[i].rid].begin = -log[i].trx
      BY <1>0, <1>1 DEF RedoBegins
    <2>1. i \in 1 .. pos - 1 /\ ~Ended(log, log[i].trx, pos - 1) /\ (Kept(log[i].trx)' <=> Kept(log[i].trx))
      BY <1>2, <1>3 DEF IsData
    <2>2. Kept(log[i].trx)'
      BY <1>1 DEF Kept
    <2>3. log[i].trx \in DOMAIN trxes
      BY <1>1, <2>1, <2>2, OneFate DEF Kept
    <2> QED
      BY <1>5, <2>1, <2>3 DEF RedoBegins
  <1>8. RedoMarks'
    <2> SUFFICES ASSUME ~DeletedTwice(log, pos), NEW x \in DOMAIN trxes', NEW r \in Rids,
                        DeleteOp(r) \in trxes'[x], rows[r] /= NoRow
                 PROVE  rows[r].end = -x
      BY <1>0, <1>1 DEF RedoMarks, DeleteOp
    <2>1. ~DeletedTwice(log, pos - 1)
      BY <1>1, TwiceGrows
    <2>2. x \in DOMAIN trxes /\ trxes'[x] = trxes[x]
      BY <1>3, <1>4
    <2> QED
      BY <1>5, <2>1, <2>2 DEF RedoMarks
  <1> QED
    BY <1>6, <1>7, <1>8

\* A redone insertion.
LEMMA RedoInsertAsserts ==
  ASSUME RecoveryTypeOK, LogOrdered(log), RedoInsert, RedoTrxes, RedoAsserts
  PROVE  RedoAsserts'
  <1> SUFFICES ASSUME NEW x, NEW r, x = Record.trx, r = Record.rid PROVE RedoAsserts'
    OBVIOUS
  <1>0. /\ Redoing /\ Advance /\ Known /\ IsData(Record) /\ Record.type = "INSERT" /\ mode = "redo"
        /\ current_trx_id' = current_trx_id
        /\ trxes' = [trxes EXCEPT ![Record.trx] = AddOperation(@, Record.type, Record.rid)]
    BY DEF RedoInsert, IsData, Redoing
  <1>1. /\ log' = log /\ pos' - 1 = pos /\ pos \in Nat /\ pos - 1 \in 0 .. pos /\ pos - 1 \in Nat
        /\ \A i \in 1 .. pos : i \in 1 .. pos - 1 \/ i = pos
        /\ \A i \in 1 .. pos - 1 : i \in 1 .. pos /\ i \in DOMAIN log
        /\ 1 .. pos - 1 \subseteq 1 .. pos /\ Record = log[pos] /\ pos \in 1 .. pos /\ Record \in LogRecord
        /\ \A i \in DOMAIN log : log[i] \in LogRecord
    BY <1>0, Advances
  <1>2. /\ DOMAIN trxes' = DOMAIN trxes
        /\ \A y : Ended(log, y, pos) <=> Ended(log, y, pos - 1)
        /\ \A y : RolledBack(log, y, pos) <=> RolledBack(log, y, pos - 1)
        /\ \A y \in DOMAIN trxes : trxes[y] \subseteq trxes'[y]
    BY <1>0, RedoDataTrxes
  <1>3. r \in Rids /\ x \in Int
    BY <1>0, <1>1, RecordFields
  <1>4. /\ \A q \in Rids : q /= r => rows'[q] = rows[q]
        /\ rows'[r].begin = -x /\ rows'[r].end = MaxTrxId
    BY <1>3 DEF RedoInsert, RecoveryTypeOK, TypeOK
  <1>5. \A y \in DOMAIN trxes : \A q : DeleteOp(q) \in trxes'[y] => DeleteOp(q) \in trxes[y]
    BY <1>0, <1>2 DEF AddOperation, DeleteOp, RecoveryTypeOK
  <1> SUFFICES ASSUME ~SlotReused(log, pos) PROVE RedoDeletes' /\ RedoBegins' /\ RedoMarks'
    BY <1>1 DEF RedoAsserts
  <1>6. RedoDeletes /\ RedoBegins /\ RedoMarks
    <2>1. ~SlotReused(log, pos - 1)
      BY <1>1, Growing
    <2> QED
      BY <1>0, <2>1 DEF RedoAsserts
  <1>7. \A i \in 1 .. pos - 1 : IsData(log[i]) /\ ~RolledBack(log, log[i].trx, pos - 1) => log[i].rid /= r
    BY <1>0, <1>1, <1>2, EarlierClash
  <1>8. RedoDeletes'
    <2>1. \A d \in 1 .. pos - 1 : \A q : Standing(d, q) => Standing(d, q)'
      BY <1>1, <1>2 DEF Standing, InsertOf, DeleteOf, DeleteOp
    <2> SUFFICES ASSUME NEW q \in Rids, rows'[q] /= NoRow, rows'[q].end /= MaxTrxId
                 PROVE  \E d \in 1 .. pos : Standing(d, q)'
      BY <1>1 DEF RedoDeletes
    <2>2. q /= r /\ rows'[q] = rows[q]
      BY <1>4
    <2> QED
      BY <1>1, <1>6, <2>1, <2>2 DEF RedoDeletes
  <1>9. RedoBegins'
    <2> SUFFICES ASSUME NEW i \in 1 .. pos, log[i].type = "INSERT", log[i].trx \in DOMAIN trxes,
                        ~Ended(log, log[i].trx, pos)
                 PROVE  rows'[log[i].rid].begin = -log[i].trx
      BY <1>1, <1>2 DEF RedoBegins
    <2>1. CASE i = pos
      BY <1>1, <1>4, <2>1
    <2>2. CASE i \in 1 .. pos - 1
      <3>1. ~Ended(log, log[i].trx, pos - 1) /\ ~RolledBack(log, log[i].trx, pos - 1)
        BY <1>1, <1>2, OneFate
      <3>2. log[i].rid /= r /\ log[i].rid \in Rids
        BY <1>1, <1>7, <2>2, <3>1, RecordFields DEF IsData
      <3> QED
        BY <1>4, <1>6, <2>2, <3>1, <3>2 DEF RedoBegins
    <2> QED
      BY <1>1, <2>1, <2>2
  <1>10. RedoMarks'
    <2> SUFFICES ASSUME ~DeletedTwice(log, pos), NEW y \in DOMAIN trxes, NEW q \in Rids,
                        DeleteOp(q) \in trxes'[y], rows'[q] /= NoRow
                 PROVE  rows'[q].end = -y
      BY <1>1, <1>2 DEF RedoMarks, DeleteOp
    <2>1. ~DeletedTwice(log, pos - 1)
      BY <1>1, TwiceGrows
    <2>2. DeleteOp(q) \in trxes[y] /\ OpsMatch(trxes[y], log, y, pos - 1)
      BY <1>5 DEF RedoTrxes
    <2>3. [type |-> "DELETE", rid |-> q] \in trxes[y]
      BY <2>2 DEF DeleteOp
    <2>4. /\ ~RolledBack(log, y, pos - 1)
          /\ \E d \in 1 .. pos - 1 : IsData(log[d]) /\ log[d].trx = y /\ log[d].rid = q
      BY <1>1, <2>2, <2>3, OpLogged
    <2>5. q /= r
      BY <1>7, <2>4
    <2> QED
      BY <1>4, <1>6, <2>1, <2>2, <2>5 DEF RedoMarks
  <1> QED
    BY <1>8, <1>9, <1>10

\* A redone deletion.
LEMMA RedoDeleteAsserts ==
  ASSUME RecoveryTypeOK, LogOrdered(log), RedoDelete, RedoTrxes, MarksDrawn, RedoEnds, RedoAsserts
  PROVE  RedoAsserts'
  <1> SUFFICES ASSUME NEW x, NEW r, NEW n, x = Record.trx, r = Record.rid, n = pos PROVE RedoAsserts'
    OBVIOUS
  <1>0. /\ Redoing /\ Advance /\ Known /\ IsData(Record) /\ Record.type = "DELETE" /\ mode = "redo"
        /\ current_trx_id' = current_trx_id
        /\ trxes' = [trxes EXCEPT ![Record.trx] = AddOperation(@, Record.type, Record.rid)]
    BY DEF RedoDelete, IsData, Redoing
  <1>1. /\ log' = log /\ pos' - 1 = pos /\ pos \in Nat /\ pos - 1 \in 0 .. pos /\ pos - 1 \in Nat
        /\ \A i \in 1 .. pos : i \in 1 .. pos - 1 \/ i = pos
        /\ \A i \in 1 .. pos - 1 : i \in 1 .. pos /\ i \in DOMAIN log
        /\ 1 .. pos - 1 \subseteq 1 .. pos /\ Record = log[pos] /\ pos \in 1 .. pos /\ Record \in LogRecord
        /\ \A i \in DOMAIN log : log[i] \in LogRecord
    BY <1>0, Advances
  <1>2. /\ DOMAIN trxes' = DOMAIN trxes /\ ~Ended(log, x, pos - 1)
        /\ \A y : Ended(log, y, pos) <=> Ended(log, y, pos - 1)
        /\ \A y : RolledBack(log, y, pos) <=> RolledBack(log, y, pos - 1)
        /\ \A y \in DOMAIN trxes : trxes[y] \subseteq trxes'[y]
    BY <1>0, RedoDataTrxes
  <1>3. /\ r \in Rids /\ \A q \in Rids : q /= r => rows'[q] = rows[q]
        /\ rows[r] = NoRow => rows'[r] = NoRow
        /\ rows[r] /= NoRow => rows'[r].begin = rows[r].begin
    BY RedoDeleteInv
  <1>4. x \in DOMAIN trxes /\ trxes'[x] = AddOperation(trxes[x], "DELETE", r)
    BY <1>0 DEF Known, RecoveryTypeOK
  <1>5. \A y \in DOMAIN trxes : \A q : DeleteOp(q) \in trxes'[y] =>
          DeleteOp(q) \in trxes[y] \/ (y = x /\ q = r)
    BY <1>0, <1>2 DEF AddOperation, DeleteOp, RecoveryTypeOK
  <1>6. rows[r] /= NoRow => rows'[r].end = -x
    <2> SUFFICES ASSUME rows[r] /= NoRow PROVE rows'[r].end = -x
      OBVIOUS
    <2>1. rows[r] \in Row /\ -x \in Int
      BY <1>1, <1>3, RowFields, RecordFields
    <2>2. rows'[r] = [rows[r] EXCEPT !.end = -x]
      BY <1>3 DEF RedoDelete, RecoveryTypeOK, TypeOK
    <2> QED
      BY <2>1, <2>2, SetEnd
  <1> SUFFICES ASSUME ~SlotReused(log, pos) PROVE RedoDeletes' /\ RedoBegins' /\ RedoMarks'
    BY <1>1 DEF RedoAsserts
  <1>7. RedoDeletes /\ RedoBegins /\ RedoMarks
    <2>1. ~SlotReused(log, pos - 1)
      BY <1>1, Growing
    <2> QED
      BY <1>0, <2>1 DEF RedoAsserts
  <1>8. n \in 1 .. pos /\ Standing(n, r)'
    <2>1. n \in 1 .. pos /\ DeleteOf(n, r)' /\ log'[n].trx = x /\ ~RolledBack(log', x, pos' - 1)
      BY <1>0, <1>1, <1>2, OneFate DEF DeleteOf
    <2>2. CASE ~\E op \in trxes[x] : op.rid = r
      <3>1. DeleteOp(r)' \in trxes'[x]
        BY <1>4, <2>2 DEF AddOperation, DeleteOp
      <3> QED
        BY <1>2, <1>4, <2>1, <3>1 DEF Standing
    <2>3. CASE \E op \in trxes[x] : op.rid = r
      <3>1. PICK op \in trxes[x] : op.rid = r
        BY <2>3
      <3>2. op \in Operation /\ op \in trxes'[x] /\ OpsMatch(trxes[x], log, x, pos - 1)
        BY <1>2, <1>4 DEF RecoveryTypeOK, RedoTrxes
      <3>3. op.type \in {"INSERT", "DELETE"} /\ op = [type |-> op.type, rid |-> r]
        BY <3>1, <3>2 DEF Operation
      <3>4. CASE op.type = "DELETE"
        <4>1. DeleteOp(r)' \in trxes'[x]
          BY <3>2, <3>3, <3>4 DEF DeleteOp
        <4> QED
          BY <1>2, <1>4, <2>1, <4>1 DEF Standing
      <3>5. CASE op.type = "INSERT"
        <4>1. PICK i \in 1 .. pos - 1 : log[i].trx = x /\ log[i].type = op.type /\ log[i].rid = op.rid
          BY <3>1, <3>2 DEF OpsMatch
        <4>2. i \in 1 .. pos' - 1 /\ InsertOf(i, r)' /\ log'[i].trx = x
          BY <1>1, <3>1, <3>5, <4>1 DEF InsertOf
        <4> QED
          BY <1>2, <1>4, <2>1, <4>2 DEF Standing
      <3> QED
        BY <3>3, <3>4, <3>5
    <2> QED
      BY <2>2, <2>3
  <1>9. RedoDeletes'
    <2>1. \A d \in 1 .. pos - 1 : \A q : Standing(d, q) => Standing(d, q)'
      BY <1>1, <1>2 DEF Standing, InsertOf, DeleteOf, DeleteOp
    <2> SUFFICES ASSUME NEW q \in Rids, rows'[q] /= NoRow, rows'[q].end /= MaxTrxId
                 PROVE  \E d \in 1 .. pos : Standing(d, q)'
      BY <1>1 DEF RedoDeletes
    <2>2. CASE q = r
      BY <1>1, <1>8, <2>2
    <2>3. CASE q /= r
      BY <1>1, <1>3, <1>7, <2>1, <2>3 DEF RedoDeletes
    <2> QED
      BY <2>2, <2>3
  <1>10. RedoBegins'
    <2> SUFFICES ASSUME NEW i \in 1 .. pos, log[i].type = "INSERT", log[i].trx \in DOMAIN trxes,
                        ~Ended(log, log[i].trx, pos)
                 PROVE  rows'[log[i].rid].begin = -log[i].trx
      BY <1>1, <1>2 DEF RedoBegins
    <2>1. i \in 1 .. pos - 1 /\ log[i].rid \in Rids
      BY <1>0, <1>1, RecordFields
    <2>2. rows[log[i].rid].begin = -log[i].trx
      BY <1>2, <1>7, <2>1 DEF RedoBegins
    <2>3. rows'[log[i].rid].begin = rows[log[i].rid].begin
      BY <1>3, <2>1
    <2> QED
      BY <2>2, <2>3
  <1>11. RedoMarks'
    <2> SUFFICES ASSUME ~DeletedTwice(log, pos), NEW y \in DOMAIN trxes, NEW q \in Rids,
                        DeleteOp(q) \in trxes'[y], rows'[q] /= NoRow
                 PROVE  rows'[q].end = -y
      BY <1>1, <1>2 DEF RedoMarks, DeleteOp
    <2>1. ~DeletedTwice(log, pos - 1)
      BY <1>1, TwiceGrows
    <2>2. CASE y = x /\ q = r
      BY <1>3, <1>6, <2>2
    <2>3. CASE q /= r
      BY <1>3, <1>5, <1>7, <2>1, <2>3 DEF RedoMarks
    <2>4. CASE y /= x /\ q = r
      <3>1. OpsMatch(trxes[y], log, y, pos - 1) /\ [type |-> "DELETE", rid |-> r] \in trxes[y]
        BY <1>5, <2>4 DEF RedoTrxes, DeleteOp
      <3>2. ~RolledBack(log, y, pos - 1)
        BY <1>1, <3>1, OpLogged
      <3>3. \E d \in 1 .. pos - 1 : log[d].trx = y /\ log[d].type = "DELETE" /\ log[d].rid = r
        BY <3>1 DEF OpsMatch
      <3>4. DeletedTwice(log, pos)
        BY <1>0, <1>1, <3>2, <3>3 DEF DeletedTwice
      <3> QED
        BY <3>4
    <2> QED
      BY <2>2, <2>3, <2>4
  <1> QED
    BY <1>9, <1>10, <1>11

\* A redone commit.
LEMMA RedoCommitAsserts ==
  ASSUME RecoveryTypeOK, LogOrdered(log), RedoCommit, RedoTrxes, RedoAsserts
  PROVE  RedoAsserts'
  <1> SUFFICES ASSUME NEW x, x = Record.trx PROVE RedoAsserts'
    OBVIOUS
  <1> DEFINE ops == trxes[x]
             ins(r) == [type |-> "INSERT", rid |-> r] \in ops
             del(r) == [type |-> "DELETE", rid |-> r] \in ops
  <1>0. /\ Redoing /\ Advance /\ Known /\ Record.type = "MTR_COMMIT" /\ mode = "redo"
        /\ current_trx_id' = current_trx_id /\ trxes' = [trxes EXCEPT ![Record.trx] = {}]
        /\ Record.type \in {"MTR_COMMIT", "MTR_ROLLBACK"}
    BY DEF RedoCommit, Redoing
  <1>1. /\ log' = log /\ pos' - 1 = pos /\ pos \in Nat /\ pos - 1 \in 0 .. pos /\ pos - 1 \in Nat
        /\ pos = (pos - 1) + 1
        /\ \A i \in 1 .. pos : i \in 1 .. pos - 1 \/ i = pos
        /\ \A i \in 1 .. pos - 1 : i \in 1 .. pos /\ i \in DOMAIN log
        /\ 1 .. pos - 1 \subseteq 1 .. pos /\ Record = log[pos]
        /\ \A i \in DOMAIN log : log[i] \in LogRecord
    BY <1>0, Advances
  <1>2. /\ DOMAIN trxes' = DOMAIN trxes /\ x \in DOMAIN trxes /\ trxes'[x] = {}
        /\ \A y \in DOMAIN trxes : y /= x => trxes'[y] = trxes[y]
        /\ OpsMatch(ops, log, x, pos - 1)
    BY <1>0, RedoEndTrxes DEF Known
  <1>3. \A y : y /= x \/ Ended(log, x, pos - 1) =>
          /\ Ended(log, y, pos) <=> Ended(log, y, pos - 1)
          /\ RolledBack(log, y, pos) <=> RolledBack(log, y, pos - 1)
    <2>1. \A y : y /= x => ~Ends(log, pos, y)
      BY <1>1 DEF Ends
    <2> QED
      BY <1>0, <2>1, StepFates
  <1>4. Ended(log, x, pos) /\ (~Ended(log, x, pos - 1) => ~RolledBack(log, x, pos))
    <2>1. Ends(log, (pos - 1) + 1, x) /\ log[(pos - 1) + 1].type = "MTR_COMMIT"
      BY <1>0, <1>1 DEF Ends
    <2>2. CASE Ended(log, x, pos - 1)
      BY <1>1, <2>2, Growing
    <2>3. CASE ~Ended(log, x, pos - 1)
      BY <1>1, <2>1, <2>3, FirstEnd
    <2> QED
      BY <2>2, <2>3
  <1>5. ASSUME NEW q \in Rids, rows'[q] /= NoRow
        PROVE  /\ rows[q] /= NoRow
               /\ rows'[q].end = IF del(q) /\ ~ins(q) THEN Record.xid ELSE rows[q].end
    BY <1>5, CommitRows
  <1>6. ASSUME NEW q \in Rids, rows[q] /= NoRow, ~ins(q) PROVE rows'[q].begin = rows[q].begin
    BY <1>6, CommitRows
  <1> SUFFICES ASSUME ~SlotReused(log, pos) PROVE RedoDeletes' /\ RedoBegins' /\ RedoMarks'
    BY <1>1 DEF RedoAsserts
  <1>7. RedoDeletes /\ RedoBegins /\ RedoMarks /\ ~SlotReused(log, pos - 1)
    <2>1. ~SlotReused(log, pos - 1)
      BY <1>1, Growing
    <2> QED
      BY <1>0, <2>1 DEF RedoAsserts
  <1>8. RedoDeletes'
    <2>1. \A d \in 1 .. pos - 1 : \A q : Standing(d, q) /\ log[d].trx /= x => Standing(d, q)'
      BY <1>1, <1>2, <1>3 DEF Standing, InsertOf, DeleteOf, DeleteOp
    <2>2. \A d \in 1 .. pos - 1 : \A q : DeleteOf(d, q) /\ log[d].trx = x /\ ~RolledBack(log, x, pos - 1)
            => Standing(d, q)'
      BY <1>1, <1>3, <1>4 DEF Standing, DeleteOf
    <2>3. \A d \in 1 .. pos - 1 : \A q : Standing(d, q) => Standing(d, q)'
      BY <2>1, <2>2 DEF Standing
    <2> SUFFICES ASSUME NEW q \in Rids, rows'[q] /= NoRow, rows'[q].end /= MaxTrxId
                 PROVE  \E d \in 1 .. pos : Standing(d, q)'
      BY <1>1 DEF RedoDeletes
    <2>4. CASE del(q)
      <3>1. ~RolledBack(log, x, pos - 1)
        BY <1>1, <1>2, <2>4, OpLogged
      <3>2. PICK d \in 1 .. pos - 1 : log[d].trx = x /\ log[d].type = "DELETE" /\ log[d].rid = q
        BY <1>2, <2>4 DEF OpsMatch
      <3> QED
        BY <1>1, <2>2, <3>1, <3>2 DEF DeleteOf
    <2>5. CASE ~del(q)
      <3>1. rows[q] /= NoRow /\ rows'[q].end = rows[q].end
        BY <1>5, <2>5
      <3> QED
        BY <1>1, <1>7, <2>3, <3>1 DEF RedoDeletes
    <2> QED
      BY <2>4, <2>5
  <1>9. RedoBegins'
    <2> SUFFICES ASSUME NEW i \in 1 .. pos, log[i].type = "INSERT", log[i].trx \in DOMAIN trxes,
                        ~Ended(log, log[i].trx, pos)
                 PROVE  rows'[log[i].rid].begin = -log[i].trx
      BY <1>1, <1>2 DEF RedoBegins
    <2>1. i \in 1 .. pos - 1 /\ log[i].rid \in Rids /\ log[i].trx /= x
      BY <1>0, <1>1, <1>4, RecordFields
    <2>2. ~Ended(log, log[i].trx, pos - 1)
      BY <1>3, <2>1
    <2>3. rows[log[i].rid].begin = -log[i].trx
      BY <1>7, <2>1, <2>2 DEF RedoBegins
    <2>4. ~ins(log[i].rid)
      BY <1>1, <1>2, <1>7, <2>1, <2>2, OneFate, ForeignInsert
    <2>5. rows'[log[i].rid].begin = rows[log[i].rid].begin
      BY <1>6, <2>1, <2>4, CommitRows
    <2> QED
      BY <2>3, <2>5
  <1>10. RedoMarks'
    <2> SUFFICES ASSUME ~DeletedTwice(log, pos), NEW y \in DOMAIN trxes, NEW q \in Rids,
                        DeleteOp(q) \in trxes'[y], rows'[q] /= NoRow
                 PROVE  rows'[q].end = -y
      BY <1>1, <1>2 DEF RedoMarks, DeleteOp
    <2>1. ~DeletedTwice(log, pos - 1)
      BY <1>1, TwiceGrows
    <2>2. y /= x /\ DeleteOp(q) \in trxes[y]
      BY <1>2
    <2>3. ~del(q)
      <3> SUFFICES ASSUME del(q) PROVE FALSE
        OBVIOUS
      <3>1. DeleteOp(q) \in trxes[x]
        BY DEF DeleteOp
      <3> QED
        BY <1>1, <1>2, <2>1, <2>2, <3>1, OneDeletes
    <2>4. rows[q] /= NoRow /\ rows'[q].end = rows[q].end
      BY <1>5, <2>3
    <2> QED
      BY <1>7, <2>1, <2>2, <2>4 DEF RedoMarks
  <1> QED
    BY <1>8, <1>9, <1>10

\* The rollback of x, which the record at pos asks for or which recover() does
\* at the end of the log.
LEMMA UndoAsserts ==
  ASSUME RecoveryTypeOK, NEW x \in DOMAIN trxes, Undo(trxes[x]), log' = log, RedoTrxes, RedoTable,
         ~SlotReused(log, pos - 1), pos - 1 \in Nat, pos' - 1 \in Nat,
         1 .. pos - 1 \subseteq DOMAIN log, 1 .. pos - 1 \subseteq 1 .. pos' - 1,
         \A i \in 1 .. pos' - 1 : i \in 1 .. pos - 1 \/ ~IsData(log[i]),
         \A y : y /= x \/ Ended(log, x, pos - 1) =>
           /\ Ended(log, y, pos' - 1) <=> Ended(log, y, pos - 1)
           /\ RolledBack(log, y, pos' - 1) <=> RolledBack(log, y, pos - 1),
         \A y \in DOMAIN trxes : y /= x => y \in DOMAIN trxes' /\ trxes'[y] = trxes[y],
         \A y \in DOMAIN trxes' : y \in DOMAIN trxes,
         x \in DOMAIN trxes' => Ended(log, x, pos' - 1) /\ trxes'[x] = {},
         RedoDeletes, RedoBegins, RedoMarks
  PROVE  RedoDeletes' /\ RedoBegins' /\ RedoMarks'
  <1> DEFINE ops == trxes[x]
             ins(r) == [type |-> "INSERT", rid |-> r] \in ops
             del(r) == [type |-> "DELETE", rid |-> r] \in ops
  <1>1. OpsMatch(ops, log, x, pos - 1) /\ \A i \in DOMAIN log : log[i] \in LogRecord
    BY ElementOfSeq, LenProperties DEF RedoTrxes, RecoveryTypeOK
  <1>2. RedoDeletes'
    <2> SUFFICES ASSUME NEW q \in Rids, rows'[q] /= NoRow, rows'[q].end /= MaxTrxId
                 PROVE  \E d \in 1 .. pos' - 1 : Standing(d, q)'
      BY DEF RedoDeletes
    <2>1. ~UndoneRecord(q, ops) /\ rows[q] /= NoRow
      BY UndoRows
    <2>2. ~del(q)
      <3> SUFFICES ASSUME del(q) PROVE FALSE
        OBVIOUS
      <3>1. rows'[q] = [rows[q] EXCEPT !.end = MaxTrxId] /\ rows[q] \in Row /\ MaxTrxId \in Int
        BY <2>1, UndoRows, RowFields, ConstantsAssumption
      <3> QED
        BY <3>1, SetEnd
    <2>3. rows'[q] = rows[q]
      BY <2>1, <2>2, UndoRows
    <2>4. PICK d \in 1 .. pos - 1 : Standing(d, q)
      BY <2>1, <2>3 DEF RedoDeletes
    <2>5. d \in 1 .. pos' - 1
      OBVIOUS
    <2>6. CASE log[d].trx /= x
      BY <2>4, <2>5, <2>6 DEF Standing, InsertOf, DeleteOf, DeleteOp
    <2>7. CASE log[d].trx = x /\ Ended(log, x, pos - 1)
      BY <2>4, <2>5, <2>7 DEF Standing, DeleteOf
    <2>8. CASE log[d].trx = x /\ ~Ended(log, x, pos - 1)
      <3>1. PICK i \in 1 .. pos - 1 : log[i].type = "INSERT" /\ log[i].rid = q /\ log[i].trx = x
        BY <2>2, <2>4, <2>8 DEF Standing, InsertOf, DeleteOp
      <3>2. ins(q)
        BY <1>1, <2>8, <3>1, InsertInOps
      <3>3. rows[q].key = log[i].key /\ <<log[i].key, q>> \in index
        BY <2>8, <3>1 DEF RedoTable, Kept
      <3>4. UndoneRecord(q, ops)
        BY <2>1, <3>2, <3>3 DEF UndoneRecord
      <3> QED
        BY <2>1, <3>4
    <2> QED
      BY <2>6, <2>7, <2>8
  <1>3. RedoBegins'
    <2> SUFFICES ASSUME NEW i \in 1 .. pos' - 1, log[i].type = "INSERT", log[i].trx \in DOMAIN trxes',
                        ~Ended(log, log[i].trx, pos' - 1)
                 PROVE  rows'[log[i].rid].begin = -log[i].trx
      BY DEF RedoBegins
    <2>1. i \in 1 .. pos - 1 /\ log[i].rid \in Rids /\ log[i].trx /= x /\ log[i].trx \in DOMAIN trxes
      BY <1>1, RecordFields DEF IsData
    <2>2. ~Ended(log, log[i].trx, pos - 1)
      BY <2>1
    <2>3. rows[log[i].rid].begin = -log[i].trx
      BY <2>1, <2>2 DEF RedoBegins
    <2>4. ~ins(log[i].rid)
      BY <1>1, <2>1, <2>2, OneFate, ForeignInsert
    <2>5. rows[log[i].rid] /= NoRow
      BY <2>1, <2>2 DEF RedoTable, Kept
    <2>6. rows'[log[i].rid].begin = rows[log[i].rid].begin
      BY <2>1, <2>4, <2>5, UndoKeeps
    <2> QED
      BY <2>3, <2>6
  <1>4. RedoMarks'
    <2> SUFFICES ASSUME ~DeletedTwice(log, pos' - 1), NEW y \in DOMAIN trxes', NEW q \in Rids,
                        DeleteOp(q) \in trxes'[y], rows'[q] /= NoRow
                 PROVE  rows'[q].end = -y
      BY DEF RedoMarks, DeleteOp
    <2>1. ~DeletedTwice(log, pos - 1)
      BY TwiceGrows
    <2>2. y /= x /\ y \in DOMAIN trxes /\ DeleteOp(q) \in trxes[y]
      OBVIOUS
    <2>3. ~del(q)
      <3> SUFFICES ASSUME del(q) PROVE FALSE
        OBVIOUS
      <3>1. DeleteOp(q) \in trxes[x]
        BY DEF DeleteOp
      <3> QED
        BY <2>1, <2>2, <3>1, OneDeletes
    <2>4. rows[q] /= NoRow /\ rows'[q] = rows[q]
      BY <2>3, UndoRows
    <2> QED
      BY <2>1, <2>2, <2>4 DEF RedoMarks
  <1> QED
    BY <1>2, <1>3, <1>4

\* A redone rollback.
LEMMA RedoRollbackAsserts ==
  ASSUME RecoveryTypeOK, LogOrdered(log), RedoRollback, RedoTrxes, RedoRows, RedoAsserts
  PROVE  RedoAsserts'
  <1> SUFFICES ASSUME NEW x, x = Record.trx PROVE RedoAsserts'
    OBVIOUS
  <1>0. /\ Redoing /\ Advance /\ Known /\ Record.type = "MTR_ROLLBACK" /\ mode = "redo"
        /\ current_trx_id' = current_trx_id /\ trxes' = [trxes EXCEPT ![Record.trx] = {}]
        /\ Undo(trxes[x]) /\ Record.type \in {"MTR_COMMIT", "MTR_ROLLBACK"}
    BY DEF RedoRollback, Redoing
  <1>1. /\ log' = log /\ pos' - 1 = pos /\ pos \in Nat /\ pos - 1 \in 0 .. pos /\ pos - 1 \in Nat
        /\ pos = (pos - 1) + 1 /\ pos \in 1 .. pos
        /\ \A i \in 1 .. pos : i \in 1 .. pos - 1 \/ i = pos
        /\ 1 .. pos - 1 \subseteq 1 .. pos /\ Record = log[pos] /\ 1 .. pos - 1 \subseteq DOMAIN log
    BY <1>0, Advances
  <1>2. /\ DOMAIN trxes' = DOMAIN trxes /\ x \in DOMAIN trxes /\ trxes'[x] = {}
        /\ \A y \in DOMAIN trxes : y /= x => trxes'[y] = trxes[y]
    BY <1>0, RedoEndTrxes DEF Known
  <1>3. \A y : y /= x \/ Ended(log, x, pos - 1) =>
          /\ Ended(log, y, pos) <=> Ended(log, y, pos - 1)
          /\ RolledBack(log, y, pos) <=> RolledBack(log, y, pos - 1)
    <2>1. \A y : y /= x => ~Ends(log, pos, y)
      BY <1>1 DEF Ends
    <2> QED
      BY <1>0, <2>1, StepFates
  <1>4. Ended(log, x, pos)
    BY <1>0, <1>1 DEF Ended, Ends
  <1>5. \A i \in 1 .. pos : i \in 1 .. pos - 1 \/ ~IsData(log[i])
    BY <1>0, <1>1 DEF IsData
  <1> SUFFICES ASSUME ~SlotReused(log, pos) PROVE RedoDeletes' /\ RedoBegins' /\ RedoMarks'
    BY <1>1 DEF RedoAsserts
  <1>6. ~SlotReused(log, pos - 1)
    BY <1>1, Growing
  <1>7. RedoDeletes /\ RedoBegins /\ RedoMarks /\ RedoTable
    BY <1>0, <1>6 DEF RedoAsserts, RedoRows
  <1>8. pos' - 1 \in Nat
    BY <1>1
  <1> QED
    BY <1>0, <1>1, <1>2, <1>3, <1>4, <1>5, <1>6, <1>7, <1>8, UndoAsserts

\* A transaction left over at the end of the log.
LEMMA UndoneAsserts ==
  ASSUME RecoveryTypeOK, UndoUnfinished, trxes /= NoOps, RedoTrxes, RedoRows, RedoAsserts
  PROVE  RedoAsserts'
  <1>0. mode = "redo" /\ pos = Len(log) + 1 /\ log' = log /\ pos' = pos /\ mode' = mode
    BY DEF UndoUnfinished, logVars
  <1>1. PICK x \in DOMAIN trxes : Undo(trxes[x]) /\ trxes' = [y \in DOMAIN trxes \ {x} |-> trxes[y]]
    BY DEF UndoUnfinished
  <1>2. /\ DOMAIN trxes' = DOMAIN trxes \ {x} /\ x \notin DOMAIN trxes'
        /\ \A y \in DOMAIN trxes : y /= x => y \in DOMAIN trxes' /\ trxes'[y] = trxes[y]
    BY <1>1
  <1>3. pos - 1 \in Nat /\ 1 .. pos - 1 \subseteq DOMAIN log /\ pos' - 1 = pos - 1
    BY <1>0, LenProperties DEF RecoveryTypeOK
  <1> SUFFICES ASSUME ~SlotReused(log, pos - 1) PROVE RedoDeletes' /\ RedoBegins' /\ RedoMarks'
    BY <1>0 DEF RedoAsserts
  <1>4. RedoDeletes /\ RedoBegins /\ RedoMarks /\ RedoTable
    BY <1>0 DEF RedoAsserts, RedoRows
  <1> QED
    BY <1>0, <1>1, <1>2, <1>3, <1>4, UndoAsserts

\* The record that an open transaction deleted is there, unless the one that
\* inserted it was rolled back at the end of the log.
LEMMA DeletedThere ==
  ASSUME RecoveryTypeOK, LogOrdered(log), RedoTrxes, RedoTable, DeletesHeld,
         NEW j \in DOMAIN log, j <= pos, log[j].type = "DELETE", ~SlotReused(log, j),
         log[j].trx \in DOMAIN trxes, ~Ended(log, log[j].trx, pos - 1)
  PROVE  rows[log[j].rid] /= NoRow \/ (pos > Len(log) /\ CommitLost(log))
  <1>1. /\ Len(log) \in Nat /\ DOMAIN log = 1 .. Len(log) /\ pos \in 1 .. Len(log) + 1 /\ pos - 1 \in Nat
        /\ 1 .. pos - 1 \subseteq DOMAIN log /\ pos - 1 \in 0 .. Len(log) /\ j \in Nat
    BY LenProperties DEF RecoveryTypeOK
  <1>2. PICK i \in 1 .. j - 1 : /\ log[i].type = "INSERT" /\ log[i].rid = log[j].rid
                                /\ log[i].trx = log[j].trx \/ Safe(log[i].trx)
    BY DEF DeletesHeld, InsertOf
  <1>3. i \in 1 .. pos - 1 /\ i \in DOMAIN log /\ i - 1 \in 0 .. pos - 1
    BY <1>1
  <1>4. CASE Kept(log[i].trx)
    BY <1>2, <1>3, <1>4 DEF RedoTable
  <1>5. CASE ~Kept(log[i].trx)
    <2>1. log[i].trx /= log[j].trx /\ ~RolledBack(log, log[i].trx, Len(log))
      BY <1>2, <1>5 DEF Kept, Safe
    <2>2. ~Ended(log, log[i].trx, pos - 1) /\ log[i].trx \notin DOMAIN trxes
      <3>1. ~RolledBack(log, log[i].trx, pos - 1)
        BY <1>1, <2>1, Growing
      <3>2. ~Ended(log, log[i].trx, pos - 1)
        BY <1>1, <1>5, <3>1, OneFate DEF Kept
      <3> QED
        BY <1>5, <3>2 DEF Kept
    <2>3. pos > Len(log)
      <3>1. Begun(log, log[i].trx, i - 1)
        BY <1>2, <1>3 DEF LogOrdered, RecordOK, IsData
      <3>2. Begun(log, log[i].trx, pos - 1)
        BY <1>1, <1>3, <3>1, Growing
      <3>3. ~(pos <= Len(log))
        BY <2>2, <3>2 DEF RedoTrxes, Begun
      <3> QED
        BY <1>1, <3>3
    <2>4. DOMAIN log = 1 .. pos - 1
      BY <1>1, <2>3
    <2>5. \A e \in DOMAIN log : ~Ends(log, e, log[i].trx)
      BY <2>2, <2>4 DEF Ended
    <2> QED
      BY <1>2, <2>1, <2>3, <2>5 DEF CommitLost
  <1> QED
    BY <1>4, <1>5

\* What commit_with_trx_id and rollback assert of the operations of x.
LEMMA OpAsserts ==
  ASSUME RecoveryTypeOK, LogOrdered(log), RedoTrxes, RedoTable, DeletesHeld, RedoBegins, RedoMarks,
         ~SlotReused(log, pos - 1), ~DeletedTwice(log, pos - 1), ~(pos > Len(log) /\ CommitLost(log)),
         NEW x \in DOMAIN trxes
  PROVE  CommitAsserts(x) /\ RollbackAsserts(x)
  <1> SUFFICES ASSUME NEW op \in trxes[x]
               PROVE  /\ rows[op.rid] /= NoRow
                      /\ op.type = "INSERT" => rows[op.rid].begin = -x /\ <<rows[op.rid].key, op.rid>> \in index
                      /\ op.type = "DELETE" => rows[op.rid].end = -x
    BY DEF CommitAsserts, RollbackAsserts
  <1>1. /\ Len(log) \in Nat /\ DOMAIN log = 1 .. Len(log) /\ pos \in 1 .. Len(log) + 1 /\ pos - 1 \in Nat
        /\ 1 .. pos - 1 \subseteq DOMAIN log
    BY LenProperties DEF RecoveryTypeOK
  <1>2. op \in Operation /\ OpsMatch(trxes[x], log, x, pos - 1)
    BY DEF RecoveryTypeOK, RedoTrxes
  <1>3. op.rid \in Rids /\ op.type \in {"INSERT", "DELETE"} /\ op = [type |-> op.type, rid |-> op.rid]
    BY <1>2 DEF Operation
  <1>4. ~Ended(log, x, pos - 1)
    BY <1>2 DEF OpsMatch
  <1>5. PICK i \in 1 .. pos - 1 : log[i].trx = x /\ log[i].type = op.type /\ log[i].rid = op.rid
    BY <1>2 DEF OpsMatch
  <1>6. i \in DOMAIN log /\ i <= pos /\ i \in 0 .. pos - 1
    BY <1>1
  <1>7. CASE op.type = "INSERT"
    <2>1. rows[op.rid] /= NoRow /\ <<rows[op.rid].key, op.rid>> \in index
      BY <1>4, <1>5, <1>7 DEF RedoTable, Kept
    <2>2. rows[op.rid].begin = -x
      BY <1>4, <1>5, <1>7 DEF RedoBegins
    <2> QED
      BY <1>7, <2>1, <2>2
  <1>8. CASE op.type = "DELETE"
    <2>1. ~SlotReused(log, i)
      BY <1>1, <1>6, Growing
    <2>2. rows[op.rid] /= NoRow
      BY <1>4, <1>5, <1>6, <1>8, <2>1, DeletedThere
    <2>3. DeleteOp(op.rid) \in trxes[x]
      BY <1>3, <1>8 DEF DeleteOp
    <2>4. rows[op.rid].end = -x
      BY <1>3, <2>2, <2>3 DEF RedoMarks
    <2> QED
      BY <1>8, <2>2, <2>4
  <1> QED
    BY <1>3, <1>7, <1>8

\* An assertion that fails on the record to be redone.
LEMMA RecordAsserts ==
  ASSUME RecoveryTypeOK, LogOrdered(log), Redoing, Known, RedoTrxes, RedoRows, RedoAsserts, DeletesHeld,
         \/ Record.type = "DELETE" /\ ~DeleteAsserts(Record.rid)
         \/ Record.type = "MTR_COMMIT" /\ ~CommitAsserts(Record.trx)
         \/ Record.type = "MTR_ROLLBACK" /\ ~RollbackAsserts(Record.trx)
  PROVE  SlotReused(log, pos) \/ DeletedTwice(log, pos)
  <1> SUFFICES ASSUME ~SlotReused(log, pos), ~DeletedTwice(log, pos) PROVE FALSE
    OBVIOUS
  <1>1. /\ pos \in Nat /\ pos - 1 \in Nat /\ pos \in DOMAIN log /\ ~(pos > Len(log)) /\ pos <= pos
        /\ pos - 1 \in 0 .. pos /\ 1 .. pos - 1 \subseteq 1 .. pos /\ pos \in 1 .. pos
        /\ log[pos] = Record /\ Record \in LogRecord /\ RecordOK(log, pos) /\ mode = "redo"
    BY RedoRecord DEF Redoing
  <1>2. ~SlotReused(log, pos - 1) /\ ~DeletedTwice(log, pos - 1)
    BY <1>1, Growing, TwiceGrows
  <1>3. RedoTable /\ RedoDeletes /\ RedoBegins /\ RedoMarks
    BY <1>1, <1>2 DEF RedoRows, RedoAsserts
  <1>4. CASE Record.type = "DELETE" /\ ~DeleteAsserts(Record.rid)
    <2>1. Record.rid \in Rids /\ log[pos].trx \in DOMAIN trxes /\ ~Ended(log, log[pos].trx, pos)
      BY <1>1, <1>4, RecordFields DEF Known, RecordOK, IsData
    <2>2. ~Ended(log, log[pos].trx, pos - 1)
      BY <1>1, <2>1, Growing
    <2>3. rows[Record.rid] /= NoRow
      BY <1>1, <1>3, <1>4, <2>1, <2>2, DeletedThere
    <2>4. PICK d \in 1 .. pos - 1 : Standing(d, Record.rid)
      BY <1>3, <1>4, <2>1, <2>3 DEF RedoDeletes, DeleteAsserts
    <2>5. log[d].type = "DELETE" /\ log[d].rid = Record.rid /\ ~RolledBack(log, log[d].trx, pos - 1)
      BY <2>4 DEF Standing, DeleteOf
    <2>6. DeletedTwice(log, pos)
      BY <1>1, <1>4, <2>5 DEF DeletedTwice
    <2> QED
      BY <2>6
  <1>5. CASE Record.type /= "DELETE"
    <2>1. CommitAsserts(Record.trx) /\ RollbackAsserts(Record.trx)
      BY <1>1, <1>2, <1>3, OpAsserts DEF Known
    <2> QED
      BY <1>5, <2>1
  <1> QED
    BY <1>4, <1>5

\* recover() gives up for the reasons of RefusedLogs only.
LEMMA RefusedStep ==
  ASSUME RecoveryTypeOK, LogOrdered(log), RedoFails, RedoInv, RedoRows, RedoAsserts,
         DeletesHeld
  PROVE  RefusedLogs'
  <1>0. mode' = "failed" /\ log' = log /\ pos' = pos /\ torn' = torn /\ mode = "redo"
    BY DEF RedoFails, AssertionFails, logVars, Redoing
  <1>a. ASSUME pos <= Len(log), SlotReused(log, pos) \/ DeletedTwice(log, pos) PROVE RefusedLogs'
    <2>1. pos \in Nat /\ Len(log) \in Nat
      BY LenProperties DEF RecoveryTypeOK
    <2>2. Reached' = pos
      BY <1>0, <1>a, <2>1 DEF Reached
    <2> QED
      BY <1>0, <1>a, <2>2 DEF RefusedLogs
  <1>1. CASE Redoing /\ Record.type /= "MTR_BEGIN" /\ ~Known
    <2>1. /\ RecordOK(log, pos) /\ log[pos] = Record /\ ~(pos > Len(log)) /\ pos <= Len(log)
      BY <1>1, RedoRecord DEF RecoveryTypeOK
    <2>2. Record.trx = NoTrxId
      <3> SUFFICES ASSUME Record.trx /= NoTrxId PROVE FALSE
        OBVIOUS
      <3>1. Begun(log, Record.trx, pos - 1)
        BY <1>1, <2>1 DEF RecordOK
      <3> QED
        BY <1>0, <1>1, <2>1, <3>1 DEF RedoInv, RedoTrxes, Begun, Known
    <2> QED
      BY <1>0, <2>1, <2>2 DEF RefusedLogs, Record
  <1>2. CASE Redoing /\ Record.type = "INSERT" /\ DuplicateKey(index, Record.key, Record.rid)
    <2>1. /\ log[pos] = Record /\ pos <= Len(log) /\ ~(pos > Len(log)) /\ pos \in Nat /\ pos - 1 \in Nat
          /\ pos - 1 \in 0 .. pos /\ pos \in 1 .. pos
          /\ \A i \in 1 .. pos - 1 : i \in 1 .. pos - 1
      BY <1>2, RedoRecord DEF RecoveryTypeOK
    <2>2. CASE SlotReused(log, pos - 1)
      <3>1. SlotReused(log, pos)
        BY <2>1, <2>2, Growing
      <3> QED
        BY <1>a, <2>1, <3>1
    <2>3. CASE ~SlotReused(log, pos - 1)
      <3>1. RedoTable
        BY <1>0, <2>3 DEF RedoRows
      <3>2. PICK e \in index : e[1] = Record.key /\ (~Unique => e[2] = Record.rid)
        BY <1>2 DEF DuplicateKey
      <3>3. PICK i \in 1 .. pos - 1 : Holds(i, e[2]) /\ log[i].key = e[1]
        BY <3>1 DEF RedoTable
      <3>4. log[i].type = "INSERT" /\ log[i].rid = e[2] /\ ~RolledBack(log, log[i].trx, pos - 1)
        BY <2>1, <3>3, KeptFate DEF Holds
      <3>5. CASE Unique
        <4>1. Unique /\ \E j \in 1 .. pos - 1 : /\ log[j].type = "INSERT" /\ log[j].key = Record.key
                                                /\ ~RolledBack(log, log[j].trx, pos - 1)
          BY <3>2, <3>3, <3>4, <3>5
        <4> QED
          BY <1>0, <1>2, <2>1, <4>1 DEF RefusedLogs, Record
      <3>6. CASE ~Unique
        <4>1. SlotReused(log, pos)
          BY <1>2, <2>1, <3>2, <3>4, <3>6 DEF SlotReused, IsData
        <4> QED
          BY <1>a, <2>1, <4>1
      <3> QED
        BY <3>5, <3>6
    <2> QED
      BY <2>2, <2>3
  <1>3. CASE mode = "redo" /\ pos = Len(log) + 1 /\ torn
    <2>1. pos > Len(log)
      BY <1>3 DEF RecoveryTypeOK
    <2> QED
      BY <1>0, <1>3, <2>1 DEF RefusedLogs
  <1>4. CASE /\ Redoing /\ Known
             /\ \/ Record.type = "DELETE" /\ ~DeleteAsserts(Record.rid)
                \/ Record.type = "MTR_COMMIT" /\ ~CommitAsserts(Record.trx)
                \/ Record.type = "MTR_ROLLBACK" /\ ~RollbackAsserts(Record.trx)
    <2>1. SlotReused(log, pos) \/ DeletedTwice(log, pos)
      BY <1>0, <1>4, RecordAsserts DEF RedoInv
    <2> QED
      BY <1>4, <1>a, <2>1 DEF Redoing
  <1>5. CASE pos = Len(log) + 1 /\ \E x \in DOMAIN trxes : FirstLeft(x) /\ ~RollbackAsserts(x)
    <2>1. pos > Len(log) /\ Len(log) = pos - 1
      BY <1>5, LenProperties DEF RecoveryTypeOK
    <2>2. Reached' = pos - 1
      BY <1>0, <2>1 DEF Reached
    <2>3. CASE SlotReused(log, pos - 1) \/ DeletedTwice(log, pos - 1)
      BY <1>0, <2>2, <2>3 DEF RefusedLogs
    <2>4. CASE ~SlotReused(log, pos - 1) /\ ~DeletedTwice(log, pos - 1)
      <3>1. RedoTable /\ RedoBegins /\ RedoMarks /\ RedoTrxes
        BY <1>0, <2>4 DEF RedoInv, RedoRows, RedoAsserts
      <3>2. pos > Len(log) /\ CommitLost(log)
        BY <1>5, <2>4, <3>1, OpAsserts
      <3> QED
        BY <1>0, <3>2 DEF RefusedLogs
    <2> QED
      BY <2>3, <2>4
  <1> QED
    BY <1>1, <1>2, <1>3, <1>4, <1>5 DEF RedoFails, AssertionFails

\* The server comes up.
LEMMA ServerUp ==
  ASSUME RecoveryTypeOK, RecoveryTypeOK', LogOrdered(log), UndoUnfinished, trxes = NoOps, RedoInv, RedoRows
  PROVE  UpInv' /\ UpIndex' /\ UpMarks' /\ UpRows' /\ TableMatchesLog' /\ RecoveredTableClean' /\ UpHeld'
  <1>0. /\ mode = "redo" /\ pos = Len(log) + 1 /\ log' = log /\ pos' = pos /\ mode' = "up"
        /\ current_trx_id' = current_trx_id /\ log \in Seq(LogRecord) /\ rows' = rows /\ index' = index
        /\ crashes' = crashes /\ UNCHANGED recoveryIdle
    BY DEF UndoUnfinished, logVars, RecoveryTypeOK, tableVars
  <1>1. /\ crashes > 0 /\ SessionsGone /\ MarksDrawn /\ RedoTrxes /\ RedoEnds
    BY <1>0 DEF RedoInv
  <1>2. pos - 1 = Len(log) /\ Len(log) \in Nat /\ DOMAIN log = 1 .. Len(log) /\ DOMAIN trxes = {}
        /\ current_trx_id \in Nat /\ crashes /= 0 /\ \A i \in DOMAIN log : log[i] \in LogRecord
    BY <1>0, <1>1, LenProperties, ElementOfSeq DEF RecoveryTypeOK, TypeOK, NoOps
  <1>3. SessionsGone'
    BY <1>0, <1>1 DEF SessionsGone, recoveryIdle
  <1>4. \A i \in DOMAIN log : log[i].trx <= current_trx_id
    <2> SUFFICES ASSUME NEW i \in DOMAIN log PROVE log[i].trx <= current_trx_id
      OBVIOUS
    <2>1. RecordOK(log, i) /\ i \in 1 .. Len(log) /\ i - 1 \in 0 .. Len(log)
      BY <1>2 DEF LogOrdered
    <2>2. CASE log[i].type = "MTR_BEGIN"
      BY <1>1, <1>2, <2>2 DEF RedoTrxes
    <2>3. CASE log[i].trx = NoTrxId
      BY <1>2, <2>3 DEF NoTrxId
    <2>4. CASE log[i].type /= "MTR_BEGIN" /\ log[i].trx /= NoTrxId
      <3>1. Begun(log, log[i].trx, i - 1)
        BY <2>1, <2>4 DEF RecordOK
      <3>2. Begun(log, log[i].trx, pos - 1)
        BY <1>2, <2>1, <3>1, Growing
      <3> QED
        BY <1>1, <3>2 DEF RedoTrxes, Begun
    <2> QED
      BY <2>2, <2>3, <2>4
  <1>5. SessionsOK'
    <2>1. OpsMatch({}, log, NoTrxId, Len(log))
      BY <1>0, OpsNone
    <2>2. ASSUME NEW s \in Sessions PROVE SessionOK(s)'
      <3>1. /\ phase'[s] = "idle" /\ ~started'[s] /\ trx_id'[s] = NoTrxId
            /\ operations'[s] = {} /\ todo'[s] = {}
        BY <1>3 DEF SessionsGone
      <3> QED
        BY <1>0, <2>1, <3>1 DEF SessionOK, Ending
    <2>3. \A s, t \in Sessions : trx_id'[s] = NoTrxId
      BY <1>3 DEF SessionsGone
    <2> QED
      BY <1>0, <1>4, <2>2, <2>3 DEF SessionsOK
  <1>6. UpInv'
    <2>1. QuietAfterRestart'
      BY <1>3 DEF QuietAfterRestart, SessionsGone
    <2>2. MarksDrawn'
      BY <1>0, <1>1 DEF MarksDrawn
    <2> QED
      BY <1>5, <2>1, <2>2 DEF UpInv
  <1>7. UpMarks'
    BY <1>3 DEF UpMarks, IdsNotReused, SessionsGone
  <1>8. UpRows'
    BY <1>3 DEF UpRows, LiveRows, Live, SessionsGone
  <1>9. ASSUME ~SlotReused(log, Len(log)) PROVE RedoTable /\ CommittedRows(Len(log))
    BY <1>0, <1>2, <1>9 DEF RedoRows
  <1>10. UpIndex'
    <2> SUFFICES ASSUME ~SlotReused(log, Len(log)), NEW e \in index
                 PROVE  rows[e[2]] /= NoRow /\ rows[e[2]].key = e[1]
      BY <1>0, <1>2 DEF UpIndex, IndexEntriesLive
    <2>1. PICK i \in 1 .. pos - 1 : Holds(i, e[2]) /\ log[i].key = e[1]
      BY <1>9 DEF RedoTable
    <2>2. log[i].type = "INSERT" /\ log[i].rid = e[2] /\ Kept(log[i].trx)
      BY <2>1 DEF Holds
    <2> QED
      BY <1>9, <2>1, <2>2 DEF RedoTable
  <1>11. TableMatchesLog'
    BY <1>0, <1>9 DEF TableMatchesLog, CommittedRows
  <1>12. RecoveredTableClean'
    <2> SUFFICES ASSUME ~SlotReused(log, Len(log)), NEW r \in Rids, rows[r] /= NoRow
                 PROVE  /\ rows[r].begin > 0
                        /\ rows[r].end > 0 \/ \E i \in DOMAIN log :
                             log[i].type = "DELETE" /\ log[i].rid = r /\ OwnRecord(log, i)
      BY <1>0 DEF RecoveredTableClean
    <2>1. PICK i \in 1 .. pos - 1 : Holds(i, r)
      BY <1>9 DEF RedoTable
    <2>2. log[i].type = "INSERT" /\ log[i].rid = r /\ Committed(log, log[i].trx, pos - 1)
      BY <1>2, <2>1 DEF Holds, Kept
    <2>3. PICK c \in 1 .. pos - 1 : CommittedAt(log, c, log[i].trx)
      BY <2>2 DEF Committed
    <2>4. rows[r].begin = log[c].xid
      BY <1>2, <1>9, <2>2, <2>3 DEF CommittedRows
    <2>5. log[c].xid > 0
      BY <1>2, <2>3 DEF LogOrdered, RecordOK, CommittedAt
    <2> QED
      BY <1>1, <1>2, <2>4, <2>5 DEF RedoEnds, OwnDeletion
  <1>13. UpHeld'
    <2> SUFFICES ASSUME ~SlotReused(log, Len(log)), NEW r \in Rids, rows'[r] /= NoRow PROVE HeldRow(r)'
      BY <1>0 DEF UpHeld
    <2>1. PICK i \in 1 .. pos - 1 : Holds(i, r)
      BY <1>0, <1>9 DEF RedoTable
    <2>2. log[i].type = "INSERT" /\ log[i].rid = r /\ ~RolledBack(log, log[i].trx, Len(log)) /\ i \in DOMAIN log
      BY <1>2, <2>1, KeptFate DEF Holds
    <2>3. log[i].trx /= NoTrxId
      BY <2>2 DEF LogOrdered, RecordOK, IsData
    <2>4. Safe(log[i].trx)'
      BY <1>0, <1>3, <2>2, <2>3 DEF Safe, SessionsGone
    <2>5. rows'[r].begin \in Int /\ rows'[r].begin > 0
      <3>1. rows'[r].begin > 0
        BY <1>0, <1>1, <1>12 DEF RecoveredTableClean
      <3> QED
        BY <3>1 DEF RecoveryTypeOK, TypeOK, Row
    <2>6. \A s \in Sessions : ~started'[s]
      BY <1>3 DEF SessionsGone
    <2>7. i \in 1 .. Len(log') /\ InsertOf(i, r)'
      BY <1>0, <1>2, <2>2 DEF InsertOf
    <2> QED
      BY <2>4, <2>5, <2>6, <2>7 DEF HeldRow
  <1> QED
    BY <1>6, <1>7, <1>8, <1>10, <1>11, <1>12, <1>13

\* A crash: the log loses a part of its end, and redo starts from an empty table.
LEMMA CrashStep ==
  ASSUME RecoveryTypeOK, LogOrdered(log), DeletesHeld, Crash
  PROVE  /\ LogOrdered(log') /\ RedoInv' /\ RedoRows' /\ RefusedLogs' /\ mode' = "redo"
         /\ DeletesHeld' /\ RedoAsserts'
  <1>0. /\ mode' = "redo" /\ pos' = 1 /\ trxes' = NoOps /\ current_trx_id' = 0
        /\ rows' = [r \in Rids |-> NoRow] /\ index' = {} /\ crashes' = crashes + 1
    BY DEF Crash
  <1>1. PICK n \in synced .. Len(log) : log' = SubSeq(log, 1, n)
    BY DEF Crash
  <1>2. log \in Seq(LogRecord) /\ n \in 0 .. Len(log) /\ n \in Nat /\ crashes \in Nat
    BY <1>1, LenProperties DEF RecoveryTypeOK
  <1>3. /\ log' \in Seq(LogRecord) /\ Len(log') = n /\ Agree(log, log', n)
        /\ DOMAIN log' = 1 .. n /\ DOMAIN log = 1 .. Len(log)
    BY <1>1, <1>2, LogCut
  <1>4. LogOrdered(log')
    <2> SUFFICES ASSUME NEW j \in 1 .. n PROVE RecordOK(log', j)
      BY <1>3 DEF LogOrdered
    <2>1. j \in DOMAIN log
      BY <1>2, <1>3
    <2> QED
      BY <1>2, <1>3, <2>1, AgreeOrder DEF LogOrdered
  <1>5. SessionsGone'
    BY DEF Crash, SessionsGone
  <1>6. MarksDrawn' /\ RedoEnds'
    BY <1>0 DEF MarksDrawn, RedoEnds
  <1>7. \A i \in 1 .. pos' - 1 : FALSE
    BY <1>0
  <1>8. RedoTrxes'
    BY <1>0, <1>7 DEF RedoTrxes, NoOps
  <1>9. RedoTable' /\ CommittedRows(pos - 1)'
    BY <1>0, <1>7 DEF RedoTable, CommittedRows
  <1>10. RedoInv'
    BY <1>0, <1>2, <1>5, <1>6, <1>8 DEF RedoInv
  <1>11. RedoAsserts'
    BY <1>0, <1>7 DEF RedoAsserts, RedoDeletes, RedoBegins, RedoMarks, NoOps
  <1>12. DeletesHeld'
    <2> DEFINE Held(j) == \E i \in 1 .. j - 1 :
                 InsertOf(i, log[j].rid) /\ (log[i].trx = log[j].trx \/ Safe(log[i].trx))
    <2> SUFFICES ASSUME NEW j \in 1 .. n, log'[j].type = "DELETE", ~SlotReused(log', j) PROVE Held(j)'
      BY <1>3 DEF DeletesHeld
    <2>1. log'[j] = log[j] /\ j \in 0 .. n /\ j \in DOMAIN log
      BY <1>2, <1>3 DEF Agree
    <2>2. ~SlotReused(log, j)
      BY <1>2, <1>3, <2>1, AgreeSlots
    <2>3. PICK i \in 1 .. j - 1 : InsertOf(i, log[j].rid) /\ (log[i].trx = log[j].trx \/ Safe(log[i].trx))
      BY <2>1, <2>2 DEF DeletesHeld
    <2>4. i \in 1 .. n /\ log'[i] = log[i] /\ i \in DOMAIN log
      BY <1>2, <1>3 DEF Agree
    <2>5. InsertOf(i, log[j].rid)' /\ log[i].trx /= NoTrxId
      BY <2>1, <2>3, <2>4 DEF InsertOf, LogOrdered, RecordOK, IsData
    <2>6. ASSUME Safe(log[i].trx) PROVE Safe(log[i].trx)'
      <3>1. n \in 0 .. n /\ Len(log) \in Nat
        BY <1>2
      <3>2. ~RolledBack(log', log[i].trx, n)
        BY <1>2, <1>3, <2>6, <3>1, AgreeFates, Growing DEF Safe
      <3>3. \A s \in Sessions : trx_id'[s] = NoTrxId
        BY <1>5 DEF SessionsGone
      <3> QED
        BY <1>3, <2>4, <2>5, <3>2, <3>3 DEF Safe
    <2> QED
      BY <2>1, <2>3, <2>4, <2>5, <2>6
  <1> QED
    BY <1>0, <1>4, <1>9, <1>10, <1>11, <1>12 DEF RedoRows, RefusedLogs

\* The steps of recover().
Recovers ==
  RedoBegin \/ RedoInsert \/ RedoDelete \/ RedoCommit \/ RedoRollback \/ RedoFails \/ UndoUnfinished

\* Every step of recover() keeps the invariant.
LEMMA RecoversStep ==
  ASSUME RecoveryTypeOK, RecoveryTypeOK', LogOrdered(log), RedoInv, RedoRows, RedoAsserts, DeletesHeld,
         Recovers
  PROVE  /\ LogOrdered(log') /\ RedoInv' /\ RedoRows' /\ RefusedLogs' /\ RedoAsserts' /\ DeletesHeld'
         /\ UpInv' /\ UpIndex' /\ UpMarks' /\ UpRows' /\ TableMatchesLog' /\ RecoveredTableClean' /\ UpHeld'
  <1>0. mode = "redo" /\ log' = log
    BY DEF Recovers, RedoBegin, RedoInsert, RedoDelete, RedoCommit, RedoRollback, RedoFails,
           AssertionFails, UndoUnfinished, Redoing, Advance, logVars
  <1>1. crashes > 0 /\ SessionsGone /\ MarksDrawn /\ RedoTrxes /\ RedoEnds
    BY <1>0 DEF RedoInv
  <1>2. LogOrdered(log')
    BY <1>0
  <1>3. ASSUME RedoBegin \/ RedoInsert \/ RedoDelete \/ RedoCommit \/ RedoRollback
               \/ (UndoUnfinished /\ trxes /= NoOps)
        PROVE  mode' = "redo" /\ SessionsGone' /\ crashes' = crashes
    <2>1. mode' = mode /\ UNCHANGED recoveryIdle /\ crashes' = crashes
      BY <1>3 DEF RedoBegin, RedoInsert, RedoDelete, RedoCommit, RedoRollback, UndoUnfinished, Advance
    <2>2. SessionsGone'
      BY <1>1, <2>1 DEF SessionsGone, recoveryIdle
    <2> QED
      BY <1>0, <2>1, <2>2
  <1>d. DeletesHeld'
    <2>1. trx_id' = trx_id /\ phase' = phase
      BY DEF Recovers, RedoBegin, RedoInsert, RedoDelete, RedoCommit, RedoRollback, RedoFails,
             UndoUnfinished, recoveryIdle, vars, trxVars
    <2> QED
      BY <1>0, <2>1 DEF DeletesHeld, Safe, InsertOf
  <1>4. ASSUME RedoBegin \/ RedoInsert \/ RedoDelete \/ RedoCommit \/ RedoRollback
               \/ (UndoUnfinished /\ trxes /= NoOps)
        PROVE  RedoTrxes' /\ MarksDrawn' /\ RedoEnds' /\ RedoRows' /\ RedoAsserts'
    <2>1. CASE RedoBegin
      BY <1>1, <2>1, RedoBeginInv, RedoBeginAsserts
    <2>2. CASE RedoInsert
      BY <1>1, <2>2, RedoInsertInv, RedoInsertRows, RedoInsertAsserts
    <2>3. CASE RedoDelete
      BY <1>1, <2>3, RedoDeleteInv, RedoDeleteRows, RedoDeleteAsserts
    <2>4. CASE RedoCommit
      BY <1>1, <2>4, RedoCommitInv, RedoCommitTable, RedoCommitAsserts
    <2>5. CASE RedoRollback
      BY <1>1, <2>5, RedoRollbackInv, RedoRollbackAsserts
    <2>6. CASE UndoUnfinished /\ trxes /= NoOps
      BY <1>1, <2>6, UndoneInv, UndoneAsserts
    <2> QED
      BY <1>4, <2>1, <2>2, <2>3, <2>4, <2>5, <2>6
  <1>5. CASE RedoBegin \/ RedoInsert \/ RedoDelete \/ RedoCommit \/ RedoRollback
             \/ (UndoUnfinished /\ trxes /= NoOps)
    <2>1. mode' = "redo" /\ SessionsGone' /\ crashes' = crashes
      BY <1>3, <1>5
    <2>2. RedoTrxes' /\ MarksDrawn' /\ RedoEnds' /\ RedoRows' /\ RedoAsserts'
      BY <1>4, <1>5
    <2>3. RedoInv' /\ RefusedLogs'
      BY <1>1, <2>1, <2>2 DEF RedoInv, RefusedLogs
    <2>4. UpInv' /\ UpIndex' /\ UpMarks' /\ UpRows' /\ TableMatchesLog' /\ RecoveredTableClean' /\ UpHeld'
      BY <2>1 DEF UpInv, UpIndex, UpMarks, UpRows, TableMatchesLog, RecoveredTableClean, UpHeld
    <2> QED
      BY <1>2, <1>d, <2>2, <2>3, <2>4
  <1>6. CASE RedoFails
    <2>1. mode' = "failed"
      BY <1>6 DEF RedoFails
    <2>2. RedoInv' /\ RedoRows' /\ RedoAsserts'
      BY <2>1 DEF RedoInv, RedoRows, RedoAsserts
    <2>3. UpInv' /\ UpIndex' /\ UpMarks' /\ UpRows' /\ TableMatchesLog' /\ RecoveredTableClean' /\ UpHeld'
      BY <2>1 DEF UpInv, UpIndex, UpMarks, UpRows, TableMatchesLog, RecoveredTableClean, UpHeld
    <2>4. RefusedLogs'
      BY <1>6, RefusedStep
    <2> QED
      BY <1>2, <1>d, <2>2, <2>3, <2>4
  <1>7. CASE UndoUnfinished /\ trxes = NoOps
    <2>1. mode' = "up"
      BY <1>7 DEF UndoUnfinished
    <2>2. RedoInv' /\ RedoRows' /\ RefusedLogs' /\ RedoAsserts'
      BY <2>1 DEF RedoInv, RedoRows, RefusedLogs, RedoAsserts
    <2> QED
      BY <1>2, <1>7, <1>d, <2>2, ServerUp
  <1> QED
    BY <1>5, <1>6, <1>7 DEF Recovers

\* The empty database.
LEMMA InitOK ==
  RecoveryInit => /\ RecoveryTypeOK /\ LogOrdered(log) /\ RedoInv /\ RedoRows /\ RefusedLogs
                  /\ UpInv /\ UpIndex /\ UpMarks /\ UpRows /\ TableMatchesLog /\ RecoveredTableClean
                  /\ DeletesHeld /\ UpHeld /\ RedoAsserts
  <1> SUFFICES ASSUME RecoveryInit
               PROVE  /\ RecoveryTypeOK /\ LogOrdered(log) /\ RedoInv /\ RedoRows /\ RefusedLogs
                      /\ UpInv /\ UpIndex /\ UpMarks /\ UpRows /\ TableMatchesLog /\ RecoveredTableClean
                      /\ DeletesHeld /\ UpHeld /\ RedoAsserts
    OBVIOUS
  <1>0. /\ log = <<>> /\ synced = 0 /\ mode = "up" /\ pos = 1 /\ trxes = NoOps /\ torn = FALSE /\ crashes = 0
        /\ Init
    BY DEF RecoveryInit
  <1>1. Len(log) = 0 /\ log \in Seq(LogRecord) /\ DOMAIN log = {}
    BY <1>0
  <1>2. RecoveryTypeOK
    <2>1. TypeOK
      BY <1>0, TypeInit
    <2>2. DOMAIN trxes = {} /\ trxes \in [DOMAIN trxes -> SUBSET Operation]
      BY <1>0 DEF NoOps
    <2>3. synced \in 0 .. Len(log) /\ pos \in 1 .. Len(log) + 1 /\ crashes \in 0 .. MaxCrashes
      BY <1>0, <1>1, BoundsAssumption
    <2>4. torn \in BOOLEAN /\ mode \in {"up", "redo", "failed"} /\ DOMAIN trxes \subseteq Nat
      BY <1>0, <2>2
    <2> QED
      BY <1>1, <2>1, <2>2, <2>3, <2>4 DEF RecoveryTypeOK
  <1>3. LogOrdered(log)
    BY <1>1 DEF LogOrdered
  <1>4. RedoInv /\ RedoRows /\ RefusedLogs
    BY <1>0 DEF RedoInv, RedoRows, RefusedLogs
  <1>5. SessionsGone /\ MarksDrawn /\ IndexEntriesLive
    BY <1>0 DEF Init, SessionsGone, MarksDrawn, IndexEntriesLive
  <1>6. SessionsOK
    <2>1. OpsMatch({}, log, NoTrxId, Len(log))
      BY <1>1, <1>3, OpsNone
    <2>2. ASSUME NEW s \in Sessions PROVE SessionOK(s)
      <3>1. phase[s] = "idle" /\ ~started[s] /\ trx_id[s] = NoTrxId /\ operations[s] = {} /\ todo[s] = {}
        BY <1>5 DEF SessionsGone
      <3> QED
        BY <2>1, <3>1 DEF SessionOK, Ending
    <2> QED
      BY <1>1, <1>5, <2>2 DEF SessionsOK, SessionsGone
  <1>7. UpInv
    BY <1>0, <1>5, <1>6 DEF UpInv, QuietAfterRestart
  <1>8. UpIndex /\ UpMarks /\ UpRows
    BY <1>5 DEF UpIndex, UpMarks, UpRows, IdsNotReused, LiveRows, Live, SessionsGone
  <1>9. TableMatchesLog
    BY <1>1 DEF TableMatchesLog, CommittedRows
  <1>10. RecoveredTableClean
    BY <1>0 DEF RecoveredTableClean
  <1>11. DeletesHeld /\ UpHeld /\ RedoAsserts
    BY <1>0, <1>1 DEF Init, DeletesHeld, UpHeld, RedoAsserts
  <1> QED
    BY <1>2, <1>3, <1>4, <1>7, <1>8, <1>9, <1>10, <1>11

-----------------------------------------------------------------------------
(* The steps of a server that is up.                                       *)

\* A request of one session leaves the others' transactions alone, and an
\* operation set grows only with the log.
LEMMA ServeRests ==
  ASSUME RecoveryTypeOK, NEW s \in Sessions, Serve(s)
  PROVE  /\ \A t \in Sessions \ {s} : Rests(t)
         /\ Len(log) < Len(log') \/ operations'[s] \subseteq operations[s]
  <1> DEFINE Still == \A t \in Sessions \ {s} : Rests(t)
             Grows == Len(log) < Len(log')
             Shrinks == operations'[s] \subseteq operations[s]
             Goal == Still /\ (Grows \/ Shrinks)
  <1>0. /\ trx_id \in [Sessions -> Int] /\ started \in [Sessions -> BOOLEAN]
        /\ operations \in [Sessions -> SUBSET Operation] /\ todo \in [Sessions -> SUBSET Operation]
        /\ phase \in [Sessions -> {"idle", "stmt", "close", "commit", "rollback"}]
        /\ commit_xid \in [Sessions -> Int] /\ log \in Seq(LogRecord)
    BY DEF RecoveryTypeOK, TypeOK
  <1>1. ASSUME StartIfNeed(s), UNCHANGED <<operations, todo, commit_xid>>,
               phase' = phase \/ phase' = [phase EXCEPT ![s] = "stmt"]
        PROVE  Goal
    BY <1>0, <1>1 DEF StartIfNeed, Rests
  <1>2. ASSUME StartCommit(s) PROVE Goal
    BY <1>0, <1>2 DEF StartCommit, Rests
  <1>3. ASSUME Begin(s) \/ OpenStatement(s) PROVE Goal
    BY <1>1, <1>3 DEF Begin, OpenStatement
  <1>4. ASSUME CloseStatement(s) PROVE Goal
    <2>1. CASE multi[s]
      BY <1>0, <1>4, <2>1 DEF CloseStatement, trxVars, Rests
    <2>2. CASE ~multi[s]
      BY <1>2, <1>4, <2>2 DEF CloseStatement
    <2> QED
      BY <2>1, <2>2
  <1>5. ASSUME NEW r \in Rids, NEW k \in Keys, InsertRecord(s, r, k),
               IF DuplicateKey(index, k, r) THEN LogsNothing ELSE Logs(<<InsertLog(s, r, k)>>)
        PROVE  Goal
    <2>1. Still
      BY <1>0, <1>5 DEF InsertRecord, Rests
    <2>2. CASE DuplicateKey(index, k, r)
      BY <1>5, <2>1, <2>2 DEF InsertRecord
    <2>3. CASE ~DuplicateKey(index, k, r)
      <3>1. InsertLog(s, r, k) \in LogRecord
        BY LoggedTypes
      <3>2. Len(log') = Len(log) + 1 /\ Len(log) \in Nat
        BY <1>5, <2>3, <3>1, LoggedOne
      <3> QED
        BY <2>1, <3>2
    <2> QED
      BY <2>2, <2>3
  <1>6. ASSUME NEW r \in Rids, DeleteRecord(s, r), Logs(<<DeleteLog(s, r)>>) PROVE Goal
    <2>1. Still
      BY <1>0, <1>6 DEF DeleteRecord, Rests
    <2>2. DeleteLog(s, r) \in LogRecord
      BY DEF DeleteLog, LogRecord, RecoveryTypeOK, TypeOK
    <2>3. Len(log') = Len(log) + 1 /\ Len(log) \in Nat
      BY <1>6, <2>2, LoggedOne
    <2> QED
      BY <2>1, <2>3
  <1>7. ASSUME NEW r \in Rids, NEW r2 \in Rids, NEW k \in Keys, UpdateRecord(s, r, r2, k),
               IF DuplicateKey(index \ {<<rows[r].key, r>>}, k, r2) THEN LogsNothing
               ELSE Logs(<<DeleteLog(s, r), InsertLog(s, r2, k)>>)
        PROVE  Goal
    <2>1. UNCHANGED <<trx_id, started, todo, commit_xid>>
      BY <1>7 DEF UpdateRecord
    <2>2. CASE DuplicateKey(index \ {<<rows[r].key, r>>}, k, r2)
      <3>1. phase' = [phase EXCEPT ![s] = "close"] /\ operations' = operations
        BY <1>7, <2>2 DEF UpdateRecord
      <3> QED
        BY <1>0, <2>1, <3>1 DEF Rests
    <2>3. CASE ~DuplicateKey(index \ {<<rows[r].key, r>>}, k, r2)
      <3>1. phase' = phase /\ operations' = [operations EXCEPT ![s] =
              AddOperation(AddOperation(@, "DELETE", r), "INSERT", r2)]
        BY <1>7, <2>3 DEF UpdateRecord
      <3>2. Len(log') = Len(log) + 2 /\ Len(log) \in Nat
        BY <1>7, <2>3, LoggedUpdate
      <3>3. Still
        BY <1>0, <2>1, <3>1 DEF Rests
      <3> QED
        BY <3>2, <3>3
    <2> QED
      BY <2>2, <2>3
  <1>8. ASSUME NEW r \in Rids, WriteConflict(s, r) PROVE Goal
    BY <1>0, <1>8 DEF WriteConflict, trxVars, Rests
  <1>9. ASSUME Commit(s) PROVE Goal
    BY <1>2, <1>9 DEF Commit
  <1>10. ASSUME NEW op \in Operation, CommitOperation(s, op) \/ RollbackOperation(s, op) PROVE Goal
    BY <1>0, <1>10 DEF CommitOperation, RollbackOperation, Rests
  <1>11. ASSUME FinishCommit(s) \/ FinishRollback(s) PROVE Goal
    BY <1>0, <1>11 DEF FinishCommit, FinishRollback, Rests
  <1>12. ASSUME Rollback(s) PROVE Goal
    BY <1>0, <1>12 DEF Rollback, Rests
  <1>13. ASSUME Disconnect(s) PROVE Goal
    BY <1>0, <1>13 DEF Disconnect, Rests
  <1> HIDE DEF Goal
  <1>14. Goal
    BY <1>3, <1>4, <1>5, <1>6, <1>7, <1>8, <1>9, <1>10, <1>11, <1>12, <1>13 DEF Serve
  <1> QED
    BY <1>14 DEF Goal

\* What the new record j of the log says of the step that logged it.
Logged(s, j) ==
  /\ log'[j].trx = trx_id'[s]
  /\ log'[j].type = "MTR_COMMIT" =>
       /\ phase[s] = "commit" /\ todo[s] = {} /\ log'[j].xid = commit_xid[s]
       /\ trx_id'[s] = trx_id[s] /\ rows' = rows /\ Len(log') = Len(log) + 1
  /\ log'[j].type = "INSERT" => rows'[log'[j].rid] /= NoRow /\ rows'[log'[j].rid].key = log'[j].key
  /\ log'[j].type = "MTR_ROLLBACK" => phase[s] = "rollback" /\ trx_id'[s] = trx_id[s]
  /\ log'[j].type = "DELETE" =>
       /\ phase[s] = "stmt" /\ trx_id'[s] = trx_id[s] /\ rows[log'[j].rid] /= NoRow
       /\ VisitRecord(trx_id[s], rows[log'[j].rid], FALSE) = "SUCCESS"

\* Every record that a request logs is of its own session's transaction.
LEMMA ServeRecords ==
  ASSUME RecoveryTypeOK, NEW s \in Sessions, Serve(s)
  PROVE  \A j \in Len(log) + 1 .. Len(log') : Logged(s, j)
  <1> DEFINE Goal == \A j \in Len(log) + 1 .. Len(log') : Logged(s, j)
  <1>0. /\ trx_id \in [Sessions -> Int] /\ rows \in [Rids -> Row \cup {NoRow}] /\ Len(log) \in Nat
        /\ current_trx_id \in Nat
    BY LenProperties DEF RecoveryTypeOK, TypeOK
  <1>1. ASSUME LogsNothing PROVE Goal
    BY <1>0, <1>1 DEF LogsNothing, logVars
  <1>2. ASSUME StartIfNeed(s), StartLogs(s) PROVE Goal
    <2>1. CASE started[s]
      BY <1>1, <1>2, <2>1 DEF StartLogs
    <2>2. CASE ~started[s]
      <3> DEFINE a == [type |-> "MTR_BEGIN", trx |-> current_trx_id + 1]
      <3>1. trx_id'[s] = current_trx_id + 1 /\ Logs(<<a>>) /\ a \in LogRecord
        BY <1>0, <1>2, <2>2 DEF StartIfNeed, StartLogs, LogRecord
      <3>2. Len(log') = Len(log) + 1 /\ log'[Len(log) + 1] = a
        BY <3>1, LoggedOne
      <3>3. \A j \in Len(log) + 1 .. Len(log') : log'[j] = a
        BY <1>0, <3>2
      <3>4. a.type = "MTR_BEGIN" /\ a.trx = current_trx_id + 1
        OBVIOUS
      <3> HIDE DEF a
      <3> QED
        BY <3>1, <3>3, <3>4 DEF Logged
    <2> QED
      BY <2>1, <2>2
  <1>3. ASSUME NEW r \in Rids, NEW k \in Keys, InsertRecord(s, r, k), Logs(<<InsertLog(s, r, k)>>),
               ~DuplicateKey(index, k, r)
        PROVE  Goal
    <2>1. InsertLog(s, r, k) \in LogRecord
      BY LoggedTypes
    <2>2. Len(log') = Len(log) + 1 /\ log'[Len(log) + 1] = InsertLog(s, r, k)
      BY <1>3, <2>1, LoggedOne
    <2>3. \A j \in Len(log) + 1 .. Len(log') : log'[j] = InsertLog(s, r, k)
      BY <1>0, <2>2
    <2>4. trx_id' = trx_id /\ rows'[r] = [begin |-> -trx_id[s], end |-> MaxTrxId, key |-> k]
      BY <1>0, <1>3 DEF InsertRecord
    <2>5. rows'[r] /= NoRow /\ rows'[r].key = k
      BY <1>0, <2>4, NewRowType, NoRowAssumption
    <2>6. /\ InsertLog(s, r, k).type = "INSERT" /\ InsertLog(s, r, k).trx = trx_id[s]
          /\ InsertLog(s, r, k).rid = r /\ InsertLog(s, r, k).key = k
      BY DEF InsertLog
    <2> QED
      BY <2>3, <2>4, <2>5, <2>6 DEF Logged
  <1>4. ASSUME NEW r \in Rids, DeleteRecord(s, r), Logs(<<DeleteLog(s, r)>>) PROVE Goal
    <2>1. DeleteLog(s, r) \in LogRecord
      BY DEF DeleteLog, LogRecord, RecoveryTypeOK, TypeOK
    <2>2. Len(log') = Len(log) + 1 /\ log'[Len(log) + 1] = DeleteLog(s, r)
      BY <1>4, <2>1, LoggedOne
    <2>3. \A j \in Len(log) + 1 .. Len(log') : log'[j] = DeleteLog(s, r)
      BY <1>0, <2>2
    <2>4. /\ trx_id' = trx_id /\ phase[s] = "stmt" /\ rows[r] /= NoRow
          /\ VisitRecord(trx_id[s], rows[r], FALSE) = "SUCCESS"
      BY <1>4 DEF DeleteRecord
    <2>5. /\ DeleteLog(s, r).type = "DELETE" /\ DeleteLog(s, r).trx = trx_id[s]
          /\ DeleteLog(s, r).rid = r
      BY DEF DeleteLog
    <2> QED
      BY <2>3, <2>4, <2>5 DEF Logged
  <1>5. ASSUME NEW r \in Rids, NEW r2 \in Rids, NEW k \in Keys, UpdateRecord(s, r, r2, k),
               ~DuplicateKey(index \ {<<rows[r].key, r>>}, k, r2),
               Logs(<<DeleteLog(s, r), InsertLog(s, r2, k)>>)
        PROVE  Goal
    <2>1. Len(log') = Len(log) + 2 /\ log'[Len(log) + 1] = DeleteLog(s, r)
          /\ log'[Len(log) + 2] = InsertLog(s, r2, k)
      BY <1>5, LoggedUpdate
    <2>2. \A j \in Len(log) + 1 .. Len(log') : log'[j] = DeleteLog(s, r) \/ log'[j] = InsertLog(s, r2, k)
      BY <1>0, <2>1
    <2>a. /\ phase[s] = "stmt" /\ rows[r] /= NoRow
          /\ VisitRecord(trx_id[s], rows[r], FALSE) = "SUCCESS"
      BY <1>5 DEF UpdateRecord
    <2>3. trx_id' = trx_id /\ rows'[r2] = [begin |-> -trx_id[s], end |-> MaxTrxId, key |-> k]
      BY <1>0, <1>5 DEF UpdateRecord
    <2>4. rows'[r2] /= NoRow /\ rows'[r2].key = k
      BY <1>0, <2>3, NewRowType, NoRowAssumption
    <2>5. /\ DeleteLog(s, r).type = "DELETE" /\ DeleteLog(s, r).trx = trx_id[s]
          /\ DeleteLog(s, r).rid = r
      BY DEF DeleteLog
    <2>6. /\ InsertLog(s, r2, k).type = "INSERT" /\ InsertLog(s, r2, k).trx = trx_id[s]
          /\ InsertLog(s, r2, k).rid = r2 /\ InsertLog(s, r2, k).key = k
      BY DEF InsertLog
    <2> QED
      BY <2>a, <2>2, <2>3, <2>4, <2>5, <2>6 DEF Logged
  <1>6. ASSUME \/ FinishCommit(s) /\ CommitTrx(s)
               \/ FinishRollback(s) /\ Logs(<<[type |-> "MTR_ROLLBACK", trx |-> trx_id[s]]>>)
        PROVE  Goal
    <2>1. PICK a \in LogRecord :
            /\ a.type = IF phase[s] = "commit" THEN "MTR_COMMIT" ELSE "MTR_ROLLBACK"
            /\ a.trx = trx_id[s] /\ log' = log \o <<a>>
            /\ a.type = "MTR_COMMIT" => a.xid = commit_xid[s]
      BY <1>6, LoggedEnd
    <2>2. Len(log') = Len(log) + 1 /\ log'[Len(log) + 1] = a
      BY <2>1, AppendOne DEF RecoveryTypeOK
    <2>3. \A j \in Len(log) + 1 .. Len(log') : log'[j] = a
      BY <1>0, <2>2
    <2>4. todo[s] = {} /\ trx_id' = trx_id /\ rows' = rows /\ phase[s] \in {"commit", "rollback"}
      BY <1>6 DEF FinishCommit, FinishRollback, tableVars
    <2> QED
      BY <2>1, <2>2, <2>3, <2>4 DEF Logged
  <1> HIDE DEF Goal
  <1>7. ASSUME Begin(s) \/ OpenStatement(s) PROVE StartIfNeed(s)
    BY <1>7 DEF Begin, OpenStatement
  <1>8. Goal
    BY <1>1, <1>2, <1>3, <1>4, <1>5, <1>6, <1>7 DEF Serve
  <1> QED
    BY <1>8 DEF Goal

\* A session that commits goes on until its MTR_COMMIT is logged.
LEMMA CommitGoesOn ==
  ASSUME RecoveryTypeOK, NEW s \in Sessions, Serve(s), phase[s] = "commit"
  PROVE  /\ trx_id'[s] = trx_id[s]
         /\ phase'[s] = "commit" \/ Ended(log', trx_id[s], Len(log'))
  <1>1. ASSUME NEW op \in Operation, CommitOperation(s, op)
        PROVE  trx_id'[s] = trx_id[s] /\ phase'[s] = "commit"
    BY <1>1 DEF CommitOperation
  <1>2. ASSUME FinishCommit(s), CommitTrx(s)
        PROVE  trx_id'[s] = trx_id[s] /\ Ended(log', trx_id[s], Len(log'))
    <2>1. PICK a \in LogRecord : a.type = "MTR_COMMIT" /\ a.trx = trx_id[s] /\ log' = log \o <<a>>
      BY <1>2, LoggedEnd
    <2>2. Len(log') = Len(log) + 1 /\ log'[Len(log) + 1] = a /\ Len(log) \in Nat
      BY <2>1, AppendOne DEF RecoveryTypeOK
    <2>3. Len(log') \in 1 .. Len(log') /\ Ends(log', Len(log'), trx_id[s])
      BY <2>1, <2>2 DEF Ends
    <2>4. Ended(log', trx_id[s], Len(log'))
      BY <2>3 DEF Ended
    <2> QED
      BY <1>2, <2>4 DEF FinishCommit
  <1>3. ~(Begin(s) \/ OpenStatement(s) \/ CloseStatement(s) \/ Commit(s) \/ Rollback(s) \/ FinishRollback(s) \/ Disconnect(s))
    BY DEF Begin, OpenStatement, CloseStatement, Commit, Rollback, FinishRollback, Disconnect
  <1>4. /\ \A r \in Rids, k \in Keys : ~InsertRecord(s, r, k)
        /\ \A r \in Rids : ~DeleteRecord(s, r) /\ ~WriteConflict(s, r)
        /\ \A r, r2 \in Rids, k \in Keys : ~UpdateRecord(s, r, r2, k)
    BY DEF InsertRecord, DeleteRecord, UpdateRecord, WriteConflict
  <1>5. \A op \in Operation : ~RollbackOperation(s, op)
    BY DEF RollbackOperation
  <1>6. (\E op \in Operation : CommitOperation(s, op)) \/ (FinishCommit(s) /\ CommitTrx(s))
    BY <1>3, <1>4, <1>5 DEF Serve
  <1> QED
    BY <1>1, <1>2, <1>6

\* A session keeps its id, draws the next one or gives its own up.
LEMMA ServeIds ==
  ASSUME RecoveryTypeOK, NEW s \in Sessions, Serve(s)
  PROVE  trx_id'[s] = trx_id[s] \/ trx_id'[s] = current_trx_id + 1 \/ trx_id'[s] = NoTrxId
  <1> DEFINE Goal == trx_id'[s] = trx_id[s] \/ trx_id'[s] = current_trx_id + 1 \/ trx_id'[s] = NoTrxId
  <1>0. trx_id \in [Sessions -> Int]
    BY DEF RecoveryTypeOK, TypeOK
  <1>1. ASSUME Begin(s) \/ OpenStatement(s) PROVE Goal
    BY <1>0, <1>1 DEF Begin, OpenStatement, StartIfNeed, trxVars, kitVars
  <1>2. ASSUME CloseStatement(s) \/ Commit(s) \/ Rollback(s) \/ FinishRollback(s) \/ FinishCommit(s) PROVE Goal
    BY <1>2 DEF CloseStatement, Commit, StartCommit, Rollback, FinishRollback, FinishCommit, trxVars
  <1>3. ASSUME Disconnect(s) PROVE Goal
    BY <1>0, <1>3 DEF Disconnect
  <1>4. ASSUME NEW r \in Rids, DeleteRecord(s, r) \/ WriteConflict(s, r) PROVE Goal
    BY <1>4 DEF DeleteRecord, WriteConflict, trxVars
  <1>5. ASSUME NEW op \in Operation, CommitOperation(s, op) \/ RollbackOperation(s, op) PROVE Goal
    BY <1>5 DEF CommitOperation, RollbackOperation
  <1>7. ASSUME NEW r \in Rids, NEW k \in Keys, InsertRecord(s, r, k) PROVE Goal
    BY <1>7 DEF InsertRecord
  <1>8. ASSUME NEW r \in Rids, NEW r2 \in Rids, NEW k \in Keys, UpdateRecord(s, r, r2, k) PROVE Goal
    BY <1>8 DEF UpdateRecord
  <1> HIDE DEF Goal
  <1>6. Goal
    BY <1>1, <1>2, <1>3, <1>4, <1>5, <1>7, <1>8 DEF Serve
  <1> QED
    BY <1>6 DEF Goal

\* A transaction that is safe stays so.
LEMMA SafeStays ==
  ASSUME RecoveryTypeOK, RecoveryTypeOK', SessionsOK, NEW s \in Sessions, Serve(s),
         NEW y \in Int, y /= NoTrxId, y <= current_trx_id, Safe(y)
  PROVE  Safe(y)'
  <1>1. /\ Agree(log, log', Len(log)) /\ Len(log) \in Nat /\ Len(log') \in Nat /\ Len(log) <= Len(log')
        /\ Len(log) \in 0 .. Len(log') /\ Len(log) \in 0 .. Len(log)
        /\ \A j \in 1 .. Len(log') : j \in 1 .. Len(log) \/ j \in Len(log) + 1 .. Len(log')
    BY ServeGrows, GrowsExtends DEF Extends
  <1>2. \A t \in Sessions : trx_id[t] = y /\ ~Ended(log, y, Len(log)) => phase[t] = "commit"
    BY DEF Safe
  <1>3. ~Ended(log', y, Len(log')) => ~Ended(log, y, Len(log))
    BY <1>1, AgreeFates, Growing
  <1>4. ~RolledBack(log', y, Len(log'))
    <2> SUFFICES ASSUME NEW e \in 1 .. Len(log'), EndedAt(log', e, y), log'[e].type = "MTR_ROLLBACK" PROVE FALSE
      BY DEF RolledBack
    <2>1. CASE e \in 1 .. Len(log)
      <3>1. EndedAt(log, e, y) /\ log[e].type = "MTR_ROLLBACK"
        BY <1>1, <2>1, AgreeFates DEF Agree
      <3> QED
        BY <2>1, <3>1 DEF Safe, RolledBack
    <2>2. CASE e \in Len(log) + 1 .. Len(log')
      <3>1. log'[e].trx = trx_id'[s] /\ phase[s] = "rollback" /\ trx_id'[s] = trx_id[s]
        BY <2>2, ServeRecords DEF Logged
      <3>2. trx_id[s] = y /\ \A d \in 1 .. e - 1 : ~Ends(log', d, y)
        BY <3>1 DEF EndedAt, Ends
      <3>3. \A d \in 1 .. Len(log) : ~Ends(log', d, y)
        BY <1>1, <2>2, <3>2
      <3>4. ~Ended(log, y, Len(log))
        BY <1>1, <3>3, AgreeFates DEF Ended
      <3> QED
        BY <1>2, <3>1, <3>2, <3>4
    <2> QED
      BY <1>1, <2>1, <2>2
  <1>5. ASSUME NEW t \in Sessions, trx_id'[t] = y, ~Ended(log', y, Len(log')) PROVE phase'[t] = "commit"
    <2>1. CASE t /= s
      <3>1. trx_id'[t] = trx_id[t] /\ phase'[t] = phase[t]
        BY <2>1, ServeRests DEF Rests
      <3> QED
        BY <1>2, <1>3, <1>5, <3>1
    <2>2. CASE t = s
      <3>0. current_trx_id \in Nat /\ y /= current_trx_id + 1
        BY DEF RecoveryTypeOK, TypeOK
      <3>1. trx_id[s] = y
        BY <1>5, <2>2, <3>0, ServeIds
      <3>2. phase[s] = "commit"
        BY <1>2, <1>3, <1>5, <3>1
      <3> QED
        BY <1>5, <2>2, <3>1, <3>2, CommitGoesOn
    <2> QED
      BY <2>1, <2>2
  <1> QED
    BY <1>4, <1>5 DEF Safe

\* An insertion of the log stays there, and its transaction stays safe.
LEMMA InsertStays ==
  ASSUME RecoveryTypeOK, RecoveryTypeOK', LogOrdered(log), SessionsOK, NEW s \in Sessions, Serve(s),
         NEW i \in 1 .. Len(log), NEW r, InsertOf(i, r)
  PROVE  /\ i \in 1 .. Len(log') /\ InsertOf(i, r)' /\ log'[i] = log[i]
         /\ Safe(log[i].trx) => Safe(log[i].trx)'
  <1>1. /\ Agree(log, log', Len(log)) /\ Len(log) \in Nat /\ Len(log') \in Nat /\ Len(log) <= Len(log')
        /\ i \in DOMAIN log
    BY ServeGrows, GrowsExtends DEF Extends
  <1>2. i \in 1 .. Len(log') /\ log'[i] = log[i] /\ InsertOf(i, r)'
    BY <1>1 DEF Agree, InsertOf
  <1>3. log[i] \in LogRecord /\ log[i].type = "INSERT"
    BY <1>1, ElementOfSeq DEF RecoveryTypeOK, InsertOf
  <1>4. log[i].trx \in Int /\ log[i].trx /= NoTrxId /\ log[i].trx <= current_trx_id
    BY <1>1, <1>3, RecordFields DEF LogOrdered, RecordOK, IsData, SessionsOK
  <1>5. ASSUME NEW y, y = log[i].trx, Safe(log[i].trx) PROVE Safe(y)'
    BY <1>4, <1>5, SafeStays
  <1>6. ASSUME NEW y, y = log[i].trx, Safe(log[i].trx) PROVE Safe(log[i].trx)'
    BY <1>2, <1>5, <1>6 DEF Safe
  <1> QED
    BY <1>2, <1>6

\* As long as nothing is logged after a restart, no transaction runs and no
\* record changes.
LEMMA ServeQuiet ==
  ASSUME RecoveryTypeOK, SessionsOK, QuietAfterRestart, NEW s \in Sessions, Serve(s),
         crashes > 0, pos = Len(log') + 1
  PROVE  /\ log' = log /\ pos = Len(log) + 1 /\ rows' = rows
         /\ \A t \in Sessions : ~started'[t] /\ operations'[t] = {}
  <1>0. /\ Extends(log, log') /\ Len(log) \in Nat /\ Len(log') \in Nat /\ LogGrows
        /\ pos \in 1 .. Len(log) + 1 /\ Len(log) <= Len(log')
    BY ServeGrows, GrowsExtends DEF RecoveryTypeOK, Extends
  <1>1. Len(log') = Len(log) /\ pos = Len(log) + 1 /\ ~(Len(log) < Len(log'))
    BY <1>0
  <1>2. \A t \in Sessions : ~started[t] /\ operations[t] = {}
    BY <1>1 DEF QuietAfterRestart
  <1>3. log' = log
    <2>1. ASSUME NEW a \in LogRecord PROVE log' /= log \o <<a>>
      BY <1>0, <1>1, AppendOne DEF RecoveryTypeOK
    <2>2. ASSUME NEW a \in LogRecord, NEW b \in LogRecord PROVE log' /= log \o <<a, b>>
      <3> DEFINE q == <<a, b>>
      <3>1. q \in Seq(LogRecord) /\ Len(q) = 2
        OBVIOUS
      <3> HIDE DEF q
      <3>2. log' /= log \o q
        <4> SUFFICES ASSUME log' = log \o q PROVE FALSE
          OBVIOUS
        <4>1. Len(log') = Len(log) + 2
          BY <3>1, AppendTwo, Zenon DEF RecoveryTypeOK
        <4> QED
          BY <1>0, <1>1, <4>1
      <3> QED
        BY <3>2 DEF q
    <2> QED
      BY <1>0, <2>1, <2>2 DEF LogGrows
  <1>4. \A t \in Sessions : ~started'[t]
    BY <1>1, <1>2, ServeStarted
  <1>5. \A t \in Sessions : operations'[t] = {}
    <2>1. operations'[s] = {}
      BY <1>1, <1>2, ServeRests
    <2> QED
      BY <1>2, <2>1, ServeRests DEF Rests
  <1>6. rows' = rows
    <2>1. todo[s] = {} /\ phase[s] /= "stmt"
      BY <1>2 DEF SessionsOK, SessionOK
    <2>2. ASSUME NEW q \in Rids PROVE rows'[q] = rows[q]
      BY <2>1, ServeRows DEF Inserted, Marked, Stamped, Released
    <2>3. rows \in [Rids -> Row \cup {NoRow}] /\ rows' \in [Rids -> Row \cup {NoRow}]
      BY ServeGrows, TypeStep DEF RecoveryTypeOK, TypeOK
    <2> QED
      BY <2>2, <2>3
  <1> QED
    BY <1>1, <1>3, <1>4, <1>5, <1>6

\* Sessions, marks and the quiet time after a restart.
LEMMA ServeUp ==
  ASSUME RecoveryTypeOK, RecoveryTypeOK', LogOrdered(log), mode = "up", UpInv, NEW s \in Sessions, Serve(s)
  PROVE  /\ LogOrdered(log') /\ UpInv' /\ mode' = "up" /\ pos' = pos /\ crashes' = crashes
         /\ SessionsOK /\ SessionsOK' /\ MarksDrawn /\ QuietAfterRestart
  <1>1. mode' = "up" /\ pos' = pos /\ crashes' = crashes
    BY ServeGrows DEF redoVars
  <1>2. SessionsOK /\ MarksDrawn /\ QuietAfterRestart
    BY DEF UpInv
  <1>3. LogOrdered(log') /\ SessionsOK'
    BY <1>2, ServeSessions
  <1>4. MarksDrawn'
    BY <1>2, ServeMarks
  <1>5. QuietAfterRestart'
    BY <1>1, <1>2, ServeQuiet DEF QuietAfterRestart
  <1> QED
    BY <1>1, <1>2, <1>3, <1>4, <1>5 DEF UpInv

\* Nothing is served on a slot that was used again before.
LEMMA ServeIndex ==
  ASSUME RecoveryTypeOK, RecoveryTypeOK', mode = "up", UpIndex, NEW s \in Sessions, Serve(s)
  PROVE  /\ UpIndex'
         /\ ~SlotReused(log', Len(log')) => ~SlotReused(log, Len(log))
         /\ crashes' = crashes
  <1>1. Extends(log, log') /\ UNCHANGED redoVars /\ Next
    BY ServeGrows, GrowsExtends
  <1>2. ~SlotReused(log', Len(log')) => ~SlotReused(log, Len(log))
    BY <1>1, SlotKept DEF RecoveryTypeOK
  <1>3. IndexEntriesLive => IndexEntriesLive'
    BY <1>1, IndexStep DEF RecoveryTypeOK
  <1>4. crashes' = crashes
    BY <1>1 DEF redoVars
  <1> QED
    BY <1>2, <1>3, <1>4 DEF UpIndex

\* Every deletion that a request logs is of a record that its own or a safe
\* transaction inserted.
LEMMA ServeDeletes ==
  ASSUME RecoveryTypeOK, RecoveryTypeOK', LogOrdered(log), SessionsOK, mode = "up",
         DeletesHeld, UpHeld, NEW s \in Sessions, Serve(s)
  PROVE  DeletesHeld'
  <1> DEFINE Held(j) == \E i \in 1 .. j - 1 :
               InsertOf(i, log[j].rid) /\ (log[i].trx = log[j].trx \/ Safe(log[i].trx))
  <1> SUFFICES ASSUME NEW j \in DOMAIN log', log'[j].type = "DELETE", ~SlotReused(log', j) PROVE Held(j)'
    BY DEF DeletesHeld
  <1>1. /\ Agree(log, log', Len(log)) /\ Len(log) \in Nat /\ Len(log') \in Nat /\ Len(log) <= Len(log')
        /\ DOMAIN log = 1 .. Len(log) /\ DOMAIN log' = 1 .. Len(log') /\ Extends(log, log')
    BY ServeGrows, GrowsExtends, LenProperties DEF Extends, RecoveryTypeOK
  <1>2. ASSUME NEW i \in 1 .. Len(log), i \in 1 .. j - 1, NEW r, r = log'[j].rid, InsertOf(i, r),
               log[i].trx = log'[j].trx \/ Safe(log[i].trx)
        PROVE  Held(j)'
    <2>1. /\ InsertOf(i, r)' /\ log'[i] = log[i]
          /\ Safe(log[i].trx) => Safe(log[i].trx)'
      BY <1>2, InsertStays
    <2>2. InsertOf(i, log[j].rid)'
      BY <1>2, <2>1 DEF InsertOf
    <2> QED
      BY <1>2, <2>1, <2>2
  <1> HIDE DEF Held
  <1>3. CASE j \in 1 .. Len(log)
    <2>1. log'[j] = log[j] /\ j \in 0 .. Len(log)
      BY <1>1, <1>3 DEF Agree
    <2>2. ~SlotReused(log, j) /\ log[j].type = "DELETE"
      BY <1>1, <2>1, AgreeSlots
    <2>3. PICK i \in 1 .. j - 1 : InsertOf(i, log[j].rid) /\ (log[i].trx = log[j].trx \/ Safe(log[i].trx))
      BY <1>1, <1>3, <2>2 DEF DeletesHeld
    <2>4. i \in 1 .. Len(log)
      BY <1>1, <1>3
    <2> QED
      BY <1>2, <2>1, <2>3, <2>4
  <1>4. CASE j \in Len(log) + 1 .. Len(log')
    <2> DEFINE r == log'[j].rid
    <2>1. /\ log'[j].trx = trx_id[s] /\ phase[s] = "stmt" /\ rows[r] /= NoRow
          /\ VisitRecord(trx_id[s], rows[r], FALSE) = "SUCCESS"
      BY <1>4, ServeRecords DEF Logged
    <2>2. ~SlotReused(log, Len(log))
      <3>1. Len(log) \in 0 .. j /\ j \in Nat /\ Len(log) \in 0 .. Len(log)
        BY <1>1, <1>4
      <3>2. ~SlotReused(log', Len(log))
        BY <3>1, Growing
      <3> QED
        BY <1>1, <3>1, <3>2, AgreeSlots
    <2>3. log'[j] \in LogRecord /\ r \in Rids
      BY <1>1, ElementOfSeq, RecordFields DEF RecoveryTypeOK
    <2>4. HeldRow(r) /\ rows[r] \in Row
      BY <2>1, <2>2, <2>3 DEF UpHeld, RecoveryTypeOK, TypeOK
    <2> HIDE DEF r
    <2>5. started[s] /\ trx_id[s] \in Int
      BY <2>1 DEF SessionsOK, SessionOK, RecoveryTypeOK, TypeOK
    <2>6. rows[r].begin > 0 \/ rows[r].begin = -trx_id[s]
      <3>1. rows[r].begin \in Int /\ rows[r].begin /= 0
        BY <2>4 DEF Row, HeldRow
      <3>2. ASSUME rows[r].begin < 0 PROVE -rows[r].begin = trx_id[s]
        BY <2>1, <3>1, <3>2 DEF VisitRecord
      <3> QED
        BY <2>5, <3>1, <3>2
    <2>7. PICK i \in 1 .. Len(log) : InsertOf(i, r) /\ (log[i].trx = trx_id[s] \/ Safe(log[i].trx))
      BY <2>4, <2>5, <2>6 DEF HeldRow
    <2>8. i \in 1 .. j - 1
      BY <1>1, <1>4
    <2> QED
      BY <1>2, <2>1, <2>7, <2>8 DEF r
  <1> QED
    BY <1>1, <1>3, <1>4

\* A commit stamps a record that its transaction, now safe, inserted.
LEMMA StampedSafe ==
  ASSUME RecoveryTypeOK, LogOrdered(log), SessionsOK, NEW s \in Sessions, phase[s] = "commit",
         NEW op \in todo[s], op.type = "INSERT"
  PROVE  \E i \in 1 .. Len(log) : InsertOf(i, op.rid) /\ Safe(log[i].trx)
  <1>1. /\ op \in operations[s] /\ ~Ended(log, trx_id[s], Len(log))
        /\ OpsMatch(operations[s], log, trx_id[s], Len(log))
    BY SessionIds
  <1>2. PICK i \in 1 .. Len(log) :
          IsData(log[i]) /\ log[i].trx = trx_id[s] /\ log[i].type = op.type /\ log[i].rid = op.rid
    BY <1>1 DEF OpsMatch
  <1>3. ~RolledBack(log, trx_id[s], Len(log))
    BY <1>1 DEF RolledBack, EndedAt, Ended
  <1>4. trx_id[s] /= NoTrxId
    <2>1. i \in DOMAIN log
      BY LenProperties DEF RecoveryTypeOK
    <2> QED
      BY <1>2, <2>1 DEF LogOrdered, RecordOK
  <1>5. \A t \in Sessions : trx_id[t] = trx_id[s] => t = s
    BY <1>4 DEF SessionsOK
  <1>6. Safe(log[i].trx)
    BY <1>2, <1>3, <1>5 DEF Safe
  <1> QED
    BY <1>2, <1>6 DEF InsertOf

\* The records that running transactions may delete stay held.
LEMMA ServeHeld ==
  ASSUME RecoveryTypeOK, RecoveryTypeOK', LogOrdered(log), SessionsOK, MarksDrawn, mode = "up",
         UpHeld, NEW s \in Sessions, Serve(s)
  PROVE  UpHeld'
  <1> SUFFICES ASSUME ~SlotReused(log', Len(log')), NEW r \in Rids, rows'[r] /= NoRow PROVE HeldRow(r)'
    BY DEF UpHeld
  <1> DEFINE HasSafe == \E i \in 1 .. Len(log) : InsertOf(i, r) /\ Safe(log[i].trx)
             HasOf(x) == \E i \in 1 .. Len(log) : InsertOf(i, r) /\ log[i].trx = x
  <1>1. /\ Extends(log, log') /\ Len(log) \in Nat /\ Len(log') \in Nat
        /\ ~SlotReused(log, Len(log))
    BY ServeGrows, GrowsExtends, SlotKept DEF RecoveryTypeOK, Extends
  <1>2. HasSafe => HasSafe'
    BY InsertStays
  <1>3. ASSUME NEW x, HasOf(x) PROVE HasOf(x)'
    BY <1>3, InsertStays
  <1>4. ASSUME NEW t \in Sessions, started'[t]
        PROVE  /\ trx_id'[t] \in Int /\ trx_id'[t] >= 1
               /\ (started[t] /\ trx_id'[t] = trx_id[t]) \/ trx_id'[t] = current_trx_id + 1
    <2>1. (started[t] /\ trx_id'[t] = trx_id[t]) \/ trx_id'[t] = current_trx_id + 1
      BY <1>4, ServeStarted
    <2>2. current_trx_id \in Nat /\ (started[t] => trx_id[t] \in 1 .. current_trx_id)
      BY SessionIds
    <2> QED
      BY <2>1, <2>2
  <1>5. rows'[r] \in Row /\ rows'[r].begin \in Int /\ (rows[r] /= NoRow => rows[r] \in Row /\ rows[r].begin \in Int)
    BY DEF RecoveryTypeOK, TypeOK, Row
  <1>6. ASSUME rows[r] /= NoRow, rows'[r].begin = rows[r].begin PROVE HeldRow(r)'
    <2>1. /\ rows[r].begin /= 0 /\ (rows[r].begin > 0 => HasSafe)
          /\ \A t \in Sessions : started[t] /\ rows[r].begin = -trx_id[t] => HasOf(trx_id[t])
      BY <1>1, <1>6 DEF UpHeld, HeldRow
    <2> HIDE DEF HasSafe, HasOf
    <2>2. ASSUME NEW t \in Sessions, started'[t], rows'[r].begin = -trx_id'[t], NEW x, x = trx_id'[t]
          PROVE  HasOf(x)'
      <3>1. -rows[r].begin <= current_trx_id /\ current_trx_id \in Nat
        BY <1>6 DEF MarksDrawn, RecoveryTypeOK, TypeOK
      <3>2. -rows[r].begin = trx_id'[t]
        BY <1>4, <1>5, <1>6, <2>2
      <3>3. started[t] /\ trx_id'[t] = trx_id[t]
        BY <1>4, <1>5, <1>6, <2>2, <3>1, <3>2
      <3> QED
        BY <1>3, <1>6, <2>1, <2>2, <3>3
    <2> QED
      BY <1>2, <1>6, <2>1, <2>2 DEF HeldRow, HasSafe, HasOf
  <1>7. CASE Inserted(s, r)
    <2>1. PICK k \in Keys : /\ rows'[r] = [begin |-> -trx_id[s], end |-> MaxTrxId, key |-> k]
                            /\ log'[Len(log')] = InsertLog(s, r, k)
      BY <1>7 DEF Inserted
    <2>2. trx_id[s] \in Int /\ trx_id[s] >= 1 /\ Len(log') \in 1 .. Len(log')
      BY <1>1, <1>7, SessionIds DEF Inserted
    <2>3. rows'[r].begin = -trx_id[s] /\ rows'[r].begin < 0
      BY <2>1, <2>2
    <2>4. /\ log'[Len(log')].type = "INSERT" /\ log'[Len(log')].rid = r
          /\ log'[Len(log')].trx = trx_id[s]
      BY <2>1 DEF InsertLog
    <2>5. ASSUME NEW t \in Sessions, started'[t], rows'[r].begin = -trx_id'[t]
          PROVE  trx_id'[t] = trx_id[s]
      BY <1>4, <2>2, <2>3, <2>5
    <2> QED
      BY <1>5, <2>2, <2>3, <2>4, <2>5 DEF HeldRow, InsertOf
  <1>8. ASSUME phase[s] = "commit", NEW op \in todo[s], op.rid = r, op.type = "INSERT",
               rows[r] /= NoRow, rows'[r] = [rows[r] EXCEPT !.begin = commit_xid[s]]
        PROVE  HeldRow(r)'
    <2>1. rows'[r].begin = commit_xid[s] /\ commit_xid[s] \in Int /\ commit_xid[s] > 0
      BY <1>5, <1>8, SessionIds DEF Row
    <2>2. HasSafe'
      BY <1>2, <1>8, StampedSafe
    <2>3. ASSUME NEW t \in Sessions, started'[t] PROVE rows'[r].begin /= -trx_id'[t]
      BY <1>4, <2>1, <2>3
    <2> QED
      BY <2>1, <2>2, <2>3 DEF HeldRow
  <1>9. CASE Stamped(s, r)
    <2>1. PICK op \in todo[s] : /\ op.rid = r
            /\ \/ op.type = "INSERT" /\ rows'[r] = [rows[r] EXCEPT !.begin = commit_xid[s]]
               \/ op.type = "DELETE" /\ rows'[r] = [rows[r] EXCEPT !.end = commit_xid[s]]
      BY <1>9 DEF Stamped
    <2>2. rows[r] /= NoRow /\ phase[s] = "commit"
      BY <1>9 DEF Stamped
    <2>3. rows'[r] = [rows[r] EXCEPT !.end = commit_xid[s]] => rows'[r].begin = rows[r].begin
      BY <1>5, <2>2 DEF Row
    <2> QED
      BY <1>6, <1>8, <2>1, <2>2, <2>3
  <1>10. CASE Marked(s, r) \/ Released(s, r)
    <2>1. rows[r] /= NoRow /\ \E e \in Int : rows'[r] = [rows[r] EXCEPT !.end = e]
      <3>1. -trx_id[s] \in Int /\ MaxTrxId \in Int
        BY SessionIds, ConstantsAssumption
      <3> QED
        BY <1>10, <3>1 DEF Marked, Released
    <2>2. rows'[r].begin = rows[r].begin
      BY <1>5, <2>1 DEF Row
    <2> QED
      BY <1>6, <2>1, <2>2
  <1> QED
    BY <1>6, <1>7, <1>9, <1>10, ServeRows

\* Without a unique index the insertion of an UPDATE does not fail.
LEMMA NoFailure ==
  ASSUME ~Unique, IndexEntriesLive, NEW r
  PROVE  ~UpdateFails(r)
  BY DEF UpdateFails, DuplicateKey, IndexEntriesLive

\* The record that recovery left is as it was.
LEMMA ServeClean ==
  ASSUME RecoveryTypeOK, RecoveryTypeOK', LogOrdered(log), mode = "up", UpInv, RecoveredTableClean,
         NEW s \in Sessions, Serve(s)
  PROVE  RecoveredTableClean'
  <1>1. pos' = pos /\ crashes' = crashes /\ SessionsOK /\ QuietAfterRestart
    BY ServeUp
  <1>2. crashes > 0 /\ pos = Len(log') + 1 => log' = log /\ pos = Len(log) + 1 /\ rows' = rows
    BY <1>1, ServeQuiet
  <1>3. CASE crashes > 0 /\ pos = Len(log') + 1
    <2>1. log' = log /\ pos = Len(log) + 1 /\ rows' = rows
      BY <1>2, <1>3
    <2> QED
      BY <1>1, <1>3, <2>1 DEF RecoveredTableClean
  <1>4. CASE ~(crashes > 0 /\ pos = Len(log') + 1)
    BY <1>1, <1>4 DEF RecoveredTableClean
  <1> QED
    BY <1>3, <1>4

\* The mark of a running transaction is on records of its operation set only.
LEMMA ServeOwnMarks ==
  ASSUME RecoveryTypeOK, RecoveryTypeOK', LogOrdered(log), mode = "up", UpInv, IndexEntriesLive,
         IdsNotReused, ~Unique, NEW s \in Sessions, Serve(s)
  PROVE  IdsNotReused'
  <1>0. SessionsOK /\ SessionsOK' /\ MarksDrawn
    BY ServeUp
  <1> SUFFICES ASSUME NEW t \in Sessions, NEW r \in Rids, started'[t], Marks(t, r)'
               PROVE  \E op \in Pending(t)' : op.rid = r
    BY DEF IdsNotReused
  <1>1. Pending(t)' = operations'[t]
    <2>1. phase'[t] \notin {"commit", "rollback"}
      BY <1>0 DEF SessionsOK, SessionOK, Ending
    <2> QED
      BY <2>1 DEF Pending
  <1>2. rows'[r] /= NoRow /\ (rows'[r].begin = -trx_id'[t] \/ rows'[r].end = -trx_id'[t])
    BY DEF Marks
  <1>3. CASE t = s /\ trx_id'[t] = current_trx_id + 1 /\ rows' = rows
    <2>1. rows[r] /= NoRow /\ rows[r].begin \in Int /\ rows[r].end \in Int /\ current_trx_id \in Nat
      BY <1>2, <1>3, RowFields DEF RecoveryTypeOK, TypeOK
    <2>2. -rows[r].begin <= current_trx_id /\ -rows[r].end <= current_trx_id
      BY <1>0, <2>1 DEF MarksDrawn
    <2> QED
      BY <1>2, <1>3, <2>1, <2>2
  <1>4. CASE started[t] /\ trx_id'[t] = trx_id[t] /\ operations[t] \subseteq operations'[t]
    <2>1. /\ trx_id[t] \in 1 .. current_trx_id /\ trx_id[t] \in Int /\ trx_id[t] > 0
          /\ MaxTrxId \in Nat /\ current_trx_id \in Nat
      BY <1>0, <1>4, SessionIds, ConstantsAssumption
    <2>2. Marks(t, r) => \E op \in operations'[t] : op.rid = r
      <3>1. phase[t] \notin {"commit", "rollback"}
        BY <1>0, <1>4 DEF SessionsOK, SessionOK, Ending
      <3>2. Pending(t) = operations[t]
        BY <3>1 DEF Pending
      <3> QED
        BY <1>4, <3>2 DEF IdsNotReused
    <2>3. phase[s] = "stmt" /\ trx_id[s] = trx_id[t] => s = t
      BY <1>0, <2>1 DEF SessionsOK, NoTrxId
    <2>4. CASE rows'[r] = rows[r]
      BY <1>1, <1>2, <1>4, <2>2, <2>4 DEF Marks
    <2>5. CASE Inserted(s, r)
      <3>1. /\ rows'[r].begin = -trx_id[s] /\ rows'[r].end = MaxTrxId /\ phase[s] = "stmt"
            /\ \E op \in operations'[s] : op.rid = r
        BY <2>5 DEF Inserted
      <3>2. trx_id[s] \in Int
        BY DEF RecoveryTypeOK, TypeOK
      <3>3. trx_id[s] = trx_id[t]
        BY <1>2, <1>4, <2>1, <3>1, <3>2
      <3> QED
        BY <1>1, <2>3, <3>1, <3>3
    <2>6. CASE Marked(s, r)
      <3>1. /\ rows[r] /= NoRow /\ rows'[r] = [rows[r] EXCEPT !.end = -trx_id[s]] /\ phase[s] = "stmt"
            /\ \E op \in operations'[s] : op.rid = r
        BY <2>6, NoFailure DEF Marked
      <3>2. trx_id[s] \in Int /\ -trx_id[s] \in Int /\ rows[r] \in Row
        BY <1>0, <3>1, RowFields, SessionIds
      <3>3. rows'[r].begin = rows[r].begin /\ rows'[r].end = -trx_id[s]
        BY <3>1, <3>2, SetEnd
      <3>4. CASE rows'[r].begin = -trx_id'[t]
        BY <1>1, <1>4, <2>2, <3>1, <3>3, <3>4 DEF Marks
      <3>5. CASE rows'[r].end = -trx_id'[t]
        <4>1. trx_id[s] = trx_id[t]
          BY <1>4, <2>1, <3>2, <3>3, <3>5
        <4> QED
          BY <1>1, <2>3, <3>1, <4>1
      <3> QED
        BY <1>2, <3>4, <3>5
    <2>7. CASE Stamped(s, r)
      <3>1. /\ rows[r] /= NoRow /\ phase[s] = "commit"
            /\ \/ rows'[r] = [rows[r] EXCEPT !.begin = commit_xid[s]]
               \/ rows'[r] = [rows[r] EXCEPT !.end = commit_xid[s]]
        BY <2>7 DEF Stamped
      <3>2. commit_xid[s] \in Int /\ commit_xid[s] > 0 /\ rows[r] \in Row
        BY <1>0, <3>1, RowFields, SessionIds
      <3>3. \/ rows'[r].begin = commit_xid[s] /\ rows'[r].end = rows[r].end
            \/ rows'[r].end = commit_xid[s] /\ rows'[r].begin = rows[r].begin
        BY <3>1, <3>2, SetBegin, SetEnd
      <3>4. -trx_id[t] /= commit_xid[s]
        BY <2>1, <3>2
      <3>5. Marks(t, r)
        BY <1>2, <1>4, <3>1, <3>3, <3>4 DEF Marks
      <3> QED
        BY <1>1, <2>2, <3>5
    <2>8. CASE Released(s, r)
      <3>1. rows[r] /= NoRow /\ rows'[r] = [rows[r] EXCEPT !.end = MaxTrxId]
        BY <1>2, <2>8 DEF Released
      <3>2. rows'[r].begin = rows[r].begin /\ rows'[r].end = MaxTrxId
        BY <2>1, <3>1, RowFields, SetEnd
      <3>3. -trx_id[t] /= MaxTrxId
        BY <2>1
      <3>4. Marks(t, r)
        BY <1>2, <1>4, <3>1, <3>2, <3>3 DEF Marks
      <3> QED
        BY <1>1, <2>2, <3>4
    <2> QED
      BY <2>4, <2>5, <2>6, <2>7, <2>8, ServeRows
  <1> QED
    BY <1>0, <1>3, <1>4, ServeStarted

\* The operation set of the session that acts, seen from a record of another
\* transaction or of one that has ended.
LEMMA OpsOfActor ==
  ASSUME RecoveryTypeOK, SessionsOK, NEW s \in Sessions, NEW x, x /= trx_id[s] \/ Ended(log, x, Len(log)),
         NEW op \in todo[s]
  PROVE  /\ x /= trx_id[s] /\ OpsMatch(operations[s], log, trx_id[s], Len(log))
         /\ op \in operations[s] /\ op \in Operation /\ op = [type |-> op.type, rid |-> op.rid]
  <1>1. op \in operations[s] /\ OpsMatch(operations[s], log, trx_id[s], Len(log))
    BY SessionIds
  <1>2. ~Ended(log, trx_id[s], Len(log))
    BY <1>1 DEF OpsMatch
  <1>3. op \in Operation
    BY DEF RecoveryTypeOK, TypeOK
  <1>4. op = [type |-> op.type, rid |-> op.rid]
    BY <1>3 DEF Operation
  <1> QED
    BY <1>1, <1>2, <1>3, <1>4

\* An insertion that stands keeps its record against the requests of the others.
LEMMA InsertStands ==
  ASSUME RecoveryTypeOK, SessionsOK, NEW s \in Sessions, Serve(s),
         ~SlotReused(log, Len(log)), NEW i \in 1 .. Len(log), log[i].type = "INSERT",
         rows[log[i].rid] /= NoRow, ~RolledBack(log, log[i].trx, Len(log)),
         log[i].trx /= trx_id[s] \/ Ended(log, log[i].trx, Len(log))
  PROVE  /\ rows'[log[i].rid] /= NoRow /\ rows'[log[i].rid].key = rows[log[i].rid].key
         /\ rows'[log[i].rid].begin = rows[log[i].rid].begin
  <1> SUFFICES ASSUME NEW r, r = log[i].rid
               PROVE  /\ rows'[r] /= NoRow /\ rows'[r].key = rows[r].key
                      /\ rows'[r].begin = rows[r].begin
    OBVIOUS
  <1>0. Len(log) \in Nat /\ log[i] \in LogRecord /\ r \in Rids
    BY LenProperties, ElementOfSeq, RecordFields DEF RecoveryTypeOK
  <1>1. /\ rows[r] \in Row /\ trx_id[s] \in Int /\ -trx_id[s] \in Int /\ commit_xid[s] \in Int
        /\ MaxTrxId \in Int
    BY <1>0, RowFields, SessionIds, ConstantsAssumption
  <1>2. \A op \in todo[s] : op.rid = r => op.type /= "INSERT"
    <2> SUFFICES ASSUME NEW op \in todo[s], op.rid = r, op.type = "INSERT" PROVE FALSE
      OBVIOUS
    <2>1. /\ log[i].trx /= trx_id[s] /\ OpsMatch(operations[s], log, trx_id[s], Len(log))
          /\ op \in operations[s] /\ op = [type |-> op.type, rid |-> op.rid]
      BY OpsOfActor
    <2> QED
      BY <1>0, <2>1, ForeignInsert
  <1>3. rows'[r] = rows[r] \/ \E x \in Int : rows'[r] = [rows[r] EXCEPT !.end = x]
    <2>1. CASE Inserted(s, r)
      BY <2>1 DEF Inserted
    <2>2. CASE Marked(s, r)
      BY <1>1, <2>2 DEF Marked
    <2>3. CASE Stamped(s, r)
      BY <1>1, <1>2, <2>3 DEF Stamped
    <2>4. CASE Released(s, r)
      BY <1>1, <1>2, <2>4 DEF Released
    <2> QED
      BY <1>0, <2>1, <2>2, <2>3, <2>4, ServeRows
  <1>4. CASE rows'[r] = rows[r]
    BY <1>4
  <1>5. CASE \E x \in Int : rows'[r] = [rows[r] EXCEPT !.end = x]
    <2>1. PICK x \in Int : rows'[r] = [rows[r] EXCEPT !.end = x]
      BY <1>5
    <2> QED
      BY <1>1, <2>1, SetEnd
  <1> QED
    BY <1>3, <1>4, <1>5

\* A deletion that stands alone keeps its end id against the requests of the
\* others.
LEMMA DeleteStands ==
  ASSUME RecoveryTypeOK, SessionsOK, NEW s \in Sessions, Serve(s),
         ~Unique, IndexEntriesLive, ~SlotReused(log', Len(log')),
         NEW i \in 1 .. Len(log), log[i].type = "DELETE", OnlyDeletion(log', i),
         ~RolledBack(log', log[i].trx, Len(log')),
         log[i].trx /= trx_id[s] \/ Ended(log, log[i].trx, Len(log))
  PROVE  /\ rows[log[i].rid] = NoRow => rows'[log[i].rid] = NoRow
         /\ rows[log[i].rid] /= NoRow =>
              rows'[log[i].rid] = NoRow \/ rows'[log[i].rid].end = rows[log[i].rid].end
  <1> SUFFICES ASSUME NEW r, r = log[i].rid
               PROVE  /\ rows[r] = NoRow => rows'[r] = NoRow
                      /\ rows[r] /= NoRow => rows'[r] = NoRow \/ rows'[r].end = rows[r].end
    OBVIOUS
  <1>0. /\ Len(log) \in Nat /\ Len(log') \in Nat /\ Len(log) <= Len(log') /\ Extends(log, log')
        /\ DOMAIN log = 1 .. Len(log) /\ DOMAIN log' = 1 .. Len(log')
    BY ServeGrows, GrowsExtends DEF Extends
  <1>1. log[i] \in LogRecord /\ r \in Rids
    BY ElementOfSeq, RecordFields DEF RecoveryTypeOK
  <1>2. trx_id[s] \in Int /\ -trx_id[s] \in Int /\ commit_xid[s] \in Int /\ MaxTrxId \in Int
    BY SessionIds, ConstantsAssumption
  <1>3. log'[i] = log[i] /\ OnlyDeletion(log, i)
    BY <1>0, DeletionsKept DEF Extends, Agree, RecoveryTypeOK
  <1>4. \A op \in todo[s] : op.rid = r => op.type /= "DELETE"
    <2> SUFFICES ASSUME NEW op \in todo[s], op.rid = r, op.type = "DELETE" PROVE FALSE
      OBVIOUS
    <2>1. /\ log[i].trx /= trx_id[s] /\ OpsMatch(operations[s], log, trx_id[s], Len(log))
          /\ op \in operations[s] /\ op = [type |-> op.type, rid |-> op.rid]
      BY OpsOfActor
    <2>2. 1 .. Len(log) \subseteq DOMAIN log /\ [type |-> "DELETE", rid |-> log[i].rid] \in operations[s]
      BY <1>0, <2>1
    <2> QED
      BY <1>0, <1>3, <2>1, <2>2, ForeignDelete
  <1>5. ~Inserted(s, r)
    <2> SUFFICES ASSUME Inserted(s, r) PROVE FALSE
      OBVIOUS
    <2>1. PICK k \in Keys : Len(log) < Len(log') /\ log'[Len(log')] = InsertLog(s, r, k)
      BY DEF Inserted
    <2>2. log'[Len(log')].type = "INSERT" /\ log'[Len(log')].rid = r
      BY <2>1 DEF InsertLog
    <2>3. Len(log') \in 1 .. Len(log') /\ i \in 1 .. Len(log') - 1
      BY <1>0, <2>1
    <2> QED
      BY <1>0, <1>3, <2>2, <2>3, EarlierClash DEF IsData
  <1>6. ~Marked(s, r)
    <2> SUFFICES ASSUME Marked(s, r) PROVE FALSE
      OBVIOUS
    <2>1. Len(log) < Len(log') /\ log'[Len(log) + 1] = DeleteLog(s, r)
      BY NoFailure DEF Marked
    <2>2. log'[Len(log) + 1].type = "DELETE" /\ log'[Len(log) + 1].rid = r
      BY <2>1 DEF DeleteLog
    <2>3. Len(log) + 1 \in DOMAIN log' \ {i} /\ ~(Len(log) + 1 < i)
      BY <1>0, <2>1
    <2> QED
      BY <1>3, <2>2, <2>3 DEF OnlyDeletion
  <1>7. \/ rows'[r] = rows[r]
        \/ rows[r] /= NoRow /\ rows'[r] = [rows[r] EXCEPT !.begin = commit_xid[s]]
        \/ rows[r] /= NoRow /\ rows'[r] = NoRow
    <2>1. CASE Stamped(s, r)
      BY <1>4, <2>1 DEF Stamped
    <2>2. CASE Released(s, r)
      BY <1>4, <2>2 DEF Released
    <2> QED
      BY <1>1, <1>5, <1>6, <2>1, <2>2, ServeRows
  <1>8. rows[r] /= NoRow => rows[r] \in Row
    BY <1>1, RowFields
  <1> QED
    BY <1>2, <1>7, <1>8, SetBegin

\* The table matches the longer log.
LEMMA ServeCommitted ==
  ASSUME RecoveryTypeOK, RecoveryTypeOK', LogOrdered(log), LogOrdered(log'), SessionsOK,
         NEW s \in Sessions, Serve(s), ~Unique, IndexEntriesLive,
         ~SlotReused(log, Len(log)), ~SlotReused(log', Len(log')), CommittedRows(Len(log)), LiveRows
  PROVE  CommittedRows(Len(log))'
  <1>0. /\ Len(log) \in Nat /\ Len(log') \in Nat /\ Len(log) <= Len(log') /\ Extends(log, log')
        /\ DOMAIN log = 1 .. Len(log) /\ DOMAIN log' = 1 .. Len(log') /\ Agree(log, log', Len(log))
        /\ log \in Seq(LogRecord)
    BY ServeGrows, GrowsExtends DEF Extends, RecoveryTypeOK
  <1> SUFFICES ASSUME NEW c \in 1 .. Len(log'), NEW i \in 1 .. Len(log'),
                      CommittedAt(log', c, log'[i].trx), IsData(log'[i])
               PROVE  /\ log'[i].type = "INSERT" => /\ rows'[log'[i].rid] /= NoRow
                                                    /\ rows'[log'[i].rid].begin = log'[c].xid
                                                    /\ rows'[log'[i].rid].key = log'[i].key
                      /\ log'[i].type = "DELETE" /\ ~OwnRecord(log', i) /\ OnlyDeletion(log', i) =>
                           rows'[log'[i].rid] = NoRow \/ rows'[log'[i].rid].end = log'[c].xid
    BY DEF CommittedRows, IsData
  <1>1. /\ Committed(log', log'[i].trx, Len(log')) /\ ~RolledBack(log', log'[i].trx, Len(log'))
        /\ Ends(log', c, log'[i].trx) /\ log'[c].type = "MTR_COMMIT"
    BY <1>0, OneFate DEF Committed, CommittedAt, EndedAt
  <1>2. \A j \in 1 .. Len(log') : j \in 1 .. Len(log) \/ j \in Len(log) + 1 .. Len(log')
    BY <1>0
  \* A record comes before the end of its transaction.
  <1>3. i < c
    <2> SUFFICES ASSUME ~(i < c) PROVE FALSE
      OBVIOUS
    <2>1. c \in 1 .. i
      BY <1>0
    <2>2. Ended(log', log'[i].trx, i)
      BY <1>1, <2>1 DEF Ended
    <2> QED
      BY <1>0, <2>2 DEF LogOrdered, RecordOK
  <1>4. CASE c \in 1 .. Len(log)
    <2>1. i \in 1 .. Len(log)
      BY <1>0, <1>3, <1>4
    <2>2. log'[i] = log[i] /\ log'[c] = log[c]
      BY <1>0, <1>4, <2>1 DEF Agree
    <2>3. CommittedAt(log, c, log[i].trx)
      BY <1>0, <1>4, <2>2, AgreeFates
    <2>4. Ended(log, log[i].trx, Len(log)) /\ ~RolledBack(log, log[i].trx, Len(log))
      BY <1>0, <1>4, <2>3, OneFate DEF Committed
    <2>5. ASSUME log[i].type = "INSERT"
          PROVE  /\ rows'[log[i].rid] /= NoRow /\ rows'[log[i].rid].begin = log[c].xid
                 /\ rows'[log[i].rid].key = log[i].key
      <3>1. /\ rows[log[i].rid] /= NoRow /\ rows[log[i].rid].begin = log[c].xid
            /\ rows[log[i].rid].key = log[i].key
        BY <1>4, <2>1, <2>3, <2>5 DEF CommittedRows
      <3> QED
        BY <2>1, <2>4, <2>5, <3>1, InsertStands
    <2>6. ASSUME log[i].type = "DELETE", ~OwnRecord(log', i), OnlyDeletion(log', i)
          PROVE  rows'[log[i].rid] = NoRow \/ rows'[log[i].rid].end = log[c].xid
      <3>1. ~OwnRecord(log, i) /\ OnlyDeletion(log, i)
        BY <1>0, <2>1, <2>6, DeletionsKept
      <3>2. rows[log[i].rid] = NoRow \/ rows[log[i].rid].end = log[c].xid
        BY <1>4, <2>1, <2>3, <2>6, <3>1 DEF CommittedRows
      <3>3. ~RolledBack(log', log[i].trx, Len(log'))
        BY <1>1, <2>2
      <3>4. /\ rows[log[i].rid] = NoRow => rows'[log[i].rid] = NoRow
            /\ rows[log[i].rid] /= NoRow =>
                 rows'[log[i].rid] = NoRow \/ rows'[log[i].rid].end = rows[log[i].rid].end
        BY <2>1, <2>4, <2>6, <3>3, DeleteStands
      <3> QED
        BY <3>2, <3>4
    <2> QED
      BY <2>2, <2>5, <2>6
  <1>5. CASE c \in Len(log) + 1 .. Len(log')
    <2>1. /\ log'[c].trx = trx_id[s] /\ phase[s] = "commit" /\ todo[s] = {}
          /\ log'[c].xid = commit_xid[s] /\ rows' = rows /\ Len(log') = Len(log) + 1
      BY <1>1, <1>5, ServeRecords DEF Logged
    <2>2. i \in 1 .. Len(log) /\ c = Len(log) + 1 /\ log'[i].trx = trx_id[s]
      <3>1. log'[c].trx = log'[i].trx
        BY <1>1 DEF Ends
      <3>2. c = Len(log) + 1 /\ i \in 1 .. Len(log)
        BY <1>0, <1>3, <1>5, <2>1
      <3> QED
        BY <2>1, <3>1, <3>2
    <2>3. log'[i] = log[i]
      BY <1>0, <2>2 DEF Agree
    <2>4. ~Ended(log, trx_id[s], Len(log))
      <3>1. \A d \in 1 .. c - 1 : ~Ends(log', d, trx_id[s])
        BY <2>2 DEF CommittedAt, EndedAt
      <3>2. ~Ended(log', trx_id[s], Len(log))
        BY <1>0, <2>2, <3>1 DEF Ended
      <3>3. Len(log) \in 0 .. Len(log)
        BY <1>0
      <3> QED
        BY <1>0, <3>2, <3>3, AgreeFates
    <2>5. Live(s)
      BY <2>1, <2>4 DEF Live
    <2>6. /\ log[i].type = "INSERT" =>
               /\ rows[log[i].rid] /= NoRow /\ rows[log[i].rid].key = log[i].key
               /\ rows[log[i].rid].begin = commit_xid[s]
          /\ log[i].type = "DELETE" /\ ~OwnRecord(log, i) /\ OnlyDeletion(log, i) =>
               rows[log[i].rid] = NoRow \/ rows[log[i].rid].end = commit_xid[s]
      <3>1. i \in DOMAIN log /\ log[i].trx = trx_id[s]
        BY <1>0, <2>2, <2>3
      <3>2. phase[s] = "commit" /\ [type |-> log[i].type, rid |-> log[i].rid] \notin todo[s]
        BY <2>1
      <3> QED
        BY <2>5, <3>1, <3>2 DEF LiveRows, LiveRow
    <2>7. /\ ~OwnRecord(log', i) => ~OwnRecord(log, i)
          /\ OnlyDeletion(log', i) => OnlyDeletion(log, i)
      BY <1>0, <2>2, DeletionsKept
    <2> QED
      BY <2>1, <2>3, <2>6, <2>7
  <1> QED
    BY <1>2, <1>4, <1>5

\* The session that acts, when its transaction runs or commits afterwards: it
\* has begun, goes on, starts to commit, or commits one more operation.
Starts(s) == trx_id'[s] = current_trx_id + 1 /\ \A j \in Len(log) + 1 .. Len(log') : ~IsData(log'[j])
\* Its transaction runs before and after the step.
GoesOn(s) == started[s] /\ trx_id'[s] = trx_id[s] /\ phase[s] \notin Ending /\ phase'[s] /= "commit"
\* It draws its commit id and visits none of its operations yet.
StartsCommit(s) ==
  /\ phase[s] \notin Ending /\ todo'[s] = operations[s] /\ trx_id'[s] = trx_id[s]
  /\ log' = log /\ rows' = rows

\* These are the steps after which a session's transaction is live.
LEMMA ServeActor ==
  ASSUME RecoveryTypeOK, SessionsOK, NEW s \in Sessions, Serve(s), started'[s] \/ phase'[s] = "commit"
  PROVE  Starts(s) \/ GoesOn(s) \/ StartsCommit(s)
         \/ \E op \in Operation : CommitOperation(s, op) /\ log' = log
  <1> DEFINE Goal == Starts(s) \/ GoesOn(s) \/ StartsCommit(s)
                     \/ \E op \in Operation : CommitOperation(s, op) /\ log' = log
  <1>0. /\ trx_id \in [Sessions -> Int] /\ started \in [Sessions -> BOOLEAN]
        /\ operations \in [Sessions -> SUBSET Operation] /\ todo \in [Sessions -> SUBSET Operation]
        /\ phase \in [Sessions -> {"idle", "stmt", "close", "commit", "rollback"}]
        /\ log \in Seq(LogRecord) /\ Len(log) \in Nat /\ current_trx_id \in Nat
    BY LenProperties DEF RecoveryTypeOK, TypeOK
  <1>1. /\ phase[s] \in {"stmt", "close"} => started[s]
        /\ phase[s] \in Ending => ~started[s]
    BY DEF SessionsOK, SessionOK
  <1>2. ASSUME LogsNothing PROVE log' = log
    BY <1>2 DEF LogsNothing, logVars
  <1>3. ASSUME StartIfNeed(s), StartLogs(s), phase[s] = "idle", phase'[s] \in {"idle", "stmt"} PROVE Goal
    <2>1. CASE started[s]
      BY <1>3, <2>1 DEF StartIfNeed, GoesOn, Ending
    <2>2. CASE ~started[s]
      <3> DEFINE a == [type |-> "MTR_BEGIN", trx |-> current_trx_id + 1]
      <3>1. trx_id'[s] = current_trx_id + 1 /\ Logs(<<a>>) /\ a \in LogRecord
        BY <1>0, <1>3, <2>2 DEF StartIfNeed, StartLogs, LogRecord
      <3>2. Len(log') = Len(log) + 1 /\ log'[Len(log) + 1] = a
        BY <3>1, LoggedOne
      <3>3. \A j \in Len(log) + 1 .. Len(log') : log'[j] = a
        BY <1>0, <3>2
      <3>4. ~IsData(a)
        BY DEF IsData
      <3> HIDE DEF a
      <3> QED
        BY <3>1, <3>3, <3>4 DEF Starts
    <2> QED
      BY <2>1, <2>2
  <1>4. ASSUME StartCommit(s), phase[s] \notin Ending, log' = log PROVE Goal
    BY <1>0, <1>4 DEF StartCommit, StartsCommit, tableVars
  <1>5. ASSUME phase[s] \in {"stmt", "close"}, trx_id' = trx_id, phase'[s] /= "commit" PROVE Goal
    BY <1>1, <1>5 DEF GoesOn, Ending
  <1>6. ASSUME ~started'[s], phase'[s] /= "commit" PROVE Goal
    BY <1>6
  <1>7. ASSUME Begin(s), StartLogs(s) PROVE Goal
    BY <1>0, <1>3, <1>7 DEF Begin
  <1>8. ASSUME OpenStatement(s), StartLogs(s) PROVE Goal
    BY <1>0, <1>3, <1>8 DEF OpenStatement
  <1>9. ASSUME CloseStatement(s), LogsNothing PROVE Goal
    <2>1. CASE multi[s]
      BY <1>0, <1>5, <1>9, <2>1 DEF CloseStatement, trxVars
    <2>2. CASE ~multi[s]
      BY <1>2, <1>4, <1>9, <2>2 DEF CloseStatement, Ending
    <2> QED
      BY <2>1, <2>2
  <1>10. ASSUME NEW r \in Rids, NEW k \in Keys, InsertRecord(s, r, k) PROVE Goal
    <2>1. phase[s] = "stmt" /\ trx_id' = trx_id /\ (phase' = phase \/ phase' = [phase EXCEPT ![s] = "close"])
      BY <1>10 DEF InsertRecord
    <2> QED
      BY <1>0, <1>5, <2>1
  <1>11. ASSUME NEW r \in Rids, DeleteRecord(s, r) PROVE Goal
    BY <1>0, <1>5, <1>11 DEF DeleteRecord
  <1>12. ASSUME NEW r \in Rids, NEW r2 \in Rids, NEW k \in Keys, UpdateRecord(s, r, r2, k) PROVE Goal
    <2>1. phase[s] = "stmt" /\ trx_id' = trx_id /\ (phase' = phase \/ phase' = [phase EXCEPT ![s] = "close"])
      BY <1>12 DEF UpdateRecord
    <2> QED
      BY <1>0, <1>5, <2>1
  <1>13. ASSUME NEW r \in Rids, WriteConflict(s, r) PROVE Goal
    BY <1>0, <1>5, <1>13 DEF WriteConflict, trxVars
  <1>14. ASSUME Commit(s), LogsNothing PROVE Goal
    BY <1>2, <1>4, <1>14 DEF Commit, Ending
  <1>15. ASSUME NEW op \in Operation, CommitOperation(s, op), LogsNothing PROVE Goal
    BY <1>2, <1>15
  <1>16. ASSUME FinishCommit(s) \/ FinishRollback(s) PROVE Goal
    <2>1. ~started'[s] /\ phase'[s] /= "commit"
      BY <1>0, <1>1, <1>16 DEF FinishCommit, FinishRollback, Ending
    <2> QED
      BY <1>6, <2>1
  <1>17. ASSUME Rollback(s) PROVE Goal
    <2>1. ~started'[s] /\ phase'[s] /= "commit"
      BY <1>0, <1>17 DEF Rollback
    <2> QED
      BY <1>6, <2>1
  <1>18. ASSUME NEW op \in Operation, RollbackOperation(s, op) PROVE Goal
    <2>1. ~started'[s] /\ phase'[s] /= "commit"
      BY <1>0, <1>1, <1>18 DEF RollbackOperation, Ending
    <2> QED
      BY <1>6, <2>1
  <1>19. ASSUME Disconnect(s) PROVE Goal
    <2>1. ~started'[s] /\ phase'[s] /= "commit"
      BY <1>0, <1>19 DEF Disconnect
    <2> QED
      BY <1>6, <2>1
  <1> HIDE DEF Goal
  <1>20. Goal
    BY <1>7, <1>8, <1>9, <1>10, <1>11, <1>12, <1>13, <1>14, <1>15, <1>16, <1>17, <1>18, <1>19 DEF Serve
  <1> QED
    BY <1>20 DEF Goal

\* A transaction of another session.
LEMMA LiveOther ==
  ASSUME RecoveryTypeOK, RecoveryTypeOK', LogOrdered(log), LogOrdered(log'), SessionsOK, SessionsOK',
         NEW s \in Sessions, Serve(s), ~Unique, IndexEntriesLive,
         ~SlotReused(log, Len(log)), ~SlotReused(log', Len(log')), LiveRows,
         NEW t \in Sessions \ {s}, Live(t)', NEW i \in 1 .. Len(log'), log'[i].trx = trx_id'[t],
         IsData(log'[i])
  PROVE  LiveRow(t, i)'
  <1>0. /\ Len(log) \in Nat /\ Len(log') \in Nat /\ Len(log) <= Len(log') /\ Extends(log, log')
        /\ DOMAIN log = 1 .. Len(log) /\ DOMAIN log' = 1 .. Len(log') /\ Agree(log, log', Len(log))
        /\ log \in Seq(LogRecord)
    BY ServeGrows, GrowsExtends DEF Extends, RecoveryTypeOK
  <1>1. /\ trx_id'[t] = trx_id[t] /\ started'[t] = started[t] /\ phase'[t] = phase[t]
        /\ todo'[t] = todo[t] /\ commit_xid'[t] = commit_xid[t]
    BY ServeRests DEF Rests
  <1>2. trx_id[t] /= NoTrxId
    BY <1>0, <1>1 DEF LogOrdered, RecordOK
  <1>3. trx_id[s] /= trx_id[t] /\ trx_id'[s] /= trx_id[t]
    BY <1>1, <1>2 DEF SessionsOK
  <1>4. \A j \in Len(log) + 1 .. Len(log') : log'[j].trx /= trx_id[t]
    BY <1>3, ServeRecords DEF Logged
  <1>5. i \in 1 .. Len(log) /\ i \in DOMAIN log
    BY <1>0, <1>1, <1>4
  <1>6. log'[i] = log[i] /\ log[i].trx = trx_id[t]
    BY <1>0, <1>1, <1>5 DEF Agree
  <1>7. /\ Ended(log', trx_id[t], Len(log')) <=> Ended(log, trx_id[t], Len(log))
        /\ RolledBack(log', trx_id[t], Len(log')) <=> RolledBack(log, trx_id[t], Len(log))
    BY <1>0, <1>4, OpsQuiet DEF Quiet
  <1>8. ~Ended(log, trx_id[t], Len(log)) /\ Live(t)
    <2>1. started[t] => ~Ended(log, trx_id[t], Len(log))
      BY DEF SessionsOK, SessionOK
    <2> QED
      BY <1>1, <1>7, <2>1 DEF Live
  <1>9. ~RolledBack(log, trx_id[t], Len(log)) /\ ~RolledBack(log', trx_id[t], Len(log'))
    BY <1>0, <1>7, <1>8, OneFate
  <1>10. LiveRow(t, i)
    BY <1>5, <1>6, <1>8 DEF LiveRows
  <1> SUFFICES ASSUME NEW r, r = log[i].rid, NEW done \in BOOLEAN,
                      done = (phase[t] = "commit" /\ [type |-> log[i].type, rid |-> r] \notin todo[t])
               PROVE  /\ log[i].type = "INSERT" =>
                           /\ rows'[r] /= NoRow /\ rows'[r].key = log[i].key
                           /\ done => rows'[r].begin = commit_xid[t]
                      /\ log[i].type = "DELETE" /\ ~OwnRecord(log', i) /\ OnlyDeletion(log', i) =>
                           rows'[r] = NoRow \/ (done => rows'[r].end = commit_xid[t])
    BY <1>1, <1>6 DEF LiveRow
  <1>11. /\ log[i].type = "INSERT" =>
              /\ rows[r] /= NoRow /\ rows[r].key = log[i].key
              /\ done => rows[r].begin = commit_xid[t]
         /\ log[i].type = "DELETE" /\ ~OwnRecord(log, i) /\ OnlyDeletion(log, i) =>
              rows[r] = NoRow \/ (done => rows[r].end = commit_xid[t])
    BY <1>10 DEF LiveRow
  <1>12. ASSUME log[i].type = "INSERT"
         PROVE  rows'[r] /= NoRow /\ rows'[r].key = rows[r].key /\ rows'[r].begin = rows[r].begin
    BY <1>3, <1>5, <1>6, <1>9, <1>11, <1>12, InsertStands
  <1>13. ASSUME log[i].type = "DELETE", ~OwnRecord(log', i), OnlyDeletion(log', i)
         PROVE  rows'[r] = NoRow \/ (done => rows'[r].end = commit_xid[t])
    <2>1. /\ rows[r] = NoRow => rows'[r] = NoRow
          /\ rows[r] /= NoRow => rows'[r] = NoRow \/ rows'[r].end = rows[r].end
      BY <1>3, <1>5, <1>6, <1>9, <1>13, DeleteStands
    <2>2. ~OwnRecord(log, i) /\ OnlyDeletion(log, i)
      BY <1>0, <1>5, <1>13, DeletionsKept
    <2> QED
      BY <1>11, <1>13, <2>1, <2>2
  <1> QED
    BY <1>11, <1>12, <1>13

\* The transaction of the session that acts.
LEMMA LiveActor ==
  ASSUME RecoveryTypeOK, RecoveryTypeOK', LogOrdered(log), LogOrdered(log'), SessionsOK,
         NEW s \in Sessions, Serve(s), ~SlotReused(log, Len(log)), LiveRows, Live(s)',
         NEW i \in 1 .. Len(log'), log'[i].trx = trx_id'[s], IsData(log'[i])
  PROVE  LiveRow(s, i)'
  <1>0. /\ Len(log) \in Nat /\ Len(log') \in Nat /\ Len(log) <= Len(log') /\ Extends(log, log')
        /\ DOMAIN log = 1 .. Len(log) /\ DOMAIN log' = 1 .. Len(log') /\ Agree(log, log', Len(log))
        /\ log \in Seq(LogRecord) /\ 1 .. Len(log) \subseteq DOMAIN log
    BY ServeGrows, GrowsExtends DEF Extends, RecoveryTypeOK
  <1>1. SessionOK(s) /\ trx_id'[s] /= NoTrxId
    BY <1>0 DEF SessionsOK, LogOrdered, RecordOK
  <1>2. i \in 1 .. Len(log) \/ i \in Len(log) + 1 .. Len(log')
    BY <1>0
  <1>3. i \in 1 .. Len(log) => log'[i] = log[i] /\ i \in DOMAIN log
    BY <1>0 DEF Agree
  <1>4. CASE Starts(s)
    <2>1. i \in DOMAIN log /\ log[i].trx = current_trx_id + 1 /\ current_trx_id \in Nat
      BY <1>2, <1>3, <1>4 DEF Starts, RecoveryTypeOK, TypeOK
    <2> QED
      BY <2>1 DEF SessionsOK
  <1>5. CASE GoesOn(s)
    <2>1. started[s] /\ trx_id'[s] = trx_id[s] /\ phase[s] \notin Ending /\ phase'[s] /= "commit" /\ Live(s)
      BY <1>5 DEF GoesOn, Live
    <2>2. log'[i].type = "INSERT" => rows'[log'[i].rid] /= NoRow /\ rows'[log'[i].rid].key = log'[i].key
      <3> SUFFICES ASSUME NEW r, r = log'[i].rid, log'[i].type = "INSERT"
                   PROVE  rows'[r] /= NoRow /\ rows'[r].key = log'[i].key
        OBVIOUS
      <3>1. CASE i \in Len(log) + 1 .. Len(log')
        BY <3>1, ServeRecords DEF Logged
      <3>2. CASE i \in 1 .. Len(log)
        <4>0. LiveRow(s, i) /\ log[i].type = "INSERT" /\ r = log[i].rid
          BY <1>3, <2>1, <3>2 DEF LiveRows
        <4>1. rows[r] /= NoRow /\ rows[r].key = log'[i].key
          BY <1>3, <3>2, <4>0 DEF LiveRow
        <4>2. log'[i] \in LogRecord
          BY <1>0, ElementOfSeq DEF Extends
        <4>3. r \in Rids /\ rows[r] \in Row
          BY <4>1, <4>2, RecordFields, RowFields
        <4>4. rows'[r] = rows[r] \/ rows'[r] = [rows[r] EXCEPT !.end = -trx_id[s]]
          BY <2>1, <4>1, <4>3, ServeRows DEF Inserted, Marked, Stamped, Released, Ending
        <4>5. -trx_id[s] \in Int
          BY SessionIds
        <4> QED
          BY <4>1, <4>3, <4>4, <4>5, SetEnd
      <3> QED
        BY <1>2, <3>1, <3>2
    <2> QED
      BY <2>1, <2>2 DEF LiveRow
  <1>6. CASE StartsCommit(s)
    <2>1. /\ phase[s] \notin Ending /\ todo'[s] = operations[s] /\ trx_id'[s] = trx_id[s]
          /\ log' = log /\ rows' = rows
      BY <1>6 DEF StartsCommit
    <2>2. started[s]
      <3> SUFFICES ASSUME ~started[s] PROVE FALSE
        OBVIOUS
      <3>1. Ended(log, trx_id[s], Len(log))
        BY <1>1, <2>1 DEF SessionOK
      <3>2. started'[s] => ~Ended(log, trx_id[s], Len(log))
        <4>1. SessionsOK'
          BY ServeSessions
        <4> QED
          BY <2>1, <4>1 DEF SessionsOK, SessionOK
      <3> QED
        BY <2>1, <3>1, <3>2 DEF Live
    <2>3. Live(s) /\ ~Ended(log, trx_id[s], Len(log)) /\ OpsMatch(operations[s], log, trx_id[s], Len(log))
      BY <1>1, <2>2 DEF Live, SessionOK
    <2>4. log[i].type = "INSERT" => rows[log[i].rid] /= NoRow /\ rows[log[i].rid].key = log[i].key
      <3>1. LiveRow(s, i)
        BY <1>0, <2>1, <2>3 DEF LiveRows
      <3> QED
        BY <3>1 DEF LiveRow
    <2>5. log[i].type = "INSERT" => [type |-> log[i].type, rid |-> log[i].rid] \in operations[s]
      BY <1>0, <2>1, <2>3, InsertInOps
    <2>6. log[i].type = "DELETE" /\ ~OwnRecord(log, i) /\ OnlyDeletion(log, i) =>
            [type |-> log[i].type, rid |-> log[i].rid] \in operations[s]
      BY <1>0, <2>1, <2>3, DeleteInOps
    <2> QED
      BY <2>1, <2>4, <2>5, <2>6 DEF LiveRow
  <1>7. ASSUME NEW op \in Operation, CommitOperation(s, op), log' = log PROVE LiveRow(s, i)'
    <2>1. /\ phase[s] = "commit" /\ op \in todo[s] /\ trx_id' = trx_id /\ commit_xid' = commit_xid
          /\ phase' = phase /\ started' = started /\ todo'[s] = todo[s] \ {op}
          /\ op = [type |-> op.type, rid |-> op.rid] /\ op.rid \in Rids /\ op.type \in {"INSERT", "DELETE"}
      BY <1>7 DEF CommitOperation, RecoveryTypeOK, TypeOK, Operation
    <2>2. Live(s) /\ i \in DOMAIN log /\ log[i].trx = trx_id[s] /\ log[i] \in LogRecord
      BY <1>0, <1>7, <2>1, ElementOfSeq DEF Live
    <2>3. LiveRow(s, i)
      BY <2>2 DEF LiveRows
    <2> SUFFICES ASSUME NEW r, r = log[i].rid,
                        NEW old \in BOOLEAN, old = ([type |-> log[i].type, rid |-> r] \notin todo[s]),
                        NEW new \in BOOLEAN, new = ([type |-> log[i].type, rid |-> r] \notin todo'[s])
                 PROVE  /\ log[i].type = "INSERT" =>
                             /\ rows'[r] /= NoRow /\ rows'[r].key = log[i].key
                             /\ new => rows'[r].begin = commit_xid[s]
                        /\ log[i].type = "DELETE" /\ ~OwnRecord(log, i) /\ OnlyDeletion(log, i) =>
                             rows'[r] = NoRow \/ (new => rows'[r].end = commit_xid[s])
      BY <1>7, <2>1 DEF LiveRow
    <2>4. /\ log[i].type = "INSERT" =>
               /\ rows[r] /= NoRow /\ rows[r].key = log[i].key
               /\ old => rows[r].begin = commit_xid[s]
          /\ log[i].type = "DELETE" /\ ~OwnRecord(log, i) /\ OnlyDeletion(log, i) =>
               rows[r] = NoRow \/ (old => rows[r].end = commit_xid[s])
      BY <2>1, <2>3 DEF LiveRow
    <2>5. new => old \/ (op.type = log[i].type /\ op.rid = r)
      BY <2>1
    <2>6. r \in Rids /\ commit_xid[s] \in Int /\ (rows[r] /= NoRow => rows[r] \in Row)
      <3>1. IsData(log[i]) /\ commit_xid[s] \in Int
        BY <1>7, SessionIds
      <3>2. r \in Rids
        BY <2>2, <3>1, RecordFields DEF IsData
      <3> QED
        BY <3>1, <3>2, RowFields
    <2>7. CASE op.rid = r /\ rows[r] /= NoRow
      <3>1. rows'[r] = IF op.type = "INSERT" THEN [rows[r] EXCEPT !.begin = commit_xid[s]]
                       ELSE [rows[r] EXCEPT !.end = commit_xid[s]]
        BY <1>7, <2>6, <2>7 DEF CommitOperation, RecoveryTypeOK, TypeOK
      <3>2. CASE op.type = "INSERT"
        <4>1. /\ rows'[r] /= NoRow /\ rows'[r].key = rows[r].key /\ rows'[r].end = rows[r].end
              /\ rows'[r].begin = commit_xid[s]
          BY <2>6, <2>7, <3>1, <3>2, SetBegin
        <4> QED
          BY <2>4, <2>5, <2>7, <3>2, <4>1
      <3>3. CASE op.type = "DELETE"
        <4>1. /\ rows'[r] /= NoRow /\ rows'[r].key = rows[r].key /\ rows'[r].begin = rows[r].begin
              /\ rows'[r].end = commit_xid[s]
          BY <2>6, <2>7, <3>1, <3>3, SetEnd
        <4> QED
          BY <2>4, <2>5, <2>7, <3>3, <4>1
      <3> QED
        BY <2>1, <3>2, <3>3
    <2>8. CASE op.rid /= r \/ rows[r] = NoRow
      <3>1. rows'[r] = rows[r]
        BY <1>7, <2>1, <2>6, <2>8 DEF CommitOperation, RecoveryTypeOK, TypeOK
      <3> QED
        BY <2>4, <2>5, <2>8, <3>1
    <2> QED
      BY <2>7, <2>8
  <1>8. started'[s] \/ phase'[s] = "commit"
    BY DEF Live
  <1> QED
    BY <1>4, <1>5, <1>6, <1>7, <1>8, ServeActor

\* The rows of the running transactions.
LEMMA ServeLive ==
  ASSUME RecoveryTypeOK, RecoveryTypeOK', LogOrdered(log), LogOrdered(log'), SessionsOK, SessionsOK',
         NEW s \in Sessions, Serve(s), ~Unique, IndexEntriesLive,
         ~SlotReused(log, Len(log)), ~SlotReused(log', Len(log')), LiveRows
  PROVE  LiveRows'
  <1>1. DOMAIN log' = 1 .. Len(log')
    BY LenProperties DEF RecoveryTypeOK
  <1> SUFFICES ASSUME NEW t \in Sessions, Live(t)', NEW i \in 1 .. Len(log'), log'[i].trx = trx_id'[t],
                      IsData(log'[i])
               PROVE  LiveRow(t, i)'
    BY <1>1 DEF LiveRows, LiveRow, IsData
  <1> QED
    BY LiveOther, LiveActor

\* A request of a client keeps the invariant.
LEMMA ServeStep ==
  ASSUME RecoveryTypeOK, RecoveryTypeOK', LogOrdered(log), mode = "up", UpInv, UpIndex, UpHeld, DeletesHeld,
         NEW s \in Sessions, Serve(s)
  PROVE  /\ LogOrdered(log') /\ mode' = "up" /\ UpInv' /\ UpIndex' /\ RedoInv' /\ RedoRows' /\ RefusedLogs'
         /\ DeletesHeld' /\ UpHeld' /\ RedoAsserts'
         /\ RecoveredTableClean => RecoveredTableClean'
         /\ ~Unique /\ UpMarks => UpMarks'
         /\ ~Unique /\ UpRows /\ TableMatchesLog => UpRows' /\ TableMatchesLog'
  <1>1. /\ LogOrdered(log') /\ UpInv' /\ mode' = "up" /\ SessionsOK /\ SessionsOK' /\ MarksDrawn
    BY ServeUp
  <1>2. /\ UpIndex' /\ crashes' = crashes
        /\ ~SlotReused(log', Len(log')) => ~SlotReused(log, Len(log))
    BY ServeIndex
  <1>3. RedoInv' /\ RedoRows' /\ RefusedLogs' /\ RedoAsserts'
    BY <1>1 DEF RedoInv, RedoRows, RefusedLogs, RedoAsserts
  <1>7. DeletesHeld' /\ UpHeld'
    BY <1>1, ServeDeletes, ServeHeld
  <1>4. RecoveredTableClean => RecoveredTableClean'
    BY ServeClean
  <1>5. ASSUME ~Unique, UpMarks PROVE UpMarks'
    <2> SUFFICES ASSUME crashes = 0 \/ ~SlotReused(log', Len(log')) PROVE IdsNotReused'
      BY <1>2 DEF UpMarks
    <2>1. IndexEntriesLive /\ IdsNotReused
      BY <1>2, <1>5 DEF UpIndex, UpMarks
    <2> QED
      BY <1>5, <2>1, ServeOwnMarks
  <1>6. ASSUME ~Unique, UpRows, TableMatchesLog PROVE UpRows' /\ TableMatchesLog'
    <2> SUFFICES ASSUME ~SlotReused(log', Len(log')) PROVE LiveRows' /\ CommittedRows(Len(log))'
      BY DEF UpRows, TableMatchesLog
    <2>1. /\ IndexEntriesLive /\ LiveRows /\ CommittedRows(Len(log)) /\ ~SlotReused(log, Len(log))
      BY <1>2, <1>6 DEF UpIndex, UpRows, TableMatchesLog
    <2>2. LiveRows'
      BY <1>1, <1>6, <2>1, ServeLive
    <2>3. CommittedRows(Len(log))'
      BY <1>1, <1>6, <2>1, ServeCommitted
    <2> QED
      BY <2>2, <2>3
  <1> QED
    BY <1>1, <1>2, <1>3, <1>4, <1>5, <1>6, <1>7

-----------------------------------------------------------------------------
(* The theorems.                                                           *)

\* Every step of the server, of a crash and of recover() keeps the invariant.
LEMMA AnyIndexStep ==
  AnyIndex /\ [RecoveryNext]_recoveryVars => AnyIndex' /\ (~Unique /\ PlainIndex => PlainIndex')
  <1> SUFFICES ASSUME AnyIndex, [RecoveryNext]_recoveryVars
               PROVE  AnyIndex' /\ (~Unique /\ PlainIndex => PlainIndex')
    OBVIOUS
  <1>0. RecoveryTypeOK /\ LogOrdered(log) /\ RecoveryTypeOK'
    BY RecoveryTypeStep DEF AnyIndex
  <1>1. ASSUME mode = "up", NEW s \in Sessions, Serve(s)
        PROVE  AnyIndex' /\ (~Unique /\ PlainIndex => PlainIndex')
    BY <1>0, <1>1, ServeStep DEF AnyIndex, PlainIndex
  <1>2. CASE Crash
    <2>1. /\ LogOrdered(log') /\ RedoInv' /\ RedoRows' /\ RefusedLogs' /\ mode' = "redo"
          /\ DeletesHeld' /\ RedoAsserts'
      BY <1>0, <1>2, CrashStep DEF AnyIndex
    <2>2. UpInv' /\ UpIndex' /\ UpMarks' /\ UpRows' /\ TableMatchesLog' /\ RecoveredTableClean' /\ UpHeld'
      BY <2>1 DEF UpInv, UpIndex, UpMarks, UpRows, TableMatchesLog, RecoveredTableClean, UpHeld
    <2> QED
      BY <1>0, <2>1, <2>2 DEF AnyIndex, PlainIndex
  <1>3. CASE Recovers
    BY <1>0, <1>3, RecoversStep DEF AnyIndex, PlainIndex
  <1>4. CASE UNCHANGED recoveryVars
    <2>1. /\ current_trx_id' = current_trx_id /\ rows' = rows /\ index' = index /\ trx_id' = trx_id
          /\ started' = started /\ operations' = operations /\ commit_xid' = commit_xid /\ todo' = todo
          /\ phase' = phase /\ log' = log /\ mode' = mode /\ pos' = pos /\ trxes' = trxes
          /\ torn' = torn /\ crashes' = crashes
      BY <1>4 DEF recoveryVars, vars, kitVars, trxVars, tableVars, logVars, redoVars
    <2>2. (\A s \in Sessions : SessionOK(s)) => (\A s \in Sessions : SessionOK(s))'
      BY <2>1 DEF SessionOK
    <2>3. UpInv => UpInv'
      BY <2>1, <2>2 DEF UpInv, SessionsOK, MarksDrawn, QuietAfterRestart
    <2>4. UpIndex => UpIndex'
      BY <2>1 DEF UpIndex, IndexEntriesLive
    <2>5. UpMarks => UpMarks'
      BY <2>1 DEF UpMarks, IdsNotReused, Marks, Pending
    <2>6. UpRows => UpRows'
      BY <2>1 DEF UpRows, LiveRows, Live, LiveRow
    <2>7. RedoInv => RedoInv'
      BY <2>1 DEF RedoInv, SessionsGone, MarksDrawn, RedoTrxes, RedoEnds, OwnDeletion
    <2>8. RedoRows => RedoRows'
      BY <2>1 DEF RedoRows, RedoTable, Holds, Kept, CommittedRows
    <2>9. /\ LogOrdered(log) => LogOrdered(log)' 
          /\ RefusedLogs => RefusedLogs' 
          /\ TableMatchesLog => TableMatchesLog'
          /\ RecoveredTableClean => RecoveredTableClean'
      BY <2>1 DEF RefusedLogs, Record, Reached, TableMatchesLog, CommittedRows, RecoveredTableClean
    <2>10. (DeletesHeld => DeletesHeld') /\ (UpHeld => UpHeld')
      BY <2>1 DEF DeletesHeld, UpHeld, HeldRow, InsertOf, Safe
    <2>11. RedoAsserts => RedoAsserts'
      BY <2>1 DEF RedoAsserts, RedoDeletes, RedoBegins, RedoMarks, Standing, DeleteOf, DeleteOp, InsertOf
    <2> QED
      BY <1>0, <2>3, <2>4, <2>5, <2>6, <2>7, <2>8, <2>9, <2>10, <2>11 DEF AnyIndex, PlainIndex
  <1> QED
    BY <1>1, <1>2, <1>3, <1>4 DEF RecoveryNext, Recovers

\* The parts of RecoveryExact are parts of the invariant.
LEMMA InvariantExact == AnyIndex /\ PlainIndex => RecoveryExact
  BY DEF AnyIndex, PlainIndex, UpIndex, UpMarks, RecoveryExact

\* The variables of the transactions, of the log and of recover() keep their
\* types, for any number of sessions, slots, keys, crashes and log records.
THEOREM RecoveryTypeCorrect == RecoverySpec => []RecoveryTypeOK
  <1>1. RecoveryInit => AnyIndex
    BY InitOK DEF AnyIndex
  <1>2. AnyIndex /\ [RecoveryNext]_recoveryVars => AnyIndex'
    BY AnyIndexStep
  <1>3. AnyIndex => RecoveryTypeOK
    BY DEF AnyIndex
  <1> QED
    BY <1>1, <1>2, <1>3, PTL DEF RecoverySpec

\* CLogManager::recover refuses a log, or stops at an ASSERT of MvccTrx::redo,
\* commit_with_trx_id or rollback, only for the six reasons of RefusedLogs, with
\* an index that is unique or not.
THEOREM RefusalsExplained == RecoverySpec => []RefusedLogs
  <1>1. RecoveryInit => AnyIndex
    BY InitOK DEF AnyIndex
  <1>2. AnyIndex /\ [RecoveryNext]_recoveryVars => AnyIndex'
    BY AnyIndexStep
  <1>3. AnyIndex => RefusedLogs
    BY DEF AnyIndex
  <1> QED
    BY <1>1, <1>2, <1>3, PTL DEF RecoverySpec

\* With an index that is unique or not, what a restart leaves is free of marks of
\* unfinished transactions, and the index it serves from has no entry without
\* its record.
THEOREM RestartLeavesNoTrace == RecoverySpec => [](RecoveredTableClean /\ UpIndex)
  <1>1. RecoveryInit => AnyIndex
    BY InitOK DEF AnyIndex
  <1>2. AnyIndex /\ [RecoveryNext]_recoveryVars => AnyIndex'
    BY AnyIndexStep
  <1>3. AnyIndex => RecoveredTableClean /\ UpIndex
    BY DEF AnyIndex
  <1> QED
    BY <1>1, <1>2, <1>3, PTL DEF RecoverySpec

\* Without a unique index, CLogManager::recover and MvccTrx::redo bring back exactly
\* what the log says is committed, after any number of crashes at any point of
\* any interleaving, and the table the sessions work on always matches the log.
THEOREM RecoveryIsExact == ~Unique => (RecoverySpec => []RecoveryExact)
  <1> SUFFICES ASSUME ~Unique PROVE RecoverySpec => []RecoveryExact
    OBVIOUS
  <1>1. RecoveryInit => AnyIndex /\ PlainIndex
    BY InitOK DEF AnyIndex, PlainIndex
  <1>2. AnyIndex /\ PlainIndex /\ [RecoveryNext]_recoveryVars => AnyIndex' /\ PlainIndex'
    BY AnyIndexStep
  <1>3. AnyIndex /\ PlainIndex => RecoveryExact
    BY InvariantExact
  <1> QED
    BY <1>1, <1>2, <1>3, PTL DEF RecoverySpec

=============================================================================
