------------------------- MODULE MvccTrxInvariance -------------------------
(***************************************************************************)
(* The inductive invariant of MvccTrx and what follows from it, for every  *)
(* number of sessions, records and keys and every workload.                *)
(*                                                                         *)
(* The properties are not inductive by themselves.  That a commit finds    *)
(* its mark needs that nobody else writes a marked record; that needs that *)
(* ids of transactions are distinct and positive (TrxIds) and that a row   *)
(* somebody answers for is never one that visit_record accepts; for a row  *)
(* the transaction inserted itself it needs that the set already holds the *)
(* insertion (InsertsKnown) and holds nothing else on that record          *)
(* (OnePerRecord).  XidOrder needs that a deletion's commit id is later    *)
(* than the insertion's, hence DeletesVisible and the bounds on commit_xid *)
(* in Phases.                                                              *)
(***************************************************************************)
EXTENDS MvccTrxProofs

Ending == {"commit", "rollback"}

\* Ids of transactions are drawn from the counter and belong to one session.
TrxIds ==
  /\ current_trx_id < MaxTrxId
  /\ \A s \in Sessions :
       /\ trx_id[s] = NoTrxId \/ trx_id[s] \in 1 .. current_trx_id
       /\ started[s] => trx_id[s] \in 1 .. current_trx_id
       /\ \A t \in Sessions : s /= t /\ trx_id[s] = trx_id[t] => trx_id[s] = NoTrxId

\* What the phase of a session says about its transaction.
Phases ==
  \A s \in Sessions :
    /\ phase[s] \in {"stmt", "close"} => started[s]
    /\ phase[s] \in Ending => ~started[s]
    /\ phase[s] \notin Ending => todo[s] = {}
    /\ todo[s] \subseteq operations[s]
    /\ operations[s] /= {} => /\ trx_id[s] \in 1 .. current_trx_id
                              /\ started[s] \/ phase[s] \in Ending
    /\ phase[s] = "commit" => commit_xid[s] \in trx_id[s] + 1 .. current_trx_id
                              /\ commit_xid[s] > 0

\* The operation set holds one operation per record.
OnePerRecord ==
  \A s \in Sessions : \A op, oq \in operations[s] : op.rid = oq.rid => op = oq

\* A transaction deletes only records whose insertion it may see.
DeletesVisible ==
  \A s \in Sessions : \A op \in Pending(s) :
    op.type = "DELETE" => rows[op.rid].begin <= trx_id[s]

\* An uncommitted insertion can be deleted by its own transaction only.
UncommittedRows ==
  \A r \in Rids : rows[r] /= NoRow /\ rows[r].begin < 0
    => rows[r].end = MaxTrxId \/ rows[r].end = rows[r].begin

\* A running transaction's insertions are in its operation set.
InsertsKnown ==
  \A s \in Sessions, r \in Rids :
    started[s] /\ rows[r] /= NoRow /\ rows[r].begin = -trx_id[s]
      => [type |-> "INSERT", rid |-> r] \in operations[s]

IInv ==
  /\ TypeOK /\ TrxIds /\ Phases /\ OnePerRecord
  /\ OperationOwnsMark /\ WriteExclusion /\ DeletesVisible
  /\ UncommittedRows /\ InsertsKnown /\ XidOrder

-----------------------------------------------------------------------------
(* Facts about operation sets and records.                                 *)

\* What the invariant says about a session whose worker is not ending its
\* transaction: it answers for its whole operation set.
LEMMA PendingFacts ==
  ASSUME IInv, NEW t \in Sessions
  PROVE  /\ Pending(t) \subseteq operations[t]
         /\ Pending(t) \subseteq Operation
         /\ phase[t] \notin Ending => Pending(t) = operations[t]
         /\ phase[t] \in Ending => Pending(t) = todo[t]
         /\ Pending(t) /= {} => trx_id[t] \in 1 .. current_trx_id
  BY DEF IInv, Phases, Pending, Ending, TypeOK

\* A record whose two columns are commit ids is in nobody's operation set.
LEMMA CommittedIsFree ==
  ASSUME IInv, NEW r \in Rids, rows[r] /= NoRow, rows[r].begin > 0, rows[r].end > 0
  PROVE  \A t \in Sessions : \A op \in Pending(t) : op.rid /= r
  <1> SUFFICES ASSUME NEW t \in Sessions, NEW op \in Pending(t), op.rid = r PROVE FALSE
    OBVIOUS
  <1>1. trx_id[t] \in 1 .. current_trx_id /\ current_trx_id \in Nat
    BY PendingFacts DEF IInv, TypeOK
  <1>2. op.type = "INSERT" \/ op.type = "DELETE"
    BY PendingFacts DEF Operation
  <1>3. rows[r].begin = -trx_id[t] \/ rows[r].end = -trx_id[t]
    BY <1>2 DEF IInv, OperationOwnsMark
  <1> QED
    BY <1>1, <1>3

\* A slot that holds no record is in nobody's operation set.
LEMMA UnusedIsFree ==
  ASSUME IInv, NEW r \in Rids, rows[r] = NoRow
  PROVE  \A t \in Sessions : \A op \in Pending(t) : op.rid /= r
  BY DEF IInv, OperationOwnsMark

\* The records of the other operations: nobody else answers for the record of
\* an operation, and its own transaction has no second operation on it.
LEMMA OthersElsewhere ==
  ASSUME IInv, NEW s \in Sessions, NEW op \in Pending(s)
  PROVE  /\ \A t \in Sessions \ {s} : \A oq \in Pending(t) : oq.rid /= op.rid
         /\ \A oq \in Pending(s) \ {op} : oq.rid /= op.rid
  BY PendingFacts DEF IInv, WriteExclusion, OnePerRecord

\* A step that leaves the table alone and lets no transaction answer for more
\* than before keeps the part of the invariant that is about records.
LEMMA TableUnchanged ==
  ASSUME IInv, TypeOK', rows' = rows, current_trx_id <= current_trx_id',
         \A t \in Sessions : \/ Pending(t)' = {}
                             \/ Pending(t)' = Pending(t) /\ trx_id'[t] = trx_id[t]
  PROVE  (OperationOwnsMark /\ WriteExclusion /\ DeletesVisible /\ UncommittedRows /\ XidOrder)'
  <1>1. OperationOwnsMark' /\ DeletesVisible'
    BY DEF IInv, OperationOwnsMark, DeletesVisible
  <1>2. WriteExclusion'
    BY DEF IInv, WriteExclusion
  <1>3. UncommittedRows'
    BY DEF IInv, UncommittedRows
  <1>4. XidOrder'
    <2> SUFFICES ASSUME NEW r \in Rids, rows[r] /= NoRow
                 PROVE LET b == rows[r].begin
                           e == rows[r].end
                       IN  /\ b /= 0 /\ b <= current_trx_id' /\ -b <= current_trx_id'
                           /\ e /= 0 /\ (e = MaxTrxId \/ e <= current_trx_id') /\ -e <= current_trx_id'
                           /\ b > 0 /\ e > 0 => b < e
      BY DEF XidOrder
    <2>1. rows[r].begin \in Int /\ rows[r].end \in Int /\ current_trx_id \in Nat /\ current_trx_id' \in Nat
      BY DEF IInv, TypeOK, Row
    <2> QED
      BY <2>1, ConstantsAssumption DEF IInv, XidOrder
  <1> QED
    BY <1>1, <1>2, <1>3, <1>4

\* A new database satisfies the invariant.
LEMMA InvInit == Init => IInv
  <1> SUFFICES ASSUME Init PROVE IInv
    OBVIOUS
  <1>1. TypeOK
    BY TypeInit
  <1>2. TrxIds
    BY ConstantsAssumption DEF Init, TrxIds, NoTrxId
  <1>3. Phases /\ OnePerRecord
    BY DEF Init, Phases, OnePerRecord, Ending
  <1>4. OperationOwnsMark /\ WriteExclusion /\ DeletesVisible
    BY DEF Init, OperationOwnsMark, WriteExclusion, DeletesVisible, Pending
  <1>5. UncommittedRows /\ InsertsKnown /\ XidOrder
    BY DEF Init, UncommittedRows, InsertsKnown, XidOrder
  <1> QED
    BY <1>1, <1>2, <1>3, <1>4, <1>5 DEF IInv

\* start_if_need for a session whose worker is idle: the new id is larger than
\* every id in use, and the session had nothing to answer for.
LEMMA StartIfNeedStep ==
  ASSUME IInv, TypeOK', NEW s \in Sessions, phase[s] = "idle", StartIfNeed(s),
         UNCHANGED <<rows, operations, todo, commit_xid>>,
         NEW label \in {"idle", "stmt"}, phase' = [phase EXCEPT ![s] = label]
  PROVE  IInv'
  <1>1. /\ current_trx_id \in Nat /\ current_trx_id' \in Nat
        /\ current_trx_id <= current_trx_id' /\ current_trx_id' < MaxTrxId
    <2>1. CASE started[s]
      BY <2>1 DEF StartIfNeed, IInv, TypeOK, TrxIds
    <2>2. CASE ~started[s]
      BY <2>2 DEF StartIfNeed, IInv, TypeOK, TrxIds
    <2> QED
      BY <2>1, <2>2
  <1>2. /\ \A t \in Sessions \ {s} : trx_id'[t] = trx_id[t] /\ started'[t] = started[t]
        /\ started'[s]
        /\ started[s] => trx_id'[s] = trx_id[s] /\ current_trx_id' = current_trx_id
        /\ ~started[s] => /\ trx_id'[s] = current_trx_id + 1 /\ current_trx_id' = current_trx_id + 1
                          /\ operations[s] = {}
    <2>1. CASE started[s]
      BY <2>1 DEF StartIfNeed
    <2>2. CASE ~started[s]
      <3>1. operations[s] = {}
        BY <2>2 DEF IInv, Phases, Ending
      <3>2. started' = [started EXCEPT ![s] = TRUE]
        BY <2>2 DEF StartIfNeed
      <3>3. /\ trx_id' = [trx_id EXCEPT ![s] = current_trx_id + 1]
            /\ current_trx_id' = current_trx_id + 1
        BY <2>2 DEF StartIfNeed
      <3>4. \A t \in Sessions \ {s} : trx_id'[t] = trx_id[t]
        BY <3>3 DEF IInv, TypeOK
      <3>5. \A t \in Sessions \ {s} : started'[t] = started[t]
        BY <3>2 DEF IInv, TypeOK
      <3>6. started'[s]
        BY <3>2 DEF IInv, TypeOK
      <3>7. trx_id'[s] = current_trx_id + 1
        BY <3>3 DEF IInv, TypeOK
      <3> QED
        BY <2>2, <3>1, <3>3, <3>4, <3>5, <3>6, <3>7
    <2> QED
      BY <2>1, <2>2
  <1>3. \A t \in Sessions : phase'[t] \in Ending <=> phase[t] \in Ending
    BY DEF IInv, TypeOK, Ending
  <1>4. \A t \in Sessions : Pending(t)' = Pending(t)
    BY <1>3 DEF Pending, Ending
  <1>5. \A t \in Sessions : \/ Pending(t)' = {}
                            \/ Pending(t)' = Pending(t) /\ trx_id'[t] = trx_id[t]
    <2>1. ~started[s] => Pending(s) = {}
      BY <1>2, PendingFacts
    <2> QED
      BY <1>2, <1>4, <2>1
  <1>6. (OperationOwnsMark /\ WriteExclusion /\ DeletesVisible /\ UncommittedRows /\ XidOrder)'
    BY <1>1, <1>5, TableUnchanged
  <1>7. \A t \in Sessions : /\ trx_id'[t] = NoTrxId \/ trx_id'[t] \in 1 .. current_trx_id'
                            /\ started'[t] => trx_id'[t] \in 1 .. current_trx_id'
    <2>1. \A t \in Sessions : /\ trx_id[t] = NoTrxId \/ trx_id[t] \in 1 .. current_trx_id
                              /\ started[t] => trx_id[t] \in 1 .. current_trx_id
      BY DEF IInv, TrxIds
    <2>2. \A t \in Sessions \ {s} : /\ trx_id'[t] = NoTrxId \/ trx_id'[t] \in 1 .. current_trx_id'
                                    /\ started[t] => trx_id'[t] \in 1 .. current_trx_id'
      BY <1>1, <1>2, <2>1
    <2>3. trx_id'[s] \in 1 .. current_trx_id'
      <3>1. CASE started[s]
        BY <1>1, <1>2, <2>1, <3>1
      <3>2. CASE ~started[s]
        BY <1>1, <1>2, <3>2
      <3> QED
        BY <3>1, <3>2
    <2> QED
      BY <1>2, <2>2, <2>3
  <1>8. \A t, u \in Sessions : t /= u /\ trx_id'[t] = trx_id'[u] => trx_id'[t] = NoTrxId
    <2>1. CASE started[s]
      BY <1>2, <2>1 DEF IInv, TrxIds
    <2>2. CASE ~started[s]
      <3>1. \A t \in Sessions \ {s} : trx_id'[t] /= trx_id'[s]
        BY <1>1, <1>2, <2>2 DEF IInv, TrxIds, NoTrxId
      <3> QED
        BY <1>2, <3>1 DEF IInv, TrxIds
    <2> QED
      BY <2>1, <2>2
  <1>9. TrxIds'
    BY <1>1, <1>7, <1>8 DEF TrxIds
  <1>10. Phases'
    <2> SUFFICES ASSUME NEW t \in Sessions
                 PROVE  /\ phase'[t] \in {"stmt", "close"} => started'[t]
                        /\ phase'[t] \in Ending => ~started'[t]
                        /\ phase'[t] \notin Ending => todo[t] = {}
                        /\ todo[t] \subseteq operations[t]
                        /\ operations[t] /= {} => /\ trx_id'[t] \in 1 .. current_trx_id'
                                                  /\ started'[t] \/ phase'[t] \in Ending
                        /\ phase'[t] = "commit" => commit_xid[t] \in trx_id'[t] + 1 .. current_trx_id'
                                                   /\ commit_xid[t] > 0
      BY DEF Phases
    <2>1. /\ phase[t] \in {"stmt", "close"} => started[t]
          /\ phase[t] \in Ending => ~started[t]
          /\ phase[t] \notin Ending => todo[t] = {}
          /\ todo[t] \subseteq operations[t]
          /\ operations[t] /= {} => /\ trx_id[t] \in 1 .. current_trx_id
                                    /\ started[t] \/ phase[t] \in Ending
          /\ phase[t] = "commit" => commit_xid[t] \in trx_id[t] + 1 .. current_trx_id
                                    /\ commit_xid[t] > 0
      BY DEF IInv, Phases
    <2>2. CASE t = s
      <3>1. phase'[t] \in {"idle", "stmt"} /\ phase[t] = "idle"
        BY <2>2 DEF IInv, TypeOK
      <3>2. started'[t] /\ trx_id'[t] \in 1 .. current_trx_id'
        BY <1>2, <1>7, <2>2
      <3> QED
        BY <2>1, <3>1, <3>2 DEF Ending
    <2>3. CASE t /= s
      <3>1. phase'[t] = phase[t] /\ trx_id'[t] = trx_id[t] /\ started'[t] = started[t]
        BY <1>2, <2>3 DEF IInv, TypeOK
      <3>2. operations[t] /= {} => trx_id'[t] \in 1 .. current_trx_id'
        BY <1>1, <2>1, <3>1
      <3>3. phase'[t] = "commit" => commit_xid[t] \in trx_id'[t] + 1 .. current_trx_id'
                                    /\ commit_xid[t] > 0
        BY <1>1, <2>1, <3>1 DEF IInv, TypeOK
      <3> QED
        BY <2>1, <3>1, <3>2, <3>3
    <2> QED
      BY <2>2, <2>3
  <1>11. OnePerRecord'
    BY DEF IInv, OnePerRecord
  <1>12. InsertsKnown'
    <2> SUFFICES ASSUME NEW t \in Sessions, NEW r \in Rids, started'[t], rows[r] /= NoRow,
                        rows[r].begin = -trx_id'[t]
                 PROVE  [type |-> "INSERT", rid |-> r] \in operations[t]
      BY DEF InsertsKnown
    <2>1. CASE t = s /\ ~started[s]
      <3>1. -rows[r].begin <= current_trx_id /\ rows[r].begin \in Int
        BY DEF IInv, XidOrder, TypeOK, Row
      <3>2. rows[r].begin = -(current_trx_id + 1)
        BY <1>2, <2>1
      <3> QED
        BY <1>1, <3>1, <3>2
    <2>2. CASE t /= s \/ started[s]
      BY <1>2, <2>2 DEF IInv, InsertsKnown
    <2> QED
      BY <2>1, <2>2
  <1> QED
    BY <1>6, <1>9, <1>10, <1>11, <1>12 DEF IInv

\* A step that moves only the worker on: the statement fails, or it is closed
\* inside a multi-statement transaction.
LEMMA WorkerStep ==
  ASSUME IInv, TypeOK', NEW s \in Sessions, phase[s] \in {"stmt", "close"},
         NEW label \in {"close", "idle"}, phase' = [phase EXCEPT ![s] = label],
         UNCHANGED <<current_trx_id, rows, trx_id, started, operations, todo, commit_xid>>
  PROVE  IInv'
  <1>1. \A t \in Sessions : /\ phase'[t] \in Ending <=> phase[t] \in Ending
                            /\ t /= s => phase'[t] = phase[t]
                            /\ phase'[s] = label
    BY DEF IInv, TypeOK, Ending
  <1>2. \A t \in Sessions : Pending(t)' = Pending(t)
    BY <1>1 DEF Pending, Ending
  <1>3. (OperationOwnsMark /\ WriteExclusion /\ DeletesVisible /\ UncommittedRows /\ XidOrder)'
    <2>1. current_trx_id <= current_trx_id'
      BY DEF IInv, TypeOK
    <2> QED
      BY <1>2, <2>1, TableUnchanged
  <1>4. Phases'
    <2>1. started[s]
      BY DEF IInv, Phases
    <2> QED
      BY <1>1, <2>1 DEF IInv, Phases, Ending
  <1>5. (TrxIds /\ OnePerRecord /\ InsertsKnown)'
    BY DEF IInv, TrxIds, OnePerRecord, InsertsKnown
  <1> QED
    BY <1>3, <1>4, <1>5 DEF IInv

\* MvccTrx::commit up to its loop: the commit id is later than the id of the
\* transaction and the operation set is still answered for.
LEMMA StartCommitStep ==
  ASSUME IInv, TypeOK', NEW s \in Sessions, phase[s] \notin Ending, StartCommit(s)
  PROVE  IInv'
  <1> DEFINE n == current_trx_id + 1
  <1>1. /\ current_trx_id \in Nat /\ current_trx_id' = n /\ n < MaxTrxId
        /\ rows' = rows /\ trx_id' = trx_id /\ operations' = operations
    BY DEF StartCommit, tableVars, IInv, TypeOK
  <1>2. /\ commit_xid'[s] = n /\ phase'[s] = "commit" /\ todo'[s] = operations[s]
        /\ \A t \in Sessions \ {s} : /\ phase'[t] = phase[t] /\ todo'[t] = todo[t]
                                     /\ commit_xid'[t] = commit_xid[t]
    BY DEF StartCommit, IInv, TypeOK
  <1>3. /\ ~started'[s]
        /\ \A t \in Sessions \ {s} : started'[t] = started[t]
    BY DEF StartCommit, IInv, TypeOK
  <1>4. \A t \in Sessions : Pending(t)' = Pending(t)
    BY <1>1, <1>2 DEF Pending, Ending
  <1>5. (OperationOwnsMark /\ WriteExclusion /\ DeletesVisible /\ UncommittedRows /\ XidOrder)'
    <2>1. current_trx_id <= current_trx_id'
      BY <1>1
    <2> QED
      BY <1>1, <1>4, <2>1, TableUnchanged
  <1>6. TrxIds'
    <2>1. \A t \in Sessions : /\ trx_id[t] = NoTrxId \/ trx_id[t] \in 1 .. n
                              /\ started[t] => trx_id[t] \in 1 .. n
      <3>1. \A t \in Sessions : /\ trx_id[t] = NoTrxId \/ trx_id[t] \in 1 .. current_trx_id
                                /\ started[t] => trx_id[t] \in 1 .. current_trx_id
        BY DEF IInv, TrxIds
      <3> QED
        BY <1>1, <3>1
    <2>2. \A t, u \in Sessions : t /= u /\ trx_id[t] = trx_id[u] => trx_id[t] = NoTrxId
      BY DEF IInv, TrxIds
    <2> QED
      BY <1>1, <1>3, <2>1, <2>2 DEF TrxIds
  <1>7. Phases'
    <2> SUFFICES ASSUME NEW t \in Sessions
                 PROVE  /\ phase'[t] \in {"stmt", "close"} => started'[t]
                        /\ phase'[t] \in Ending => ~started'[t]
                        /\ phase'[t] \notin Ending => todo'[t] = {}
                        /\ todo'[t] \subseteq operations[t]
                        /\ operations[t] /= {} => /\ trx_id[t] \in 1 .. n
                                                  /\ started'[t] \/ phase'[t] \in Ending
                        /\ phase'[t] = "commit" => commit_xid'[t] \in trx_id[t] + 1 .. n
                                                   /\ commit_xid'[t] > 0
      BY <1>1 DEF Phases
    <2>1. /\ phase[t] \in {"stmt", "close"} => started[t]
          /\ phase[t] \in Ending => ~started[t]
          /\ phase[t] \notin Ending => todo[t] = {}
          /\ todo[t] \subseteq operations[t]
          /\ operations[t] /= {} => /\ trx_id[t] \in 1 .. current_trx_id
                                    /\ started[t] \/ phase[t] \in Ending
          /\ phase[t] = "commit" => commit_xid[t] \in trx_id[t] + 1 .. current_trx_id
                                    /\ commit_xid[t] > 0
      BY DEF IInv, Phases
    <2>2. operations[t] /= {} => trx_id[t] \in 1 .. n
      BY <1>1, <2>1
    <2>3. CASE t = s
      <3>1. trx_id[t] \in Int /\ trx_id[t] <= current_trx_id
        BY <1>1 DEF IInv, TypeOK, TrxIds, NoTrxId
      <3>2. commit_xid'[t] \in trx_id[t] + 1 .. n /\ commit_xid'[t] > 0
        BY <1>1, <1>2, <2>3, <3>1
      <3> QED
        BY <1>2, <1>3, <2>2, <2>3, <3>2 DEF Ending
    <2>4. CASE t /= s
      <3>1. phase[t] = "commit" => commit_xid[t] \in trx_id[t] + 1 .. n /\ commit_xid[t] > 0
        BY <1>1, <2>1 DEF IInv, TypeOK
      <3> QED
        BY <1>2, <1>3, <2>1, <2>2, <2>4, <3>1
    <2> QED
      BY <2>3, <2>4
  <1>8. (OnePerRecord /\ InsertsKnown)'
    BY <1>1, <1>3 DEF IInv, OnePerRecord, InsertsKnown
  <1> QED
    BY <1>5, <1>6, <1>7, <1>8 DEF IInv

\* A rollback starts with the whole operation set.
LEMMA StartRollbackStep ==
  ASSUME IInv, TypeOK', NEW s \in Sessions, Rollback(s)
  PROVE  IInv'
  <1>1. /\ UNCHANGED <<current_trx_id, rows, trx_id, operations, commit_xid>>
        /\ phase[s] = "idle"
    BY DEF Rollback, kitVars, tableVars
  <1>2. /\ phase'[s] = "rollback" /\ todo'[s] = operations[s]
        /\ \A t \in Sessions \ {s} : phase'[t] = phase[t] /\ todo'[t] = todo[t]
    BY DEF Rollback, IInv, TypeOK
  <1>3. ~started'[s] /\ \A t \in Sessions \ {s} : started'[t] = started[t]
    BY DEF Rollback, IInv, TypeOK
  <1>4. \A t \in Sessions : Pending(t)' = Pending(t)
    BY <1>1, <1>2 DEF Pending
  <1>5. (OperationOwnsMark /\ WriteExclusion /\ DeletesVisible /\ UncommittedRows /\ XidOrder)'
    <2>1. current_trx_id <= current_trx_id'
      BY <1>1 DEF IInv, TypeOK
    <2> QED
      BY <1>1, <1>4, <2>1, TableUnchanged
  <1>6. (TrxIds /\ OnePerRecord /\ InsertsKnown)'
    BY <1>1, <1>3 DEF IInv, TrxIds, OnePerRecord, InsertsKnown
  <1>7. Phases'
    BY <1>1, <1>2, <1>3 DEF IInv, Phases, Ending
  <1> QED
    BY <1>5, <1>6, <1>7 DEF IInv

\* The end of a commit or a rollback: nothing was left to answer for.
LEMMA FinishStep ==
  ASSUME IInv, TypeOK', NEW s \in Sessions, FinishCommit(s) \/ FinishRollback(s)
  PROVE  IInv'
  <1>1. /\ UNCHANGED <<current_trx_id, rows, trx_id, started, todo>>
        /\ phase[s] \in Ending /\ todo[s] = {}
    BY DEF FinishCommit, FinishRollback, kitVars, tableVars, Ending
  <1>2. /\ phase'[s] = "idle" /\ operations'[s] = {}
        /\ \A t \in Sessions \ {s} : /\ phase'[t] = phase[t] /\ operations'[t] = operations[t]
                                     /\ commit_xid'[t] = commit_xid[t]
    BY DEF FinishCommit, FinishRollback, IInv, TypeOK
  <1>3. ~started[s]
    BY <1>1 DEF IInv, Phases
  <1>4. \A t \in Sessions : Pending(t)' = Pending(t)
    BY <1>1, <1>2 DEF Pending, Ending
  <1>5. (OperationOwnsMark /\ WriteExclusion /\ DeletesVisible /\ UncommittedRows /\ XidOrder)'
    <2>1. current_trx_id <= current_trx_id'
      BY <1>1 DEF IInv, TypeOK
    <2> QED
      BY <1>1, <1>4, <2>1, TableUnchanged
  <1>6. (TrxIds /\ OnePerRecord /\ InsertsKnown)'
    BY <1>1, <1>2, <1>3 DEF IInv, TrxIds, OnePerRecord, InsertsKnown
  <1>7. Phases'
    BY <1>1, <1>2, <1>3 DEF IInv, Phases, Ending
  <1> QED
    BY <1>5, <1>6, <1>7 DEF IInv

\* A session that goes away answers for nothing any more.
LEMMA DisconnectStep ==
  ASSUME IInv, TypeOK', NEW s \in Sessions, Disconnect(s)
  PROVE  IInv'
  <1>1. /\ UNCHANGED <<current_trx_id, rows, todo, commit_xid, phase>>
        /\ phase[s] = "idle"
    BY DEF Disconnect, kitVars, tableVars
  <1>2. /\ trx_id'[s] = NoTrxId /\ operations'[s] = {}
        /\ \A t \in Sessions \ {s} : trx_id'[t] = trx_id[t] /\ operations'[t] = operations[t]
    BY DEF Disconnect, IInv, TypeOK
  <1>3. ~started'[s] /\ \A t \in Sessions \ {s} : started'[t] = started[t]
    BY DEF Disconnect, IInv, TypeOK
  <1>4. \A t \in Sessions : \/ Pending(t)' = {}
                            \/ Pending(t)' = Pending(t) /\ trx_id'[t] = trx_id[t]
    BY <1>1, <1>2 DEF Pending
  <1>5. (OperationOwnsMark /\ WriteExclusion /\ DeletesVisible /\ UncommittedRows /\ XidOrder)'
    <2>1. current_trx_id <= current_trx_id'
      BY <1>1 DEF IInv, TypeOK
    <2> QED
      BY <1>1, <1>4, <2>1, TableUnchanged
  <1>6. (TrxIds /\ OnePerRecord /\ InsertsKnown)'
    BY <1>1, <1>2, <1>3 DEF IInv, TrxIds, OnePerRecord, InsertsKnown
  <1>7. Phases'
    BY <1>1, <1>2, <1>3 DEF IInv, Phases, Ending
  <1> QED
    BY <1>5, <1>6, <1>7 DEF IInv

\* A record the two invariants about version columns allow.
RowOK(row) ==
  row /= NoRow =>
    LET b == row.begin
        e == row.end
    IN  /\ b /= 0 /\ b <= current_trx_id /\ -b <= current_trx_id
        /\ e /= 0 /\ (e = MaxTrxId \/ e <= current_trx_id) /\ -e <= current_trx_id
        /\ b > 0 /\ e > 0 => b < e
        /\ b < 0 => e = MaxTrxId \/ e = b

\* A record that carries the mark of operation op of transaction id.
Owned(row, id, op) ==
  /\ row /= NoRow
  /\ op.type = "INSERT" => row.begin = -id
  /\ op.type = "DELETE" => row.begin > 0 /\ row.end = -id /\ row.begin <= id

\* What a step that changes the records of R has to show: the changed records
\* are in order, whoever answers for one of them owns it, and no record is
\* taken from another transaction.
LEMMA TableChanged ==
  ASSUME IInv, TypeOK', UNCHANGED <<current_trx_id, trx_id>>,
         NEW R \in SUBSET Rids, \A q \in Rids \ R : rows'[q] = rows[q],
         \A q \in R : RowOK(rows'[q]),
         \A t \in Sessions : \A op \in Pending(t)' :
           \/ op \in Pending(t) /\ op.rid \notin R
           \/ op.rid \in Rids /\ Owned(rows'[op.rid], trx_id[t], op),
         NEW s \in Sessions, \A t \in Sessions \ {s} : Pending(t)' = Pending(t),
         \A op \in Pending(s)' \ Pending(s) : \A t \in Sessions \ {s} :
           \A oq \in Pending(t) : oq.rid /= op.rid
  PROVE  (OperationOwnsMark /\ WriteExclusion /\ DeletesVisible /\ UncommittedRows /\ XidOrder)'
  <1>1. \A t \in Sessions : \A op \in Pending(t) : op.rid \in Rids
    BY PendingFacts DEF Operation
  <1>2. \A t \in Sessions : \A op \in Pending(t) : Owned(rows[op.rid], trx_id[t], op)
    BY DEF IInv, OperationOwnsMark, DeletesVisible, Owned
  <1>3. \A t \in Sessions : \A op \in Pending(t)' : Owned(rows'[op.rid], trx_id[t], op)
    BY <1>1, <1>2
  <1>4. OperationOwnsMark' /\ DeletesVisible'
    BY <1>3 DEF OperationOwnsMark, DeletesVisible, Owned
  <1>5. WriteExclusion'
    BY DEF IInv, WriteExclusion
  <1>6. \A q \in Rids : RowOK(rows'[q])
    <2>1. \A q \in Rids : RowOK(rows[q])
      BY DEF IInv, XidOrder, UncommittedRows, RowOK
    <2> QED
      BY <2>1
  <1>7. UncommittedRows' /\ XidOrder'
    BY <1>6 DEF UncommittedRows, XidOrder, RowOK
  <1> QED
    BY <1>4, <1>5, <1>7

\* The record a statement of transaction s inserts.
LEMMA NewRowOK ==
  ASSUME IInv, NEW s \in Sessions, trx_id[s] \in 1 .. current_trx_id, NEW k \in Keys
  PROVE  LET row == [begin |-> -trx_id[s], end |-> MaxTrxId, key |-> k]
         IN  /\ row /= NoRow /\ RowOK(row)
             /\ \A r \in Rids : Owned(row, trx_id[s], [type |-> "INSERT", rid |-> r])
  <1> DEFINE row == [begin |-> -trx_id[s], end |-> MaxTrxId, key |-> k]
  <1>1. current_trx_id \in Nat /\ trx_id[s] \in Int /\ MaxTrxId \in Nat \ {0}
    BY ConstantsAssumption DEF IInv, TypeOK
  <1>2. row /= NoRow
    BY <1>1, NewRowType, NoRowAssumption
  <1>3. RowOK(row)
    BY <1>1 DEF RowOK
  <1> QED
    BY <1>2, <1>3 DEF Owned

\* An operation on a record the set does not hold yet is added to it.
LEMMA AddNew ==
  ASSUME NEW ops, NEW type, NEW r, \A op \in ops : op.rid /= r
  PROVE  AddOperation(ops, type, r) = ops \cup {[type |-> type, rid |-> r]}
  BY DEF AddOperation

\* An insertion takes a free slot, which no transaction answers for, and the set
\* gains the operation; a duplicate key changes nothing but the worker.
LEMMA InsertStep ==
  ASSUME IInv, TypeOK', NEW s \in Sessions, NEW r \in Rids, NEW k \in Keys, InsertRecord(s, r, k)
  PROVE  IInv'
  <1> DEFINE row == [begin |-> -trx_id[s], end |-> MaxTrxId, key |-> k]
             new == [type |-> "INSERT", rid |-> r]
  <1>1. CASE DuplicateKey(index, k, r)
    <2>1. /\ phase[s] \in {"stmt", "close"} /\ phase' = [phase EXCEPT ![s] = "close"]
          /\ UNCHANGED <<current_trx_id, rows, trx_id, started, operations, todo, commit_xid>>
      BY <1>1 DEF InsertRecord, kitVars, tableVars
    <2> QED
      BY <2>1, WorkerStep
  <1>2. CASE ~DuplicateKey(index, k, r)
    <2>1. /\ phase[s] = "stmt" /\ rows[r] = NoRow
          /\ UNCHANGED <<current_trx_id, trx_id, started, todo, commit_xid, phase>>
          /\ rows' = [rows EXCEPT ![r] = row]
          /\ operations' = [operations EXCEPT ![s] = AddOperation(@, "INSERT", r)]
      BY <1>2 DEF InsertRecord, kitVars
    <2>2. trx_id[s] \in 1 .. current_trx_id /\ started[s]
      BY <2>1 DEF IInv, Phases, TrxIds
    <2>3. Pending(s) = operations[s]
      BY <2>1 DEF Pending
    <2>4. operations'[s] = operations[s] \cup {new}
      BY <2>1, <2>3, UnusedIsFree, AddNew DEF IInv, TypeOK
    <2>5. \A t \in Sessions \ {s} : operations'[t] = operations[t]
      BY <2>1 DEF IInv, TypeOK
    <2>6. Pending(s)' = Pending(s) \cup {new}
      BY <2>1, <2>3, <2>4 DEF Pending
    <2>7. \A t \in Sessions \ {s} : Pending(t)' = Pending(t)
      BY <2>1, <2>5 DEF Pending
    <2>8. rows'[r] = row /\ \A q \in Rids \ {r} : rows'[q] = rows[q]
      BY <2>1 DEF IInv, TypeOK
    <2>9. row /= NoRow /\ RowOK(row) /\ Owned(row, trx_id[s], new)
      BY <2>2, NewRowOK
    <2>10. \A t \in Sessions : \A op \in Pending(t) : op.rid /= r
      BY <2>1, UnusedIsFree
    <2>11. (OperationOwnsMark /\ WriteExclusion /\ DeletesVisible /\ UncommittedRows /\ XidOrder)'
      <3>1. \A t \in Sessions : \A op \in Pending(t)' :
              \/ op \in Pending(t) /\ op.rid \notin {r}
              \/ op.rid \in Rids /\ Owned(rows'[op.rid], trx_id[t], op)
        BY <2>6, <2>7, <2>8, <2>9, <2>10
      <3>2. \A op \in Pending(s)' \ Pending(s) : \A t \in Sessions \ {s} :
              \A oq \in Pending(t) : oq.rid /= op.rid
        BY <2>6, <2>10
      <3>3. {r} \in SUBSET Rids /\ \A q \in {r} : RowOK(rows'[q])
        BY <2>8, <2>9
      <3> QED
        BY <2>1, <2>7, <2>8, <3>1, <3>2, <3>3, TableChanged
    <2>12. TrxIds'
      BY <2>1 DEF IInv, TrxIds
    <2>13. OnePerRecord'
      BY <2>3, <2>4, <2>5, <2>10 DEF IInv, OnePerRecord
    <2>14. InsertsKnown'
      <3> SUFFICES ASSUME NEW t \in Sessions, NEW q \in Rids, started[t], rows'[q] /= NoRow,
                          rows'[q].begin = -trx_id[t]
                   PROVE  [type |-> "INSERT", rid |-> q] \in operations'[t]
        BY <2>1 DEF InsertsKnown
      <3>1. CASE q = r
        <4>1. trx_id[t] = trx_id[s] /\ trx_id[s] /= NoTrxId
          BY <2>2, <2>8, <3>1 DEF NoTrxId, IInv, TypeOK
        <4>2. t = s
          BY <4>1 DEF IInv, TrxIds
        <4> QED
          BY <2>4, <3>1, <4>2
      <3>2. CASE q /= r
        BY <2>4, <2>5, <2>8, <3>2 DEF IInv, InsertsKnown
      <3> QED
        BY <3>1, <3>2
    <2>15. Phases'
      BY <2>1, <2>2, <2>4, <2>5 DEF IInv, Phases, Ending
    <2> QED
      BY <2>11, <2>12, <2>13, <2>14, <2>15 DEF IInv
  <1> QED
    BY <1>1, <1>2

\* A record a write scan accepts is an insertion of the transaction itself, or
\* has two commit ids and its insertion is visible.
LEMMA WritableRecord ==
  ASSUME IInv, NEW s \in Sessions, NEW r \in Rids, phase[s] = "stmt", rows[r] /= NoRow,
         VisitRecord(trx_id[s], rows[r], FALSE) = "SUCCESS"
  PROVE  /\ trx_id[s] \in 1 .. current_trx_id /\ started[s]
         /\ \/ /\ rows[r].begin = -trx_id[s]
               /\ [type |-> "INSERT", rid |-> r] \in operations[s]
            \/ /\ rows[r].begin > 0 /\ rows[r].end > 0
               /\ rows[r].begin <= trx_id[s]
  <1>1. trx_id[s] \in 1 .. current_trx_id /\ started[s]
    BY DEF IInv, Phases, TrxIds
  <1>2. /\ rows[r].begin \in Int /\ rows[r].end \in Int /\ trx_id[s] \in Int
        /\ rows[r].begin /= 0 /\ rows[r].end /= 0
    BY DEF IInv, TypeOK, Row, XidOrder
  <1>3. CASE rows[r].begin > 0 /\ rows[r].end > 0
    <2>1. rows[r].begin <= trx_id[s]
      BY <1>2, <1>3 DEF VisitRecord
    <2> QED
      BY <1>1, <1>3, <2>1
  <1>4. CASE rows[r].begin < 0
    <2>1. rows[r].begin = -trx_id[s]
      BY <1>2, <1>4 DEF VisitRecord
    <2>2. [type |-> "INSERT", rid |-> r] \in operations[s]
      BY <1>1, <2>1 DEF IInv, InsertsKnown
    <2> QED
      BY <1>1, <2>1, <2>2
  <1>5. CASE rows[r].begin > 0 /\ rows[r].end < 0
    BY <1>2, <1>5 DEF VisitRecord
  <1> QED
    BY <1>2, <1>3, <1>4, <1>5

\* A record with the mark of a deletion, and the operation set with the deletion.
MarkedRow(s, r) == [rows[r] EXCEPT !.end = -trx_id[s]]
DeleteOps(s, r) == AddOperation(operations[s], "DELETE", r)

\* The mark of a deletion: the record stays in order, the transaction owns it,
\* and nobody else has an operation on it.
LEMMA DeleteMark ==
  ASSUME IInv, NEW s \in Sessions, NEW r \in Rids, phase[s] = "stmt", rows[r] /= NoRow,
         VisitRecord(trx_id[s], rows[r], FALSE) = "SUCCESS"
  PROVE  /\ MarkedRow(s, r) /= NoRow /\ MarkedRow(s, r).begin = rows[r].begin /\ RowOK(MarkedRow(s, r))
         /\ \A op \in DeleteOps(s, r) : op.rid = r => Owned(MarkedRow(s, r), trx_id[s], op)
         /\ operations[s] \subseteq DeleteOps(s, r)
         /\ \A op \in DeleteOps(s, r) \ operations[s] : op.rid = r
         /\ \A t \in Sessions \ {s} : \A op \in Pending(t) : op.rid /= r
         /\ \A op, oq \in DeleteOps(s, r) : op.rid = oq.rid => op = oq
  <1>1. /\ trx_id[s] \in 1 .. current_trx_id /\ current_trx_id \in Nat
        /\ \/ /\ rows[r].begin = -trx_id[s]
              /\ [type |-> "INSERT", rid |-> r] \in operations[s]
           \/ /\ rows[r].begin > 0 /\ rows[r].end > 0
              /\ rows[r].begin <= trx_id[s]
    BY WritableRecord DEF IInv, TypeOK
  <1>2. rows[r] \in Row /\ -trx_id[s] \in Int
    BY DEF IInv, TypeOK
  <1>3. MarkedRow(s, r) \in Row /\ MarkedRow(s, r).begin = rows[r].begin /\ MarkedRow(s, r).end = -trx_id[s]
    BY <1>2 DEF Row, MarkedRow
  <1>4. MarkedRow(s, r) /= NoRow
    BY <1>3, NoRowAssumption
  <1>5. Pending(s) = operations[s]
    BY DEF Pending
  <1>6. \A op, oq \in operations[s] : op.rid = oq.rid => op = oq
    BY DEF IInv, OnePerRecord
  <1>7. RowOK(MarkedRow(s, r))
    <2>1. rows[r].begin /= 0 /\ rows[r].begin <= current_trx_id /\ -rows[r].begin <= current_trx_id
      BY DEF IInv, XidOrder
    <2>2. rows[r].begin \in Int
      BY <1>2 DEF Row
    <2> QED
      BY <1>1, <1>3, <2>1, <2>2 DEF RowOK
  <1>8. CASE rows[r].begin = -trx_id[s] /\ [type |-> "INSERT", rid |-> r] \in operations[s]
    <2>1. DeleteOps(s, r) = operations[s]
      BY <1>8 DEF AddOperation, DeleteOps
    <2>2. \A op \in operations[s] : op.rid = r => op = [type |-> "INSERT", rid |-> r]
      BY <1>6, <1>8
    <2>3. \A t \in Sessions \ {s} : \A op \in Pending(t) : op.rid /= r
      BY <1>5, <1>8 DEF IInv, WriteExclusion
    <2>4. \A op \in DeleteOps(s, r) : op.rid = r => Owned(MarkedRow(s, r), trx_id[s], op)
      BY <1>3, <1>4, <1>8, <2>1, <2>2 DEF Owned
    <2> QED
      BY <1>3, <1>4, <1>6, <1>7, <2>1, <2>3, <2>4
  <1>9. CASE rows[r].begin > 0 /\ rows[r].end > 0 /\ rows[r].begin <= trx_id[s]
    <2>1. \A t \in Sessions : \A op \in Pending(t) : op.rid /= r
      BY <1>9, CommittedIsFree
    <2>2. DeleteOps(s, r) = operations[s] \cup {[type |-> "DELETE", rid |-> r]}
      BY <1>5, <2>1, AddNew DEF DeleteOps
    <2>3. \A op \in DeleteOps(s, r) : op.rid = r => Owned(MarkedRow(s, r), trx_id[s], op)
      BY <1>3, <1>4, <1>5, <1>9, <2>1, <2>2 DEF Owned
    <2>4. \A op, oq \in DeleteOps(s, r) : op.rid = oq.rid => op = oq
      BY <1>5, <1>6, <2>1, <2>2
    <2> QED
      BY <1>3, <1>4, <1>7, <2>1, <2>2, <2>3, <2>4
  <1> QED
    BY <1>1, <1>8, <1>9

\* A deletion marks a record nobody else has an operation on.
LEMMA DeleteStep ==
  ASSUME IInv, TypeOK', NEW s \in Sessions, NEW r \in Rids, DeleteRecord(s, r)
  PROVE  IInv'
  <1>1. /\ phase[s] = "stmt" /\ rows[r] /= NoRow
        /\ VisitRecord(trx_id[s], rows[r], FALSE) = "SUCCESS"
        /\ UNCHANGED <<current_trx_id, trx_id, started, todo, commit_xid, phase>>
    BY DEF DeleteRecord, kitVars
  <1>2. /\ MarkedRow(s, r) /= NoRow /\ MarkedRow(s, r).begin = rows[r].begin /\ RowOK(MarkedRow(s, r))
        /\ \A op \in DeleteOps(s, r) : op.rid = r => Owned(MarkedRow(s, r), trx_id[s], op)
        /\ operations[s] \subseteq DeleteOps(s, r)
        /\ \A op \in DeleteOps(s, r) \ operations[s] : op.rid = r
        /\ \A t \in Sessions \ {s} : \A op \in Pending(t) : op.rid /= r
        /\ \A op, oq \in DeleteOps(s, r) : op.rid = oq.rid => op = oq
    BY <1>1, DeleteMark
  <1>3. rows'[r] = MarkedRow(s, r) /\ \A q \in Rids \ {r} : rows'[q] = rows[q]
    <2>1. rows' = [rows EXCEPT ![r].end = -trx_id[s]]
      BY DEF DeleteRecord
    <2> QED
      BY <2>1 DEF IInv, TypeOK, MarkedRow
  <1>4. operations'[s] = DeleteOps(s, r) /\ \A t \in Sessions \ {s} : operations'[t] = operations[t]
    BY DEF DeleteRecord, DeleteOps, IInv, TypeOK
  <1>5. Pending(s) = operations[s] /\ Pending(s)' = DeleteOps(s, r)
    BY <1>1, <1>4 DEF Pending
  <1>6. \A t \in Sessions \ {s} : Pending(t)' = Pending(t)
    BY <1>1, <1>4 DEF Pending
  <1>7. (OperationOwnsMark /\ WriteExclusion /\ DeletesVisible /\ UncommittedRows /\ XidOrder)'
    <2>1. \A t \in Sessions : \A op \in Pending(t)' :
            \/ op \in Pending(t) /\ op.rid \notin {r}
            \/ op.rid \in Rids /\ Owned(rows'[op.rid], trx_id[t], op)
      BY <1>2, <1>3, <1>5, <1>6
    <2>2. \A op \in Pending(s)' \ Pending(s) : \A t \in Sessions \ {s} :
            \A oq \in Pending(t) : oq.rid /= op.rid
      BY <1>2, <1>5
    <2>3. {r} \in SUBSET Rids /\ \A q \in {r} : RowOK(rows'[q])
      BY <1>2, <1>3
    <2> QED
      BY <1>1, <1>3, <1>6, <2>1, <2>2, <2>3, TableChanged
  <1>8. TrxIds'
    BY <1>1 DEF IInv, TrxIds
  <1>9. OnePerRecord'
    BY <1>2, <1>4 DEF IInv, OnePerRecord
  <1>10. InsertsKnown'
    <2>1. \A t \in Sessions : operations[t] \subseteq operations'[t]
      BY <1>2, <1>4
    <2>2. \A q \in Rids : rows'[q] /= NoRow => rows[q] /= NoRow /\ rows[q].begin = rows'[q].begin
      BY <1>1, <1>2, <1>3
    <2> QED
      BY <1>1, <2>1, <2>2 DEF IInv, InsertsKnown
  <1>11. Phases'
    <2>1. trx_id[s] \in 1 .. current_trx_id /\ started[s]
      BY <1>1, WritableRecord
    <2> QED
      BY <1>1, <1>2, <1>4, <2>1 DEF IInv, Phases, Ending
  <1> QED
    BY <1>7, <1>8, <1>9, <1>10, <1>11 DEF IInv

\* The failing branch of update_record: the mark stays, no operation is added.
LEMMA UpdateFailsStep ==
  ASSUME IInv, TypeOK', NEW s \in Sessions, NEW r \in Rids, phase[s] = "stmt", rows[r] /= NoRow,
         VisitRecord(trx_id[s], rows[r], FALSE) = "SUCCESS",
         rows' = [rows EXCEPT ![r].end = -trx_id[s]],
         phase' = [phase EXCEPT ![s] = "close"],
         UNCHANGED <<current_trx_id, trx_id, started, operations, todo, commit_xid>>
  PROVE  IInv'
  <1>1. /\ MarkedRow(s, r) /= NoRow /\ MarkedRow(s, r).begin = rows[r].begin /\ RowOK(MarkedRow(s, r))
        /\ \A op \in DeleteOps(s, r) : op.rid = r => Owned(MarkedRow(s, r), trx_id[s], op)
        /\ operations[s] \subseteq DeleteOps(s, r)
        /\ \A t \in Sessions \ {s} : \A op \in Pending(t) : op.rid /= r
    BY DeleteMark
  <1>2. rows'[r] = MarkedRow(s, r) /\ \A q \in Rids \ {r} : rows'[q] = rows[q]
    BY DEF IInv, TypeOK, MarkedRow
  <1>3. \A t \in Sessions : /\ phase'[t] \in Ending <=> phase[t] \in Ending
                            /\ t /= s => phase'[t] = phase[t]
                            /\ phase'[s] = "close"
    BY DEF IInv, TypeOK, Ending
  <1>4. \A t \in Sessions : Pending(t)' = Pending(t)
    BY <1>3 DEF Pending, Ending
  <1>5. Pending(s) = operations[s]
    BY DEF Pending
  <1>6. (OperationOwnsMark /\ WriteExclusion /\ DeletesVisible /\ UncommittedRows /\ XidOrder)'
    <2>1. \A t \in Sessions : \A op \in Pending(t)' :
            \/ op \in Pending(t) /\ op.rid \notin {r}
            \/ op.rid \in Rids /\ Owned(rows'[op.rid], trx_id[t], op)
      BY <1>1, <1>2, <1>4, <1>5
    <2>2. \A op \in Pending(s)' \ Pending(s) : \A t \in Sessions \ {s} :
            \A oq \in Pending(t) : oq.rid /= op.rid
      BY <1>4
    <2>3. {r} \in SUBSET Rids /\ \A q \in {r} : RowOK(rows'[q])
      BY <1>1, <1>2
    <2> QED
      BY <1>2, <1>4, <2>1, <2>2, <2>3, TableChanged
  <1>7. (TrxIds /\ OnePerRecord)'
    BY DEF IInv, TrxIds, OnePerRecord
  <1>8. InsertsKnown'
    <2>1. \A q \in Rids : rows'[q] /= NoRow => rows[q] /= NoRow /\ rows[q].begin = rows'[q].begin
      BY <1>1, <1>2
    <2> QED
      BY <2>1 DEF IInv, InsertsKnown
  <1>9. Phases'
    <2>1. started[s]
      BY DEF IInv, Phases
    <2> QED
      BY <1>3, <2>1 DEF IInv, Phases, Ending
  <1> QED
    BY <1>6, <1>7, <1>8, <1>9 DEF IInv

\* An update marks the old version as a deletion does and inserts the new one in
\* a free slot.
LEMMA UpdateStep ==
  ASSUME IInv, TypeOK', NEW s \in Sessions, NEW r \in Rids, NEW r2 \in Rids, NEW k \in Keys,
         UpdateRecord(s, r, r2, k)
  PROVE  IInv'
  <1> DEFINE marked == [rows EXCEPT ![r].end = -trx_id[s]]
             row2 == [begin |-> -trx_id[s], end |-> MaxTrxId, key |-> k]
             new == [type |-> "INSERT", rid |-> r2]
  <1>1. /\ phase[s] = "stmt" /\ rows[r] /= NoRow /\ rows[r2] = NoRow /\ r /= r2
        /\ VisitRecord(trx_id[s], rows[r], FALSE) = "SUCCESS"
        /\ UNCHANGED <<current_trx_id, trx_id, started, todo, commit_xid>>
    BY DEF UpdateRecord, kitVars
  <1>2. CASE rows' = marked /\ phase' = [phase EXCEPT ![s] = "close"] /\ UNCHANGED operations
    BY <1>1, <1>2, UpdateFailsStep
  <1>3. CASE /\ rows' = [marked EXCEPT ![r2] = row2]
             /\ operations' = [operations EXCEPT ![s] = AddOperation(DeleteOps(s, r), "INSERT", r2)]
             /\ UNCHANGED phase
    <2>1. /\ MarkedRow(s, r) /= NoRow /\ MarkedRow(s, r).begin = rows[r].begin /\ RowOK(MarkedRow(s, r))
          /\ \A op \in DeleteOps(s, r) : op.rid = r => Owned(MarkedRow(s, r), trx_id[s], op)
          /\ operations[s] \subseteq DeleteOps(s, r)
          /\ \A op \in DeleteOps(s, r) \ operations[s] : op.rid = r
          /\ \A t \in Sessions \ {s} : \A op \in Pending(t) : op.rid /= r
          /\ \A op, oq \in DeleteOps(s, r) : op.rid = oq.rid => op = oq
      BY <1>1, DeleteMark
    <2>2. trx_id[s] \in 1 .. current_trx_id /\ started[s]
      BY <1>1, WritableRecord
    <2>3. row2 /= NoRow /\ RowOK(row2) /\ Owned(row2, trx_id[s], new)
      BY <2>2, NewRowOK
    <2>4. /\ rows'[r] = MarkedRow(s, r) /\ rows'[r2] = row2
          /\ \A q \in Rids \ {r, r2} : rows'[q] = rows[q]
      <3>0. rows \in [Rids -> Row \cup {NoRow}] /\ -trx_id[s] \in Int
        BY DEF IInv, TypeOK
      <3>1. marked \in [Rids -> Row \cup {NoRow}]
        BY <1>1, <3>0, RowTypes
      <3>2. marked[r] = MarkedRow(s, r) /\ \A q \in Rids \ {r} : marked[q] = rows[q]
        BY DEF IInv, TypeOK, MarkedRow
      <3> QED
        BY <1>1, <1>3, <3>1, <3>2
    <2>5. \A t \in Sessions : \A op \in Pending(t) : op.rid /= r2
      BY <1>1, UnusedIsFree
    <2>6. Pending(s) = operations[s]
      BY <1>1 DEF Pending
    <2>7. \A op \in DeleteOps(s, r) : op.rid /= r2
      BY <1>1, <2>1, <2>5, <2>6
    <2>8. AddOperation(DeleteOps(s, r), "INSERT", r2) = DeleteOps(s, r) \cup {new}
      BY <2>7, AddNew
    <2>9. operations'[s] = DeleteOps(s, r) \cup {new} /\ \A t \in Sessions \ {s} : operations'[t] = operations[t]
      BY <1>3, <2>8 DEF IInv, TypeOK
    <2>10. Pending(s)' = DeleteOps(s, r) \cup {new} /\ \A t \in Sessions \ {s} : Pending(t)' = Pending(t)
      BY <1>1, <1>3, <2>9 DEF Pending
    <2>11. (OperationOwnsMark /\ WriteExclusion /\ DeletesVisible /\ UncommittedRows /\ XidOrder)'
      <3>1. \A t \in Sessions : \A op \in Pending(t)' :
              \/ op \in Pending(t) /\ op.rid \notin {r, r2}
              \/ op.rid \in Rids /\ Owned(rows'[op.rid], trx_id[t], op)
        <4>1. \A t \in Sessions \ {s} : \A op \in Pending(t)' : op \in Pending(t) /\ op.rid \notin {r, r2}
          BY <2>1, <2>5, <2>10
        <4>2. \A op \in DeleteOps(s, r) : op.rid /= r => op \in Pending(s) /\ op.rid \notin {r, r2}
          BY <2>1, <2>6, <2>7
        <4>3. \A op \in DeleteOps(s, r) : op.rid = r => Owned(rows'[op.rid], trx_id[s], op)
          BY <2>1, <2>4
        <4>4. new.rid \in Rids /\ Owned(rows'[new.rid], trx_id[s], new)
          BY <2>3, <2>4
        <4> QED
          BY <2>10, <4>1, <4>2, <4>3, <4>4
      <3>2. \A op \in Pending(s)' \ Pending(s) : \A t \in Sessions \ {s} :
              \A oq \in Pending(t) : oq.rid /= op.rid
        BY <2>1, <2>5, <2>6, <2>10
      <3>3. {r, r2} \in SUBSET Rids /\ \A q \in {r, r2} : RowOK(rows'[q])
        BY <2>1, <2>3, <2>4
      <3> QED
        BY <1>1, <2>4, <2>10, <3>1, <3>2, <3>3, TableChanged
    <2>12. TrxIds'
      BY <1>1 DEF IInv, TrxIds
    <2>13. OnePerRecord'
      BY <2>1, <2>7, <2>9 DEF IInv, OnePerRecord
    <2>14. InsertsKnown'
      <3> SUFFICES ASSUME NEW t \in Sessions, NEW q \in Rids, started[t], rows'[q] /= NoRow,
                          rows'[q].begin = -trx_id[t]
                   PROVE  [type |-> "INSERT", rid |-> q] \in operations'[t]
        BY <1>1 DEF InsertsKnown
      <3>1. CASE q = r2
        <4>1. trx_id[t] = trx_id[s] /\ trx_id[s] /= NoTrxId
          BY <2>2, <2>4, <3>1 DEF NoTrxId, IInv, TypeOK
        <4>2. t = s
          BY <4>1 DEF IInv, TrxIds
        <4> QED
          BY <2>9, <3>1, <4>2
      <3>2. CASE q /= r2
        <4>1. rows[q] /= NoRow /\ rows[q].begin = -trx_id[t]
          BY <1>1, <2>1, <2>4, <3>2
        <4>2. [type |-> "INSERT", rid |-> q] \in operations[t]
          BY <4>1 DEF IInv, InsertsKnown
        <4> QED
          BY <2>1, <2>9, <4>2
      <3> QED
        BY <3>1, <3>2
    <2>15. Phases'
      BY <1>1, <1>3, <2>1, <2>2, <2>9 DEF IInv, Phases, Ending
    <2> QED
      BY <2>11, <2>12, <2>13, <2>14, <2>15 DEF IInv
  <1> QED
    BY <1>2, <1>3 DEF UpdateRecord, DeleteOps

\* The rest of the invariant in an iteration of the loop of a commit or a
\* rollback, which takes one operation off the list.
LEMMA LoopFrame ==
  ASSUME IInv, TypeOK', NEW s \in Sessions, phase[s] \in Ending, NEW op \in todo[s],
         todo' = [todo EXCEPT ![s] = @ \ {op}],
         UNCHANGED <<current_trx_id, trx_id, started, operations, commit_xid, phase>>
  PROVE  /\ (TrxIds /\ Phases /\ OnePerRecord)'
         /\ op \in Pending(s) /\ Pending(s)' = Pending(s) \ {op}
         /\ \A t \in Sessions \ {s} : Pending(t)' = Pending(t)
  <1>1. todo'[s] = todo[s] \ {op} /\ \A t \in Sessions \ {s} : todo'[t] = todo[t]
    BY DEF IInv, TypeOK
  <1>2. (TrxIds /\ OnePerRecord)'
    BY DEF IInv, TrxIds, OnePerRecord
  <1>3. Phases'
    BY <1>1 DEF IInv, Phases
  <1> QED
    BY <1>1, <1>2, <1>3 DEF Pending, Ending

\* A step that takes operation op off the list and changes its record only.
LEMMA LoopStep ==
  ASSUME IInv, TypeOK', NEW s \in Sessions, phase[s] \in Ending, NEW op \in todo[s],
         todo' = [todo EXCEPT ![s] = @ \ {op}],
         UNCHANGED <<current_trx_id, trx_id, started, operations, commit_xid, phase>>,
         \A q \in Rids \ {op.rid} : rows'[q] = rows[q],
         RowOK(rows'[op.rid]),
         rows'[op.rid] /= NoRow => \/ rows'[op.rid].begin = rows[op.rid].begin
                                   \/ rows'[op.rid].begin > 0
  PROVE  IInv'
  <1>1. /\ (TrxIds /\ Phases /\ OnePerRecord)'
        /\ op \in Pending(s) /\ Pending(s)' = Pending(s) \ {op}
        /\ \A t \in Sessions \ {s} : Pending(t)' = Pending(t)
    BY LoopFrame
  <1>2. op.rid \in Rids
    BY DEF IInv, TypeOK, Operation
  <1>3. /\ \A t \in Sessions \ {s} : \A oq \in Pending(t) : oq.rid /= op.rid
        /\ \A oq \in Pending(s) \ {op} : oq.rid /= op.rid
    BY <1>1, OthersElsewhere
  <1>4. (OperationOwnsMark /\ WriteExclusion /\ DeletesVisible /\ UncommittedRows /\ XidOrder)'
    <2>1. \A t \in Sessions : \A oq \in Pending(t)' : oq \in Pending(t) /\ oq.rid \notin {op.rid}
      BY <1>1, <1>3
    <2>2. {op.rid} \in SUBSET Rids /\ \A q \in {op.rid} : RowOK(rows'[q])
      BY <1>2
    <2>3. Pending(s)' \ Pending(s) = {}
      BY <1>1
    <2> QED
      BY <1>1, <2>1, <2>2, <2>3, TableChanged
  <1>5. InsertsKnown'
    <2> SUFFICES ASSUME NEW t \in Sessions, NEW q \in Rids, started[t], rows'[q] /= NoRow,
                        rows'[q].begin = -trx_id[t]
                 PROVE  [type |-> "INSERT", rid |-> q] \in operations[t]
      BY DEF InsertsKnown
    <2>1. trx_id[t] \in 1 .. current_trx_id
      BY DEF IInv, TrxIds
    <2>2. rows'[q].begin = rows[q].begin
      <3>1. rows'[q].begin < 0
        BY <2>1 DEF IInv, TypeOK
      <3> QED
        BY <3>1 DEF IInv, TypeOK, Row
    <2>3. rows[q] /= NoRow
      BY <1>1 DEF IInv, OperationOwnsMark
    <2> QED
      BY <2>2, <2>3 DEF IInv, InsertsKnown
  <1> QED
    BY <1>1, <1>4, <1>5 DEF IInv

\* The loop of commit_with_trx_id: a commit id replaces the mark, and it is
\* later than every id the record carried.
LEMMA CommitOperationStep ==
  ASSUME IInv, TypeOK', NEW s \in Sessions, NEW op \in Operation, CommitOperation(s, op)
  PROVE  IInv'
  <1> DEFINE r == op.rid
  <1>1. /\ phase[s] = "commit" /\ op \in todo[s] /\ todo' = [todo EXCEPT ![s] = @ \ {op}]
        /\ UNCHANGED <<current_trx_id, trx_id, started, operations, commit_xid, phase>>
    BY DEF CommitOperation, kitVars
  <1>2. op \in Pending(s) /\ r \in Rids
    BY <1>1 DEF Pending, Operation
  <1>3. /\ rows[r] /= NoRow /\ rows[r] \in Row
        /\ op.type = "INSERT" => rows[r].begin = -trx_id[s]
        /\ op.type = "DELETE" => /\ rows[r].begin > 0 /\ rows[r].end = -trx_id[s]
                                 /\ rows[r].begin <= trx_id[s]
    BY <1>2 DEF IInv, OperationOwnsMark, DeletesVisible, TypeOK
  <1>4. /\ trx_id[s] \in 1 .. current_trx_id /\ current_trx_id \in Nat /\ current_trx_id < MaxTrxId
        /\ commit_xid[s] \in trx_id[s] + 1 .. current_trx_id
        /\ commit_xid[s] > 0
    BY <1>1, <1>2, PendingFacts DEF IInv, Phases, TrxIds, TypeOK
  <1>5. RowOK(rows[r])
    BY <1>2 DEF IInv, XidOrder, UncommittedRows, RowOK
  <1>6. commit_xid[s] \in Int /\ rows \in [Rids -> Row \cup {NoRow}]
    BY DEF IInv, TypeOK
  <1>7. CASE op.type = "INSERT"
    <2> DEFINE row == [rows[r] EXCEPT !.begin = commit_xid[s]]
    <2>1. rows' = [rows EXCEPT ![r].begin = commit_xid[s]]
      BY <1>3, <1>7 DEF CommitOperation
    <2>2. rows'[r] = row /\ \A q \in Rids \ {r} : rows'[q] = rows[q]
      BY <1>2, <1>6, <2>1
    <2>3. row \in Row /\ row.begin = commit_xid[s] /\ row.end = rows[r].end
      BY <1>3, <1>6 DEF Row
    <2>4. rows[r].begin \in Int /\ rows[r].end \in Int
      BY <1>3 DEF Row
    <2>5. rows[r].begin < 0 /\ (rows[r].end = MaxTrxId \/ rows[r].end = rows[r].begin)
      BY <1>3, <1>4, <1>5, <1>7, <2>4 DEF RowOK
    <2>6. RowOK(row)
      BY <1>3, <1>4, <1>5, <2>3, <2>4, <2>5, ConstantsAssumption DEF RowOK
    <2> QED
      BY <1>1, <1>4, <2>2, <2>3, <2>6, LoopStep DEF Ending
  <1>8. CASE op.type = "DELETE"
    <2> DEFINE row == [rows[r] EXCEPT !.end = commit_xid[s]]
    <2>1. rows' = [rows EXCEPT ![r].end = commit_xid[s]]
      BY <1>3, <1>8 DEF CommitOperation
    <2>2. rows'[r] = row /\ \A q \in Rids \ {r} : rows'[q] = rows[q]
      BY <1>2, <1>6, <2>1
    <2>3. row \in Row /\ row.end = commit_xid[s] /\ row.begin = rows[r].begin
      BY <1>3, <1>6 DEF Row
    <2>4. rows[r].begin \in Int /\ rows[r].end \in Int
      BY <1>3 DEF Row
    <2>5. RowOK(row)
      BY <1>3, <1>4, <1>5, <1>8, <2>3, <2>4 DEF RowOK
    <2> QED
      BY <1>1, <2>2, <2>3, <2>5, LoopStep DEF Ending
  <1> QED
    BY <1>7, <1>8 DEF Operation

\* The loop of MvccTrx::rollback: the record goes away or its deletion does.
LEMMA RollbackOperationStep ==
  ASSUME IInv, TypeOK', NEW s \in Sessions, NEW op \in Operation, RollbackOperation(s, op)
  PROVE  IInv'
  <1> DEFINE r == op.rid
  <1>1. /\ phase[s] = "rollback" /\ op \in todo[s] /\ todo' = [todo EXCEPT ![s] = @ \ {op}]
        /\ UNCHANGED <<current_trx_id, trx_id, started, operations, commit_xid, phase>>
    BY DEF RollbackOperation, kitVars
  <1>2. op \in Pending(s) /\ r \in Rids
    BY <1>1 DEF Pending, Operation
  <1>3. /\ rows[r] /= NoRow /\ rows[r] \in Row
        /\ op.type = "DELETE" => rows[r].begin > 0
    BY <1>2 DEF IInv, OperationOwnsMark, TypeOK
  <1>4. RowOK(rows[r])
    BY <1>2 DEF IInv, XidOrder, UncommittedRows, RowOK
  <1>5. rows \in [Rids -> Row \cup {NoRow}]
    BY DEF IInv, TypeOK
  <1>6. CASE op.type = "INSERT"
    <2>1. TableDeleteRecord(r)
      BY <1>6 DEF RollbackOperation
    <2>2. rows' = rows \/ rows' = [rows EXCEPT ![r] = NoRow]
      BY <2>1 DEF TableDeleteRecord, tableVars
    <2>3. /\ \A q \in Rids \ {r} : rows'[q] = rows[q]
          /\ rows'[r] = rows[r] \/ rows'[r] = NoRow
      BY <1>2, <1>5, <2>2
    <2>4. RowOK(rows'[r])
      BY <1>4, <2>3 DEF RowOK
    <2> QED
      BY <1>1, <2>3, <2>4, LoopStep DEF Ending
  <1>7. CASE op.type = "DELETE"
    <2> DEFINE row == [rows[r] EXCEPT !.end = MaxTrxId]
    <2>1. rows' = [rows EXCEPT ![r].end = MaxTrxId]
      BY <1>3, <1>7 DEF RollbackOperation
    <2>2. rows'[r] = row /\ \A q \in Rids \ {r} : rows'[q] = rows[q]
      BY <1>2, <1>5, <2>1
    <2>3. row \in Row /\ row.end = MaxTrxId /\ row.begin = rows[r].begin
      BY <1>3, ConstantsAssumption DEF Row
    <2>4. rows[r].begin \in Int /\ current_trx_id \in Nat /\ current_trx_id < MaxTrxId
      BY <1>3 DEF Row, IInv, TypeOK, TrxIds
    <2>5. RowOK(row)
      BY <1>3, <1>4, <1>7, <2>3, <2>4, ConstantsAssumption DEF RowOK
    <2> QED
      BY <1>1, <2>2, <2>3, <2>5, LoopStep DEF Ending
  <1> QED
    BY <1>6, <1>7 DEF Operation

\* Every handler keeps the invariant.
LEMMA InvStep == IInv /\ [Next]_vars => IInv'
  <1> SUFFICES ASSUME IInv, [Next]_vars PROVE IInv'
    OBVIOUS
  <1>0. TypeOK'
    BY TypeStep DEF IInv
  <1>1. ASSUME NEW s \in Sessions, Begin(s) PROVE IInv'
    <2>1. phase' = [phase EXCEPT ![s] = "idle"]
      BY <1>1 DEF Begin, IInv, TypeOK
    <2> QED
      BY <1>0, <1>1, <2>1, StartIfNeedStep DEF Begin, tableVars
  <1>2. ASSUME NEW s \in Sessions, OpenStatement(s) PROVE IInv'
    BY <1>0, <1>2, StartIfNeedStep DEF OpenStatement, tableVars
  <1>3. ASSUME NEW s \in Sessions, CloseStatement(s) PROVE IInv'
    <2>1. CASE multi[s]
      BY <1>0, <1>3, <2>1, WorkerStep DEF CloseStatement, kitVars, tableVars, trxVars
    <2>2. CASE ~multi[s]
      BY <1>0, <1>3, <2>2, StartCommitStep DEF CloseStatement, Ending
    <2> QED
      BY <2>1, <2>2
  <1>4. ASSUME NEW s \in Sessions, NEW r \in Rids, WriteConflict(s, r) PROVE IInv'
    BY <1>0, <1>4, WorkerStep DEF WriteConflict, kitVars, tableVars, trxVars
  <1>5. ASSUME NEW s \in Sessions, Commit(s) PROVE IInv'
    BY <1>0, <1>5, StartCommitStep DEF Commit, Ending
  <1>6. CASE UNCHANGED vars
    BY <1>6 DEF vars, kitVars, tableVars, trxVars, IInv, TypeOK, TrxIds, Phases, OnePerRecord,
       OperationOwnsMark, WriteExclusion, DeletesVisible, UncommittedRows, InsertsKnown, XidOrder,
       Pending
  <1> QED
    BY <1>0, <1>1, <1>2, <1>3, <1>4, <1>5, <1>6, InsertStep, DeleteStep, UpdateStep, StartRollbackStep,
       FinishStep, DisconnectStep, CommitOperationStep, RollbackOperationStep DEF Next

\* The inductive invariant holds in every state of every behaviour.
THEOREM Invariance == Spec => []IInv
  <1>1. Init => IInv
    BY InvInit
  <1>2. IInv /\ [Next]_vars => IInv'
    BY InvStep
  <1> QED
    BY <1>1, <1>2, PTL DEF Spec

-----------------------------------------------------------------------------
(* What the invariant gives.                                               *)

\* An uncommitted record that nobody has deleted has its index entry.
UncommittedEntered ==
  \A r \in Rids : rows[r] /= NoRow /\ rows[r].begin < 0 /\ rows[r].end = MaxTrxId
    => <<rows[r].key, r>> \in index

\* Entries leave the index only with the record, or when the record gets the
\* mark of its deletion; rollback lifts such a mark from committed records only.
LEMMA EnteredStep ==
  ASSUME IInv, UncommittedEntered, [Next]_vars
  PROVE  UncommittedEntered'
  <1>0. /\ rows \in [Rids -> Row \cup {NoRow}]
        /\ \A r \in Rids : rows[r] /= NoRow => rows[r] \in Row
    BY DEF IInv, TypeOK
  <1>1. ASSUME UNCHANGED tableVars PROVE UncommittedEntered'
    BY <1>1 DEF UncommittedEntered, tableVars
  <1>2. \A s \in Sessions : -trx_id[s] \in Int /\ commit_xid[s] \in Int
    BY DEF IInv, TypeOK
  \* The id of a running transaction is positive: its mark is not max_trx_id.
  <1>3. \A s \in Sessions : phase[s] = "stmt" => -trx_id[s] < 0
    <2> SUFFICES ASSUME NEW s \in Sessions, phase[s] = "stmt" PROVE -trx_id[s] < 0
      OBVIOUS
    <2>1. trx_id[s] \in 1 .. current_trx_id /\ current_trx_id \in Nat
      BY DEF IInv, Phases, TrxIds, TypeOK
    <2> QED
      BY <2>1
  <1>4. ASSUME NEW s \in Sessions, NEW r \in Rids, NEW k \in Keys, InsertRecord(s, r, k)
        PROVE  UncommittedEntered'
    <2>1. CASE DuplicateKey(index, k, r)
      BY <1>1, <1>4, <2>1 DEF InsertRecord
    <2>2. CASE ~DuplicateKey(index, k, r)
      <3>1. /\ rows' = [rows EXCEPT ![r] = [begin |-> -trx_id[s], end |-> MaxTrxId, key |-> k]]
            /\ index' = index \cup {<<k, r>>}
        BY <1>4, <2>2 DEF InsertRecord
      <3> QED
        BY <1>0, <3>1 DEF UncommittedEntered
    <2> QED
      BY <2>1, <2>2
  <1>5. ASSUME NEW s \in Sessions, NEW r \in Rids, rows[r] /= NoRow, phase[s] = "stmt"
        PROVE  LET marked == [rows EXCEPT ![r].end = -trx_id[s]]
               IN  /\ marked[r].end < 0
                   /\ \A q \in Rids \ {r} : marked[q] = rows[q]
    BY <1>0, <1>2, <1>3, <1>5 DEF Row
  <1>6. ASSUME NEW s \in Sessions, NEW r \in Rids, DeleteRecord(s, r) PROVE UncommittedEntered'
    <2>1. /\ rows[r] /= NoRow /\ phase[s] = "stmt" /\ rows' = [rows EXCEPT ![r].end = -trx_id[s]]
          /\ index' = index \ {<<rows[r].key, r>>}
      BY <1>6 DEF DeleteRecord
    <2>2. rows'[r].end < 0 /\ \A q \in Rids \ {r} : rows'[q] = rows[q]
      BY <1>5, <2>1
    <2> QED
      BY <2>1, <2>2, ConstantsAssumption DEF UncommittedEntered
  <1>7. ASSUME NEW s \in Sessions, NEW r \in Rids, NEW r2 \in Rids, NEW k \in Keys,
               UpdateRecord(s, r, r2, k)
        PROVE  UncommittedEntered'
    <2> DEFINE marked == [rows EXCEPT ![r].end = -trx_id[s]]
               row == [begin |-> -trx_id[s], end |-> MaxTrxId, key |-> k]
               removed == index \ {<<rows[r].key, r>>}
    <2>1. rows[r] /= NoRow /\ phase[s] = "stmt" /\ rows[r2] = NoRow /\ r /= r2
      BY <1>7 DEF UpdateRecord
    <2>2. marked[r].end < 0 /\ \A q \in Rids \ {r} : marked[q] = rows[q]
      BY <1>5, <2>1
    <2>3. CASE rows' = marked /\ removed \subseteq index'
      BY <2>2, <2>3, ConstantsAssumption DEF UncommittedEntered
    <2>4. CASE rows' = [marked EXCEPT ![r2] = row] /\ index' = removed \cup {<<k, r2>>}
      <3>1. marked \in [Rids -> Row \cup {NoRow}]
        BY <1>0, <1>2, <2>1 DEF Row
      <3>2. /\ rows'[r2] = row /\ rows'[r].end < 0
            /\ \A q \in Rids \ {r, r2} : rows'[q] = rows[q]
        BY <2>1, <2>2, <2>4, <3>1
      <3>3. row.key = k /\ <<k, r2>> \in index'
        BY <2>4
      <3>4. \A q \in Rids \ {r, r2} : <<rows[q].key, q>> \in index => <<rows[q].key, q>> \in index'
        BY <2>4
      <3> QED
        BY <3>2, <3>3, <3>4, ConstantsAssumption DEF UncommittedEntered
    <2> QED
      BY <1>7, <2>3, <2>4 DEF UpdateRecord
  <1>8. ASSUME NEW s \in Sessions, NEW op \in Operation, CommitOperation(s, op)
        PROVE  UncommittedEntered'
    <2>1. op.rid \in Rids /\ op \in Pending(s) /\ index' = index
      BY <1>8 DEF CommitOperation, Operation, Pending
    <2>2. rows[op.rid] /= NoRow /\ commit_xid[s] > 0
      BY <1>8, <2>1 DEF IInv, OperationOwnsMark, Phases, CommitOperation
    <2>3. CASE op.type = "INSERT"
      <3>1. rows' = [rows EXCEPT ![op.rid].begin = commit_xid[s]]
        BY <1>8, <2>2, <2>3 DEF CommitOperation
      <3>2. rows'[op.rid].begin \in Nat /\ \A q \in Rids \ {op.rid} : rows'[q] = rows[q]
        BY <1>0, <1>2, <2>1, <2>2, <3>1 DEF Row
      <3> QED
        BY <1>2, <2>1, <3>2 DEF UncommittedEntered
    <2>4. CASE op.type = "DELETE"
      <3>1. rows' = [rows EXCEPT ![op.rid].end = commit_xid[s]] /\ rows[op.rid].begin > 0
        BY <1>8, <2>1, <2>2, <2>4 DEF CommitOperation, IInv, OperationOwnsMark
      <3>2. rows'[op.rid].begin \in Nat /\ \A q \in Rids \ {op.rid} : rows'[q] = rows[q]
        BY <1>0, <1>2, <2>1, <2>2, <3>1 DEF Row
      <3> QED
        BY <2>1, <3>2 DEF UncommittedEntered
    <2> QED
      BY <2>3, <2>4 DEF Operation
  <1>9. ASSUME NEW s \in Sessions, NEW op \in Operation, RollbackOperation(s, op)
        PROVE  UncommittedEntered'
    <2>1. op.rid \in Rids /\ op \in Pending(s)
      BY <1>9 DEF RollbackOperation, Operation, Pending
    <2>2. CASE op.type = "INSERT"
      <3>1. TableDeleteRecord(op.rid)
        BY <1>9, <2>2 DEF RollbackOperation
      <3> QED
        BY <1>0, <1>1, <2>1, <3>1 DEF TableDeleteRecord, UncommittedEntered
    <2>3. CASE op.type = "DELETE"
      <3>1. rows[op.rid] /= NoRow /\ rows[op.rid].begin > 0
        BY <2>1, <2>3 DEF IInv, OperationOwnsMark
      <3>2. rows' = [rows EXCEPT ![op.rid].end = MaxTrxId] /\ index' = index
        BY <1>9, <2>3, <3>1 DEF RollbackOperation
      <3>3. rows'[op.rid].begin \in Nat /\ \A q \in Rids \ {op.rid} : rows'[q] = rows[q]
        BY <1>0, <2>1, <3>1, <3>2, ConstantsAssumption DEF Row
      <3> QED
        BY <2>1, <3>2, <3>3 DEF UncommittedEntered
    <2> QED
      BY <2>2, <2>3 DEF Operation
  <1>10. ASSUME NEW s \in Sessions,
                \/ Begin(s) \/ OpenStatement(s) \/ CloseStatement(s) \/ Commit(s) \/ FinishCommit(s)
                \/ Rollback(s) \/ FinishRollback(s) \/ Disconnect(s)
                \/ \E r \in Rids : WriteConflict(s, r)
         PROVE  UNCHANGED tableVars
    BY <1>10 DEF Begin, OpenStatement, CloseStatement, Commit, StartCommit, FinishCommit, Rollback,
                 FinishRollback, Disconnect, WriteConflict, tableVars
  <1>11. CASE UNCHANGED vars
    BY <1>1, <1>11 DEF vars
  <1> QED
    BY <1>1, <1>4, <1>6, <1>7, <1>8, <1>9, <1>10, <1>11 DEF Next

\* Whatever the other sessions do, a record in an operation set is in its page
\* with the mark of its transaction, and an inserted one has its index entry
\* unless its own transaction deleted or updated it: the assertions of
\* commit_with_trx_id never fail, and of rollback's only the one on
\* Table::delete_record can, for a record its own transaction first inserted
\* and then deleted or updated.
THEOREM AssertionsFailOnlyOnOwn == Spec => []AssertionsFailOnOwnOnly
  <1>1. Init => UncommittedEntered
    BY DEF Init, UncommittedEntered
  <1>2. IInv /\ UncommittedEntered /\ [Next]_vars => UncommittedEntered'
    BY EnteredStep
  <1>3. ASSUME IInv, UncommittedEntered PROVE AssertionsFailOnOwnOnly
    <2>1. OperationOwnsMark
      BY <1>3 DEF IInv
    <2>2. ASSUME NEW s \in Sessions, NEW op \in Pending(s), op.type = "INSERT"
          PROVE  \/ rows[op.rid].end = MaxTrxId /\ <<rows[op.rid].key, op.rid>> \in index
                 \/ rows[op.rid].end = -trx_id[s]
      <3>1. op.rid \in Rids /\ trx_id[s] \in 1 .. current_trx_id /\ current_trx_id \in Nat
        BY <1>3, PendingFacts DEF Operation, IInv, TypeOK
      <3>2. rows[op.rid] /= NoRow /\ rows[op.rid].begin = -trx_id[s]
        BY <2>1, <2>2 DEF OperationOwnsMark
      <3>3. rows[op.rid].begin < 0
        BY <3>1, <3>2
      <3>4. rows[op.rid].end = MaxTrxId \/ rows[op.rid].end = -trx_id[s]
        BY <1>3, <3>1, <3>2, <3>3 DEF IInv, UncommittedRows
      <3> QED
        BY <1>3, <3>1, <3>2, <3>3, <3>4 DEF UncommittedEntered
    <2> QED
      BY <2>1, <2>2 DEF AssertionsFailOnOwnOnly, InsertionHasEntry
  <1> QED
    BY <1>1, <1>2, <1>3, Invariance, PTL DEF Spec

\* No record is ever in the operation sets of two transactions: visit_record's
\* conflict check excludes concurrent writers of a record.
THEOREM WritersExcluded == Spec => []WriteExclusion
  <1>1. IInv => WriteExclusion
    BY DEF IInv
  <1> QED
    BY <1>1, Invariance, PTL

\* Every id on a record was drawn from MvccTrxKit's counter, and a committed
\* deletion has a later id than the insertion it ends.
THEOREM XidsOrdered == Spec => []XidOrder
  <1>1. IInv => XidOrder
    BY DEF IInv
  <1> QED
    BY <1>1, Invariance, PTL

\* One step leaves the commit id of every committed insertion alone and the
\* record in its page.
LEMMA CommittedKept ==
  ASSUME IInv, [Next]_vars, NEW r \in Rids, rows[r] /= NoRow, rows[r].begin > 0
  PROVE  rows'[r] /= NoRow /\ rows'[r].begin = rows[r].begin
  <1>0. rows \in [Rids -> Row \cup {NoRow}] /\ rows[r] \in Row
    BY DEF IInv, TypeOK
  <1>1. ASSUME NEW s \in Sessions, NEW q \in Rids, NEW k \in Keys, InsertRecord(s, q, k)
        PROVE  rows'[r] = rows[r]
    BY <1>0, <1>1 DEF InsertRecord, tableVars
  \* Setting the end column of a record keeps every begin column.
  <1>2. ASSUME NEW q \in Rids, NEW x \in Int, rows[q] /= NoRow
        PROVE  /\ [rows EXCEPT ![q].end = x][r] /= NoRow
               /\ [rows EXCEPT ![q].end = x][r].begin = rows[r].begin
    <2>1. CASE q = r
      <3>1. [rows[r] EXCEPT !.end = x] \in Row /\ [rows[r] EXCEPT !.end = x].begin = rows[r].begin
        BY <1>0 DEF Row
      <3> QED
        BY <1>0, <2>1, <3>1, NoRowAssumption
    <2>2. CASE q /= r
      BY <1>0, <2>2
    <2> QED
      BY <2>1, <2>2
  <1>3. \A s \in Sessions : -trx_id[s] \in Int /\ commit_xid[s] \in Int
    BY DEF IInv, TypeOK
  <1>4. ASSUME NEW s \in Sessions, NEW q \in Rids, DeleteRecord(s, q)
        PROVE  rows'[r] /= NoRow /\ rows'[r].begin = rows[r].begin
    BY <1>2, <1>3, <1>4 DEF DeleteRecord
  <1>5. ASSUME NEW s \in Sessions, NEW q \in Rids, NEW q2 \in Rids, NEW k \in Keys,
               UpdateRecord(s, q, q2, k)
        PROVE  rows'[r] /= NoRow /\ rows'[r].begin = rows[r].begin
    <2> DEFINE marked == [rows EXCEPT ![q].end = -trx_id[s]]
    <2>1. rows[q] /= NoRow /\ rows[q2] = NoRow
      BY <1>5 DEF UpdateRecord
    <2>2. marked[r] /= NoRow /\ marked[r].begin = rows[r].begin
      BY <1>2, <1>3, <2>1
    <2>3. rows'[r] = marked[r]
      BY <1>5, <1>0, <2>1 DEF UpdateRecord
    <2> QED
      BY <2>2, <2>3
  \* The record of an operation on the list of a commit or a rollback.
  <1>6. ASSUME NEW s \in Sessions, NEW op \in todo[s], phase[s] \in Ending, op.type = "INSERT"
        PROVE  op.rid /= r
    <2>1. op \in Pending(s)
      BY <1>6 DEF Pending, Ending
    <2>2. trx_id[s] \in 1 .. current_trx_id /\ current_trx_id \in Nat
      BY <2>1, PendingFacts DEF IInv, TypeOK
    <2>3. rows[op.rid].begin = -trx_id[s]
      BY <1>6, <2>1 DEF IInv, OperationOwnsMark
    <2> QED
      BY <2>2, <2>3
  <1>7. ASSUME NEW s \in Sessions, NEW op \in Operation, CommitOperation(s, op)
        PROVE  rows'[r] /= NoRow /\ rows'[r].begin = rows[r].begin
    <2>1. op.rid \in Rids /\ op \in todo[s] /\ phase[s] \in Ending
      BY <1>7 DEF CommitOperation, Operation, Ending
    <2>2. CASE op.type = "INSERT"
      <3>1. op.rid /= r
        BY <1>6, <2>1, <2>2
      <3> QED
        BY <1>0, <1>7, <2>1, <2>2, <3>1 DEF CommitOperation
    <2>3. CASE op.type /= "INSERT"
      BY <1>0, <1>2, <1>3, <1>7, <2>1, <2>3 DEF CommitOperation
    <2> QED
      BY <2>2, <2>3
  <1>8. ASSUME NEW s \in Sessions, NEW op \in Operation, RollbackOperation(s, op)
        PROVE  rows'[r] /= NoRow /\ rows'[r].begin = rows[r].begin
    <2>1. op.rid \in Rids /\ op \in todo[s] /\ phase[s] \in Ending /\ MaxTrxId \in Int
      BY <1>8, ConstantsAssumption DEF RollbackOperation, Operation, Ending
    <2>2. CASE op.type = "INSERT"
      <3>1. op.rid /= r
        BY <1>6, <2>1, <2>2
      <3>2. rows' = rows \/ rows' = [rows EXCEPT ![op.rid] = NoRow]
        BY <1>8, <2>2 DEF RollbackOperation, TableDeleteRecord, tableVars
      <3> QED
        BY <1>0, <2>1, <3>1, <3>2
    <2>3. CASE op.type /= "INSERT"
      <3>1. rows' = IF rows[op.rid] = NoRow THEN rows ELSE [rows EXCEPT ![op.rid].end = MaxTrxId]
        BY <1>8, <2>3 DEF RollbackOperation
      <3> QED
        BY <1>0, <1>2, <2>1, <3>1
    <2> QED
      BY <2>2, <2>3
  <1>9. ASSUME NEW s \in Sessions,
               \/ Begin(s) \/ OpenStatement(s) \/ CloseStatement(s) \/ Commit(s) \/ FinishCommit(s)
               \/ Rollback(s) \/ FinishRollback(s) \/ Disconnect(s)
               \/ \E q \in Rids : WriteConflict(s, q)
        PROVE  rows' = rows
    BY <1>9 DEF Begin, OpenStatement, CloseStatement, Commit, StartCommit, FinishCommit, Rollback,
                FinishRollback, Disconnect, WriteConflict, tableVars
  <1>10. CASE UNCHANGED vars
    BY <1>10 DEF vars, tableVars
  <1> QED
    BY <1>1, <1>4, <1>5, <1>7, <1>8, <1>9, <1>10 DEF Next

\* Once an insertion has its commit id, no later step of any session changes
\* that id or takes the record out of its page: commits and rollbacks reach
\* only records with the mark of their own transaction.
THEOREM CommittedInsertsStay == Spec => CommittedInsertStable
  <1>1. IInv /\ [Next]_vars =>
          [\A r \in Rids : rows[r] /= NoRow /\ rows[r].begin > 0
             => rows'[r] /= NoRow /\ rows'[r].begin = rows[r].begin]_vars
    BY CommittedKept
  <1> QED
    BY <1>1, Invariance, PTL DEF Spec, CommittedInsertStable

=============================================================================
