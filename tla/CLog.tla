-------------------------------- MODULE CLog --------------------------------
(***************************************************************************)
(* The commit log's in-memory buffer and its file, storage/clog/clog.cpp:  *)
(* CLogBuffer::append_log_record and CLogBuffer::flush_buffer as the       *)
(* threads of concurrent transactions run them.  A thread appends the data *)
(* records of its transaction one by one and then commits: commit_trx      *)
(* appends the commit record and, in the same thread, flushes the buffer.  *)
(*                                                                         *)
(* append_log_record reads total_size_ before it takes lock_, flush_buffer *)
(* looks at the list before it takes lock_ and subtracts the size after    *)
(* releasing it; each of these is a step of its own.                       *)
(***************************************************************************)
EXTENDS Integers, Sequences, FiniteSets

CONSTANTS
  Threads,
  Capacity,    \* CLOG_BUFFER_SIZE
  DataLen,     \* logrec_len() of a data record
  CommitLen,   \* logrec_len() of a commit record
  MaxTrx,      \* bound: transactions a thread runs
  MaxData,     \* bound: data records a transaction logs
  NoThread     \* lock_ is free

ASSUME SizesAssumption ==
  /\ Capacity \in Nat \ {0} /\ DataLen \in Nat
  /\ CommitLen \in 1 .. DataLen
  /\ MaxTrx \in Nat /\ MaxData \in Nat
  /\ IsFiniteSet(Threads) /\ Threads /= {}
  /\ NoThread \notin Threads

VARIABLES
  log_records,  \* CLogBuffer::log_records_
  total_size,   \* CLogBuffer::total_size_
  lock,         \* holder of CLogBuffer::lock_
  pc, hand,     \* each thread's control state and the record it holds
  trx,          \* each thread's current transaction
  file,         \* records in the log file, not all of them synced
  synced,       \* length of the part of the file that fsync has covered
  appended,     \* history: every record in the order it was accepted
  acked         \* history: transactions whose commit returned SUCCESS

bufferVars == <<log_records, total_size, lock>>
fileVars == <<file, synced>>
historyVars == <<appended, acked>>
vars == <<bufferVars, pc, hand, trx, fileVars, historyVars>>

Trx == [thread : Threads, n : 1 .. MaxTrx]
Record == [type : {"DATA", "MTR_COMMIT"}, thread : Threads, n : 1 .. MaxTrx, seq : 0 .. MaxData]
logrec_len(rec) == IF rec.type = "DATA" THEN DataLen ELSE CommitLen

NoRecord == <<>>

TypeOK ==
  /\ log_records \in Seq(Record) /\ file \in Seq(Record) /\ appended \in Seq(Record)
  /\ total_size \in Nat
  /\ lock \in Threads \cup {NoThread}
  /\ pc \in [Threads -> {"ready", "push", "check", "pop", "write", "subtract", "sync"}]
  /\ hand \in [Threads -> Record \cup {NoRecord}]
  /\ trx \in [Threads -> [n : 1 .. MaxTrx + 1, logged : 0 .. MaxData]]
  /\ synced \in 0 .. Len(file)
  /\ acked \subseteq Trx

Init ==
  /\ log_records = <<>> /\ total_size = 0 /\ lock = NoThread
  /\ pc = [t \in Threads |-> "ready"]
  /\ hand = [t \in Threads |-> NoRecord]
  /\ trx = [t \in Threads |-> [n |-> 1, logged |-> 0]]
  /\ file = <<>> /\ synced = 0
  /\ appended = <<>> /\ acked = {}

CurrentTrx(t) == [thread |-> t, n |-> trx[t].n]
Goto(t, label) == pc' = [pc EXCEPT ![t] = label]
Hold(t, rec) == hand' = [hand EXCEPT ![t] = rec]
EndTrx(t) == trx' = [trx EXCEPT ![t] = [n |-> @.n + 1, logged |-> 0]]

\* The record the thread's next append_log or commit_trx call builds.
NextRecord(t, type) ==
  [type |-> type, thread |-> t, n |-> trx[t].n, seq |-> trx[t].logged]

\* The capacity check of append_log_record.
Fits(rec) == total_size + logrec_len(rec) < Capacity

\* append_log_record up to its lock: the record fits.
AppendCheck(t, type) ==
  /\ pc[t] = "ready" /\ trx[t].n <= MaxTrx
  /\ type = "DATA" => trx[t].logged < MaxData
  /\ Fits(NextRecord(t, type))
  /\ Hold(t, NextRecord(t, type))
  /\ trx' = IF type = "DATA" THEN [trx EXCEPT ![t].logged = @ + 1] ELSE trx
  /\ Goto(t, "push")
  /\ UNCHANGED <<bufferVars, fileVars, historyVars>>

\* append_log_record returns LOGBUF_FULL.  For an operation MvccTrx keeps the
\* change of the record and the entry in operations_; for the commit record
\* commit_trx returns the error and the transaction is over.
AppendFull(t, type) ==
  /\ pc[t] = "ready" /\ trx[t].n <= MaxTrx
  /\ type = "DATA" => trx[t].logged < MaxData
  /\ ~Fits(NextRecord(t, type))
  /\ IF type = "DATA"
     THEN trx' = [trx EXCEPT ![t].logged = @ + 1]
     ELSE EndTrx(t)
  /\ UNCHANGED <<bufferVars, pc, hand, fileVars, historyVars>>

\* The locked part of append_log_record.
AppendPush(t) ==
  /\ pc[t] = "push" /\ lock = NoThread
  /\ log_records' = Append(log_records, hand[t])
  /\ total_size' = total_size + logrec_len(hand[t])
  /\ appended' = Append(appended, hand[t])
  /\ Goto(t, IF hand[t].type = "DATA" THEN "ready" ELSE "check")
  /\ Hold(t, NoRecord)
  /\ UNCHANGED <<lock, trx, fileVars, acked>>

\* flush_buffer, the loop's condition, without the lock.
FlushCheck(t) ==
  /\ pc[t] = "check"
  /\ Goto(t, IF log_records = <<>> THEN "sync" ELSE "pop")
  /\ UNCHANGED <<bufferVars, hand, trx, fileVars, historyVars>>

Acknowledge(t) ==
  /\ acked' = acked \cup {CurrentTrx(t)}
  /\ EndTrx(t)
  /\ Goto(t, "ready")

\* The lock is taken but another thread has emptied the list: flush_buffer
\* returns SUCCESS at once.
FlushEmpty(t) ==
  /\ pc[t] = "pop" /\ lock = NoThread
  /\ log_records = <<>>
  /\ Acknowledge(t)
  /\ UNCHANGED <<bufferVars, hand, fileVars, appended>>

\* Mutant: the lock is released before the record is written.
FlushPopUnlocks(t) ==
  /\ pc[t] = "pop" /\ lock = NoThread
  /\ log_records /= <<>>
  /\ Hold(t, Head(log_records))
  /\ log_records' = Tail(log_records)
  /\ Goto(t, "write")
  /\ UNCHANGED <<total_size, lock, trx, fileVars, historyVars>>

\* The lock is taken and the first record moved out of the list.
FlushPop(t) ==
  /\ pc[t] = "pop" /\ lock = NoThread
  /\ log_records /= <<>>
  /\ lock' = t
  /\ Hold(t, Head(log_records))
  /\ log_records' = Tail(log_records)
  /\ Goto(t, "write")
  /\ UNCHANGED <<total_size, trx, fileVars, historyVars>>

\* Mutant: the lock is not released.
FlushWriteKeepsLock(t) ==
  /\ pc[t] = "write"
  /\ file' = Append(file, hand[t])
  /\ Goto(t, "subtract")
  /\ UNCHANGED <<log_records, lock, total_size, hand, trx, synced, historyVars>>

\* write_log_record and the unlock.
FlushWrite(t) ==
  /\ pc[t] = "write"
  /\ file' = Append(file, hand[t])
  /\ lock' = NoThread
  /\ Goto(t, "subtract")
  /\ UNCHANGED <<log_records, total_size, hand, trx, synced, historyVars>>

\* Mutant: the size of a data record is subtracted for every record.
FlushSubtractDataLen(t) ==
  /\ pc[t] = "subtract"
  /\ total_size' = total_size - DataLen
  /\ Hold(t, NoRecord)
  /\ Goto(t, "check")
  /\ UNCHANGED <<log_records, lock, trx, fileVars, historyVars>>

\* The subtraction after the unlock; the loop goes on.
FlushSubtract(t) ==
  /\ pc[t] = "subtract"
  /\ total_size' = total_size - logrec_len(hand[t])
  /\ Hold(t, NoRecord)
  /\ Goto(t, "check")
  /\ UNCHANGED <<log_records, lock, trx, fileVars, historyVars>>

\* CLogFile::sync, after which commit_trx returns SUCCESS.
FlushSync(t) ==
  /\ pc[t] = "sync"
  /\ synced' = Len(file)
  /\ Acknowledge(t)
  /\ UNCHANGED <<bufferVars, hand, file, appended>>

Step(t) ==
  \/ AppendPush(t) \/ FlushCheck(t) \/ FlushEmpty(t) \/ FlushPop(t)
  \/ FlushWrite(t) \/ FlushSubtract(t) \/ FlushSync(t)

Next ==
  \E t \in Threads :
    \/ \E type \in {"DATA", "MTR_COMMIT"} : AppendCheck(t, type) \/ AppendFull(t, type)
    \/ Step(t)

Spec == Init /\ [][Next]_vars

(***************************************************************************)
(* A call that has begun runs to its end: threads are scheduled and lock_  *)
(* is held only across a write, so a thread waiting for it gets it.        *)
(***************************************************************************)
FairSpec == Spec /\ \A t \in Threads : SF_vars(Step(t))

-----------------------------------------------------------------------------
(* Properties.                                                             *)

InHand == IF lock = NoThread THEN <<>> ELSE <<hand[lock]>>

\* Records reach the file in the order append_log_record accepted them, each
\* exactly once, however many threads flush: the file, the record being
\* written and the list are together the records accepted.
FileKeepsOrder == appended = file \o InHand \o log_records

\* total_size_ is checked without the lock, so the buffer can exceed its
\* capacity, but only by the records of the other threads that passed the
\* check at the same time; and no subtraction makes it negative.
BufferBound ==
  /\ total_size >= 0
  /\ total_size < Capacity + (Cardinality(Threads) - 1) * DataLen

\* The size of the records in the list and of those popped whose size is not
\* subtracted yet.
Unaccounted == {t \in Threads : pc[t] \in {"write", "subtract"}}
SizeOf(S) == Cardinality({i \in S : log_records[i].type = "DATA"}) * DataLen
               + Cardinality({i \in S : log_records[i].type /= "DATA"}) * CommitLen
PoppedSize == Cardinality({t \in Unaccounted : hand[t].type = "DATA"}) * DataLen
                + Cardinality({t \in Unaccounted : hand[t].type /= "DATA"}) * CommitLen

\* total_size_ counts exactly the records that wait in the list or are being
\* written, so a buffer that has been flushed is empty by its own count too.
SizeAccounted == total_size = SizeOf(DOMAIN log_records) + PoppedSize

CommitRecordIn(c, records) ==
  \E i \in DOMAIN records : /\ records[i].type = "MTR_COMMIT"
                            /\ records[i].thread = c.thread /\ records[i].n = c.n

\* A commit record that got into the list is written to the file, whatever the
\* other threads append meanwhile: the list is first in, first out, and the
\* thread that appended the record does not leave the loop of flush_buffer
\* while the record waits there.  That flush_buffer returns is not claimed:
\* threads that keep appending can keep its list from ever being empty.
CommitReachesFile ==
  \A c \in Trx : CommitRecordIn(c, log_records) ~> CommitRecordIn(c, file)

\* commit_trx does not return SUCCESS while its commit record, or any record
\* before it, waits in the list: whoever took the record out has written it or
\* is writing it.
AckedLeftBuffer == \A c \in acked : CommitRecordIn(c, file \o InHand)

\* However many threads append and flush, nothing is lost or reordered on its
\* way to the file, and SUCCESS is reported for no commit whose record is still
\* in the list.  It may be in the hand of another thread: flush_buffer tests
\* for the empty list without lock_, so the file need not have it yet.
LogFileExact == FileKeepsOrder /\ AckedLeftBuffer

\* The buffer's own count is right at every step of every thread, although it
\* is tested and reduced outside lock_: it can overshoot, never drift.
BufferAccounted == BufferBound /\ SizeAccounted
=============================================================================
