----------------------------- MODULE CLogProofs -----------------------------
(***************************************************************************)
(* The commit log's buffer for any number of threads, any capacity and any *)
(* record lengths: nothing is lost, reordered or counted wrongly on its    *)
(* way from append_log_record to the file.                                 *)
(*                                                                         *)
(* LogFileExact is not inductive.  That the file keeps the order needs     *)
(* that the record in the hand of the thread that has lock_ is the one it  *)
(* popped (Control); that a commit is acknowledged only when its record    *)
(* has left the list needs to follow the record from the push on           *)
(* (CommitsFollowed): until flush_buffer sees the empty list the record is *)
(* among those accepted, and from then on among those taken out.           *)
(* BufferBound needs the sizes of the threads that passed the test of      *)
(* total_size_ and have not pushed yet (PushBound).                        *)
(***************************************************************************)
EXTENDS CLog, TLAPS, SequenceTheorems, FiniteSetTheorems

\* The records taken out of the list, in order: those in the file and the one
\* being written.
TakenOut == file \o InHand

\* What the control state of a thread says about its hand, lock_ and its
\* transaction.
Control ==
  \A t \in Threads :
    /\ pc[t] \in {"push", "write", "subtract"} => hand[t] \in Record
    /\ pc[t] = "write" <=> lock = t
    /\ pc[t] = "push" => hand[t].thread = t /\ hand[t].n = trx[t].n
    /\ pc[t] /= "ready" => trx[t].n <= MaxTrx

\* Where the commit record of a thread inside flush_buffer is.
CommitsFollowed ==
  \A t \in Threads :
    /\ pc[t] \in {"check", "pop", "write", "subtract", "sync"}
         => CommitRecordIn(CurrentTrx(t), appended)
    /\ pc[t] = "sync" => CommitRecordIn(CurrentTrx(t), TakenOut)

\* The size of the records whose threads have passed the capacity check.
Pushing == {t \in Threads : pc[t] = "push"}
PushSize == Cardinality({t \in Pushing : hand[t].type = "DATA"}) * DataLen
              + Cardinality({t \in Pushing : hand[t].type /= "DATA"}) * CommitLen

PushBound == total_size + PushSize < Capacity + (Cardinality(Threads) - 1) * DataLen

IInv ==
  /\ TypeOK /\ Control /\ CommitsFollowed
  /\ FileKeepsOrder /\ AckedLeftBuffer
  /\ SizeAccounted /\ PushBound

-----------------------------------------------------------------------------
(* Sizes.                                                                  *)

\* The size of as many data records as D has elements and as many commit
\* records as C has.
Weight(D, C) == Cardinality(D) * DataLen + Cardinality(C) * CommitLen

\* Multiplying one more or one less.
LEMMA TimesOne ==
  ASSUME NEW a \in Nat, NEW b \in Nat
  PROVE  (a + 1) * b = a * b + b /\ (a - 1) * b = a * b - b /\ a * b \in Nat
  OBVIOUS

\* A record more changes the size by that record's length.
LEMMA WeightFacts ==
  ASSUME NEW D, NEW C, IsFiniteSet(D), IsFiniteSet(C), NEW x
  PROVE  /\ Weight(D, C) \in Nat
         /\ x \notin D => Weight(D \cup {x}, C) = Weight(D, C) + DataLen
         /\ x \notin C => Weight(D, C \cup {x}) = Weight(D, C) + CommitLen
  <1>1. Cardinality(D) \in Nat /\ Cardinality(C) \in Nat
    BY FS_CardinalityType
  <1>2. DataLen \in Nat /\ CommitLen \in Nat
    BY SizesAssumption
  <1>3. /\ x \notin D => Cardinality(D \cup {x}) = Cardinality(D) + 1
        /\ x \notin C => Cardinality(C \cup {x}) = Cardinality(C) + 1
    BY FS_AddElement
  <1>4. /\ Cardinality(D) * DataLen \in Nat /\ Cardinality(C) * CommitLen \in Nat
        /\ (Cardinality(D) + 1) * DataLen = Cardinality(D) * DataLen + DataLen
        /\ (Cardinality(C) + 1) * CommitLen = Cardinality(C) * CommitLen + CommitLen
    BY <1>1, <1>2, TimesOne
  <1>5. Weight(D, C) \in Nat
    BY <1>4 DEF Weight
  <1>6. x \notin D => Weight(D \cup {x}, C) = Weight(D, C) + DataLen
    BY <1>2, <1>3, <1>4 DEF Weight
  <1>7. x \notin C => Weight(D, C \cup {x}) = Weight(D, C) + CommitLen
    BY <1>2, <1>3, <1>4 DEF Weight
  <1> QED
    BY <1>5, <1>6, <1>7

\* So does a data record less.
LEMMA WeightLessData ==
  ASSUME NEW D, NEW C, IsFiniteSet(D), IsFiniteSet(C), NEW x \in D
  PROVE  Weight(D \ {x}, C) = Weight(D, C) - DataLen
  <1>1. Cardinality(D) \in Nat /\ Cardinality(C) \in Nat /\ DataLen \in Nat /\ CommitLen \in Nat
    BY FS_CardinalityType, SizesAssumption
  <1>2. Cardinality(D \ {x}) = Cardinality(D) - 1
    BY FS_RemoveElement
  <1>3. /\ Cardinality(D) * DataLen \in Nat /\ Cardinality(C) * CommitLen \in Nat
        /\ (Cardinality(D) - 1) * DataLen = Cardinality(D) * DataLen - DataLen
    BY <1>1, TimesOne
  <1> QED
    BY <1>1, <1>2, <1>3 DEF Weight

\* And a commit record less.
LEMMA WeightLessCommit ==
  ASSUME NEW D, NEW C, IsFiniteSet(D), IsFiniteSet(C), NEW x \in C
  PROVE  Weight(D, C \ {x}) = Weight(D, C) - CommitLen
  <1>1. Cardinality(D) \in Nat /\ Cardinality(C) \in Nat /\ DataLen \in Nat /\ CommitLen \in Nat
    BY FS_CardinalityType, SizesAssumption
  <1>2. Cardinality(C \ {x}) = Cardinality(C) - 1
    BY FS_RemoveElement
  <1>3. /\ Cardinality(D) * DataLen \in Nat /\ Cardinality(C) * CommitLen \in Nat
        /\ (Cardinality(C) - 1) * CommitLen = Cardinality(C) * CommitLen - CommitLen
    BY <1>1, TimesOne
  <1> QED
    BY <1>1, <1>2, <1>3 DEF Weight

\* The places of a sequence of records that hold one of P.
Places(q, P) == {i \in DOMAIN q : q[i] \in P}

\* There are finitely many of them.
LEMMA PlacesFinite ==
  ASSUME NEW q \in Seq(Record), NEW P
  PROVE  IsFiniteSet(Places(q, P))
  <1>1. Len(q) \in Nat /\ DOMAIN q = 1 .. Len(q)
    BY LenProperties
  <1>2. IsFiniteSet(1 .. Len(q))
    BY <1>1, FS_Interval
  <1> QED
    BY <1>1, <1>2, FS_Subset DEF Places

\* Appending a record adds its place to those of its kind.
LEMMA PlacesAppend ==
  ASSUME NEW q \in Seq(Record), NEW e \in Record, NEW P
  PROVE  /\ Len(q) + 1 \notin Places(q, P)
         /\ Places(Append(q, e), P) = IF e \in P THEN Places(q, P) \cup {Len(q) + 1} ELSE Places(q, P)
  <1>1. Len(q) \in Nat /\ DOMAIN q = 1 .. Len(q)
    BY LenProperties
  <1>2. /\ DOMAIN Append(q, e) = 1 .. Len(q) + 1
        /\ \A i \in 1 .. Len(q) : Append(q, e)[i] = q[i]
        /\ Append(q, e)[Len(q) + 1] = e
    BY AppendProperties, LenProperties
  <1> QED
    BY <1>1, <1>2 DEF Places

\* Removing the first record leaves as many of each kind as without place 1.
LEMMA PlacesTail ==
  ASSUME NEW q \in Seq(Record), q /= <<>>, NEW P
  PROVE  /\ 1 \in Places(q, P) <=> Head(q) \in P
         /\ Cardinality(Places(Tail(q), P)) = Cardinality(Places(q, P) \ {1})
  <1> DEFINE S == Places(q, P) \ {1}
             T == Places(Tail(q), P)
             f == [i \in S |-> i - 1]
  <1>1. Len(q) \in Nat \ {0} /\ DOMAIN q = 1 .. Len(q)
    BY LenProperties, EmptySeq
  <1>2. /\ Tail(q) \in Seq(Record) /\ Len(Tail(q)) = Len(q) - 1
        /\ \A i \in 1 .. Len(q) - 1 : Tail(q)[i] = q[i + 1]
    BY HeadTailProperties
  <1>3. DOMAIN Tail(q) = 1 .. Len(q) - 1
    BY <1>2, LenProperties
  <1>4. S = {i \in 2 .. Len(q) : q[i] \in P}
    BY <1>1 DEF Places
  <1>5. T = {i \in 1 .. Len(q) - 1 : q[i + 1] \in P}
    BY <1>2, <1>3 DEF Places
  <1> HIDE DEF S, T
  <1>6. f \in [S -> T]
    <2> SUFFICES ASSUME NEW i \in S PROVE i - 1 \in T
      OBVIOUS
    <2> QED
      BY <1>1, <1>4, <1>5
  <1>7. \A a, b \in S : f[a] = f[b] => a = b
    BY <1>1, <1>4
  <1>8. \A y \in T : \E a \in S : f[a] = y
    <2> SUFFICES ASSUME NEW y \in T PROVE y + 1 \in S /\ f[y + 1] = y
      OBVIOUS
    <2> QED
      BY <1>1, <1>4, <1>5
  <1>9. ExistsBijection(S, T)
    <2>1. f \in Bijection(S, T)
      BY <1>6, <1>7, <1>8 DEF Bijection, Injection, Surjection, IsInjective
    <2> QED
      BY <2>1 DEF ExistsBijection
  <1>10. IsFiniteSet(S)
    BY PlacesFinite, FS_RemoveElement DEF S
  <1>11. Cardinality(T) = Cardinality(S)
    BY <1>9, <1>10, FS_Bijection
  <1>12. Head(q) = q[1]
    BY <1>1
  <1>13. 1 \in Places(q, P) <=> Head(q) \in P
    BY <1>1, <1>12 DEF Places
  <1> QED
    BY <1>11, <1>13 DEF S, T

-----------------------------------------------------------------------------
(* Records on their way to the file.                                       *)

\* A sequence is its head followed by its tail.
LEMMA HeadThenTail ==
  ASSUME NEW q \in Seq(Record), q /= <<>>
  PROVE  <<Head(q)>> \o Tail(q) = q
  <1>1. Len(q) \in Nat \ {0}
    BY EmptySeq, LenProperties
  <1>2. SubSeq(q, 1, Len(q)) = <<q[1]>> \o SubSeq(q, 2, Len(q))
    BY <1>1, SubSeqRecursiveFirst
  <1>3. SubSeq(q, 1, Len(q)) = q /\ Tail(q) = SubSeq(q, 2, Len(q))
    BY SubSeqFull, TailIsSubSeq
  <1>4. Head(q) = q[1]
    BY <1>1
  <1> QED
    BY <1>2, <1>3, <1>4

\* A record stays among records that only grow.
LEMMA CommitRecordStays ==
  ASSUME NEW c, NEW q \in Seq(Record), NEW r \in Seq(Record), CommitRecordIn(c, q)
  PROVE  CommitRecordIn(c, q \o r)
  <1>1. /\ Len(q) \in Nat /\ Len(r) \in Nat /\ DOMAIN q = 1 .. Len(q)
        /\ DOMAIN (q \o r) = 1 .. Len(q) + Len(r)
        /\ \A i \in 1 .. Len(q) : (q \o r)[i] = q[i]
    <2>1. /\ q \o r \in Seq(Record) /\ Len(q \o r) = Len(q) + Len(r)
          /\ \A i \in 1 .. Len(q) + Len(r) :
               (q \o r)[i] = IF i <= Len(q) THEN q[i] ELSE r[i - Len(q)]
      BY ConcatProperties
    <2> QED
      BY <2>1, LenProperties
  <1>2. PICK i \in DOMAIN q : /\ q[i].type = "MTR_COMMIT"
                               /\ q[i].thread = c.thread /\ q[i].n = c.n
    BY DEF CommitRecordIn
  <1>3. i \in DOMAIN (q \o r) /\ (q \o r)[i] = q[i]
    BY <1>1
  <1> QED
    BY <1>2, <1>3 DEF CommitRecordIn

\* The records taken out are records.
LEMMA TakenOutType ==
  ASSUME TypeOK, Control
  PROVE  InHand \in Seq(Record) /\ TakenOut \in Seq(Record)
  <1>1. InHand \in Seq(Record)
    <2>1. CASE lock = NoThread
      BY <2>1, EmptySeq DEF InHand
    <2>2. CASE lock /= NoThread
      <3>1. lock \in Threads
        BY <2>2 DEF TypeOK
      <3>2. hand[lock] \in Record
        BY <3>1 DEF Control
      <3> QED
        BY <2>2, <3>2 DEF InHand
    <2> QED
      BY <2>1, <2>2
  <1> QED
    BY <1>1, ConcatProperties DEF TakenOut, TypeOK

\* Whatever leaves the list and the histories of a step alone, or only lets
\* records leave the list, keeps what is known of acknowledged commits.
LEMMA AckedStay ==
  ASSUME TypeOK, Control, AckedLeftBuffer, acked' = acked,
         NEW r \in Seq(Record), TakenOut' = TakenOut \o r
  PROVE  AckedLeftBuffer'
  <1>1. TakenOut \in Seq(Record)
    BY TakenOutType
  <1> SUFFICES ASSUME NEW c \in acked PROVE CommitRecordIn(c, TakenOut')
    BY DEF AckedLeftBuffer, TakenOut, CommitRecordIn
  <1>2. CommitRecordIn(c, TakenOut)
    BY DEF AckedLeftBuffer, TakenOut
  <1> QED
    BY <1>1, <1>2, CommitRecordStays

\* The commit record of a thread's transaction stays where it was seen.
LEMMA OwnCommitStays ==
  ASSUME TypeOK, Control, NEW r \in Seq(Record), TakenOut' = TakenOut \o r,
         NEW a \in Seq(Record), appended' = appended \o a,
         NEW u \in Threads, trx'[u].n = trx[u].n
  PROVE  /\ CommitRecordIn(CurrentTrx(u), appended) => CommitRecordIn(CurrentTrx(u), appended)'
         /\ CommitRecordIn(CurrentTrx(u), TakenOut) => CommitRecordIn(CurrentTrx(u), TakenOut)'
  <1>1. TakenOut \in Seq(Record) /\ appended \in Seq(Record)
    BY TakenOutType DEF TypeOK
  <1>2. CurrentTrx(u)' = CurrentTrx(u)
    BY DEF CurrentTrx
  <1>3. CommitRecordIn(CurrentTrx(u), appended) => CommitRecordIn(CurrentTrx(u), appended \o a)
    BY <1>1, CommitRecordStays
  <1>4. CommitRecordIn(CurrentTrx(u), TakenOut) => CommitRecordIn(CurrentTrx(u), TakenOut \o r)
    BY <1>1, CommitRecordStays
  <1> QED
    BY <1>2, <1>3, <1>4 DEF CommitRecordIn

-----------------------------------------------------------------------------
(* The sizes as weights of sets.                                           *)

Data == {rec \in Record : rec.type = "DATA"}
Commits == {rec \in Record : rec.type /= "DATA"}

PoppedData == {t \in Unaccounted : hand[t].type = "DATA"}
PoppedCommits == {t \in Unaccounted : hand[t].type /= "DATA"}
PushedData == {t \in Pushing : hand[t].type = "DATA"}
PushedCommits == {t \in Pushing : hand[t].type /= "DATA"}

\* The sets the sizes are taken of are finite, and the sizes are weights.
LEMMA SizesAreWeights ==
  ASSUME log_records \in Seq(Record)
  PROVE  /\ SizeOf(DOMAIN log_records) = Weight(Places(log_records, Data), Places(log_records, Commits))
         /\ PoppedSize = Weight(PoppedData, PoppedCommits)
         /\ PushSize = Weight(PushedData, PushedCommits)
         /\ \A S \in {PoppedData, PoppedCommits, PushedData, PushedCommits} : IsFiniteSet(S)
         /\ \A P \in {Data, Commits} : IsFiniteSet(Places(log_records, P))
  <1>1. \A i \in DOMAIN log_records : log_records[i] \in Record
    BY LenProperties, ElementOfSeq
  <1>2. /\ Places(log_records, Data) = {i \in DOMAIN log_records : log_records[i].type = "DATA"}
        /\ Places(log_records, Commits) = {i \in DOMAIN log_records : log_records[i].type /= "DATA"}
    BY <1>1 DEF Places, Data, Commits
  <1>3. SizeOf(DOMAIN log_records) = Weight(Places(log_records, Data), Places(log_records, Commits))
    BY <1>2 DEF SizeOf, Weight
  <1>4. PoppedSize = Weight(PoppedData, PoppedCommits) /\ PushSize = Weight(PushedData, PushedCommits)
    BY DEF PoppedSize, PushSize, Weight, PoppedData, PoppedCommits, PushedData, PushedCommits
  <1>5. /\ IsFiniteSet(PoppedData) /\ IsFiniteSet(PoppedCommits)
        /\ IsFiniteSet(PushedData) /\ IsFiniteSet(PushedCommits)
    <2>1. /\ PoppedData \in SUBSET Threads /\ PoppedCommits \in SUBSET Threads
          /\ PushedData \in SUBSET Threads /\ PushedCommits \in SUBSET Threads
      BY DEF PoppedData, PoppedCommits, PushedData, PushedCommits, Unaccounted, Pushing
    <2> QED
      BY <2>1, FS_Subset, SizesAssumption
  <1>6. \A P \in {Data, Commits} : IsFiniteSet(Places(log_records, P))
    BY PlacesFinite
  <1> QED
    BY <1>3, <1>4, <1>5, <1>6

\* The size of the records about to be pushed is a number.
LEMMA PushSizeType ==
  ASSUME log_records \in Seq(Record)
  PROVE  PushSize \in Nat
  <1>1. /\ PushSize = Weight(PushedData, PushedCommits)
        /\ IsFiniteSet(PushedData) /\ IsFiniteSet(PushedCommits)
    BY SizesAreWeights
  <1> QED
    BY <1>1, WeightFacts

\* A step that leaves the list and the records in the threads' hands alone, and
\* lets nobody pass the capacity check, keeps the accounts.
LEMMA AccountsKept ==
  ASSUME SizeAccounted, PushBound, log_records' = log_records, total_size' = total_size,
         Unaccounted' = Unaccounted, Pushing' = Pushing,
         \A u \in Unaccounted \cup Pushing : hand'[u] = hand[u]
  PROVE  SizeAccounted' /\ PushBound'
  <1>1. SizeAccounted'
    BY DEF SizeAccounted, SizeOf, PoppedSize
  <1>2. PushSize' = PushSize
    BY DEF PushSize
  <1> QED
    BY <1>1, <1>2 DEF PushBound

-----------------------------------------------------------------------------
(* The invariant holds initially and is kept by every action.              *)

\* An empty buffer and an empty file satisfy the invariant.
LEMMA InvInit == Init => IInv
  <1> SUFFICES ASSUME Init PROVE IInv
    OBVIOUS
  <1>1. TypeOK
    <2>1. <<>> \in Seq(Record) /\ Len(<<>>) = 0
      BY EmptySeq
    <2> QED
      BY <2>1, SizesAssumption DEF Init, TypeOK
  <1>2. Control /\ CommitsFollowed
    BY SizesAssumption DEF Init, Control, CommitsFollowed
  <1>3. FileKeepsOrder /\ AckedLeftBuffer
    BY DEF Init, FileKeepsOrder, AckedLeftBuffer, InHand
  <1>4. SizeOf(DOMAIN log_records) = 0 /\ PoppedSize = 0 /\ PushSize = 0
    <2>1. /\ Places(log_records, Data) = {} /\ Places(log_records, Commits) = {}
          /\ PoppedData = {} /\ PoppedCommits = {} /\ PushedData = {} /\ PushedCommits = {}
      BY DEF Init, Places, PoppedData, PoppedCommits, PushedData, PushedCommits, Unaccounted, Pushing
    <2>2. Weight({}, {}) = 0
      BY FS_EmptySet, SizesAssumption DEF Weight
    <2> QED
      BY <1>1, <2>1, <2>2, SizesAreWeights DEF TypeOK
  <1>5. SizeAccounted
    BY <1>4 DEF Init, SizeAccounted
  <1>6. PushBound
    <2>1. Cardinality(Threads) \in Nat \ {0}
      BY FS_CardinalityType, FS_EmptySet, SizesAssumption
    <2>2. (Cardinality(Threads) - 1) * DataLen \in Nat
      BY <2>1, SizesAssumption
    <2> QED
      BY <1>4, <2>2, SizesAssumption DEF Init, PushBound
  <1> QED
    BY <1>1, <1>2, <1>3, <1>5, <1>6 DEF IInv

\* append_log_record up to its lock keeps the invariant: the thread joins those
\* that will push, whose sizes the bound on total_size_ counts already.
LEMMA AppendCheckKeeps ==
  ASSUME IInv, NEW t \in Threads, NEW type \in {"DATA", "MTR_COMMIT"}, AppendCheck(t, type)
  PROVE  IInv'
  <1> USE DEF AppendCheck, Goto, Hold, bufferVars, fileVars, historyVars
  <1> DEFINE rec == NextRecord(t, type)
  <1>0. TypeOK /\ Control /\ pc[t] = "ready"
    BY DEF IInv
  <1>1. rec \in Record /\ rec.type = type /\ rec.thread = t /\ rec.n = trx[t].n
    BY <1>0, SizesAssumption, SMTT(60) DEF TypeOK, Record, NextRecord
  <1> HIDE DEF rec
  <1>2. hand' = [hand EXCEPT ![t] = rec] /\ pc' = [pc EXCEPT ![t] = "push"]
    BY DEF rec
  <1>3. trx' \in [Threads -> [n : 1 .. MaxTrx + 1, logged : 0 .. MaxData]]
    <2>1. CASE type = "DATA"
      <3>1. trx' = [trx EXCEPT ![t] = [trx[t] EXCEPT !.logged = @ + 1]] /\ trx[t].logged < MaxData
        BY <2>1
      <3>2. trx[t] \in [n : 1 .. MaxTrx + 1, logged : 0 .. MaxData]
        BY <1>0 DEF TypeOK
      <3>3. [trx[t] EXCEPT !.logged = @ + 1] \in [n : 1 .. MaxTrx + 1, logged : 0 .. MaxData]
        BY <3>1, <3>2, SizesAssumption
      <3> QED
        BY <1>0, <3>1, <3>3 DEF TypeOK
    <2>2. CASE type /= "DATA"
      BY <1>0, <2>2 DEF TypeOK
    <2> QED
      BY <2>1, <2>2
  <1>4. TypeOK'
    BY <1>0, <1>1, <1>2, <1>3, SMTT(60) DEF TypeOK
  <1>5. \A u \in Threads : trx'[u].n = trx[u].n
    BY <1>0 DEF TypeOK
  <1>6. Control'
    BY <1>0, <1>1, <1>2, <1>5 DEF Control, TypeOK
  <1>7. InHand' = InHand
    BY <1>0, <1>2 DEF InHand, TypeOK, Control
  <1>8. TakenOut' = TakenOut \o <<>> /\ appended' = appended \o <<>>
    BY <1>0, <1>7, TakenOutType, ConcatEmptySeq DEF TakenOut, TypeOK
  <1>9. <<>> \in Seq(Record)
    BY EmptySeq
  <1>10. CommitsFollowed'
    BY <1>0, <1>2, <1>5, <1>8, <1>9, OwnCommitStays DEF IInv, CommitsFollowed, TypeOK
  <1>11. FileKeepsOrder'
    BY <1>7 DEF IInv, FileKeepsOrder
  <1>12. AckedLeftBuffer'
    BY <1>0, <1>8, <1>9, AckedStay DEF IInv
  <1>13. SizeAccounted'
    BY <1>0, <1>2, ZenonT(60) DEF IInv, SizeAccounted, SizeOf, PoppedSize, Unaccounted, TypeOK
  <1>14. PushBound'
    <2>1. total_size + logrec_len(rec) < Capacity
      BY DEF Fits, rec
    <2>2. /\ Weight(PushedData', PushedCommits') = Weight(PushedData, PushedCommits) + logrec_len(rec)
          /\ Weight(PushedData, PushedCommits) \in Nat
      <3>1. IsFiniteSet(PushedData) /\ IsFiniteSet(PushedCommits)
        BY <1>0, SizesAreWeights DEF TypeOK
      <3>2. t \notin PushedData /\ t \notin PushedCommits
        BY <1>0 DEF PushedData, PushedCommits, Pushing
      <3>3. CASE type = "DATA"
        <4>1. PushedData' = PushedData \cup {t} /\ PushedCommits' = PushedCommits
          BY <1>0, <1>1, <1>2, <3>3 DEF PushedData, PushedCommits, Pushing, TypeOK
        <4> QED
          BY <1>1, <3>1, <3>2, <3>3, <4>1, WeightFacts DEF logrec_len
      <3>4. CASE type /= "DATA"
        <4>1. PushedData' = PushedData /\ PushedCommits' = PushedCommits \cup {t}
          BY <1>0, <1>1, <1>2, <3>4 DEF PushedData, PushedCommits, Pushing, TypeOK
        <4> QED
          BY <1>1, <3>1, <3>2, <3>4, <4>1, WeightFacts DEF logrec_len
      <3> QED
        BY <3>3, <3>4
    <2>3. Weight(PushedData, PushedCommits) <= (Cardinality(Threads) - 1) * DataLen
      <3>1. /\ IsFiniteSet(PushedData) /\ IsFiniteSet(PushedCommits)
            /\ PushedData \cap PushedCommits = {}
            /\ PushedData \cup PushedCommits \in SUBSET (Threads \ {t})
        BY <1>0, SizesAreWeights DEF TypeOK, PushedData, PushedCommits, Pushing
      <3>2. /\ IsFiniteSet(Threads \ {t}) /\ Cardinality(Threads \ {t}) = Cardinality(Threads) - 1
            /\ Cardinality(Threads) \in Nat
        BY FS_RemoveElement, FS_CardinalityType, SizesAssumption
      <3>3. Cardinality(PushedData \cup PushedCommits) <= Cardinality(Threads) - 1
        BY <3>1, <3>2, FS_Subset
      <3>4. /\ Cardinality(PushedData) + Cardinality(PushedCommits) <= Cardinality(Threads) - 1
            /\ Cardinality(PushedData) \in Nat /\ Cardinality(PushedCommits) \in Nat
        <4>1. Cardinality(PushedData) \in Nat /\ Cardinality(PushedCommits) \in Nat
          BY <3>1, FS_CardinalityType
        <4>2. Cardinality(PushedData \cap PushedCommits) = 0
          BY <3>1, FS_EmptySet
        <4>3. Cardinality(PushedData \cup PushedCommits)
                = Cardinality(PushedData) + Cardinality(PushedCommits) - Cardinality(PushedData \cap PushedCommits)
          BY <3>1, FS_Union
        <4> QED
          BY <3>3, <4>1, <4>2, <4>3
      <3>5. \A a, b, n, c, d \in Nat : c <= d /\ a + b <= n => a * d + b * c <= n * d
        <4> SUFFICES ASSUME NEW a \in Nat, NEW b \in Nat, NEW n \in Nat, NEW c \in Nat, NEW d \in Nat,
                            c <= d, a + b <= n
                     PROVE  a * d + b * c <= n * d
          OBVIOUS
        <4>1. b * c <= b * d
          OBVIOUS
        <4>2. (a + b) * d <= n * d
          OBVIOUS
        <4> QED
          BY <4>1, <4>2
      <3>6. Cardinality(Threads) - 1 \in Nat /\ CommitLen \in Nat /\ DataLen \in Nat /\ CommitLen <= DataLen
        BY <3>2, <3>4, SizesAssumption
      <3> HIDE DEF PushedData, PushedCommits
      <3> QED
        BY <3>4, <3>5, <3>6 DEF Weight
    <2>4. PushSize' = Weight(PushedData', PushedCommits')
      BY DEF PushSize, Weight, PushedData, PushedCommits
    <2>5. /\ total_size' = total_size /\ total_size \in Nat /\ logrec_len(rec) \in Nat
          /\ (Cardinality(Threads) - 1) * DataLen \in Int
      BY <1>0, FS_CardinalityType, SizesAssumption, SMTT(60) DEF TypeOK, logrec_len
    <2> QED
      BY <2>1, <2>2, <2>3, <2>4, <2>5, SizesAssumption DEF PushBound
  <1> QED
    BY <1>4, <1>6, <1>10, <1>11, <1>12, <1>13, <1>14 DEF IInv

\* The transaction counters keep their type when a transaction logs a record or
\* ends.
LEMMA TrxType ==
  ASSUME TypeOK, NEW t \in Threads, trx[t].n <= MaxTrx
  PROVE  /\ EndTrx(t) => trx' \in [Threads -> [n : 1 .. MaxTrx + 1, logged : 0 .. MaxData]]
         /\ trx[t].logged < MaxData =>
              [trx EXCEPT ![t].logged = @ + 1] \in [Threads -> [n : 1 .. MaxTrx + 1, logged : 0 .. MaxData]]
  <1>1. trx[t] \in [n : 1 .. MaxTrx + 1, logged : 0 .. MaxData]
    BY DEF TypeOK
  <1>2. [n |-> trx[t].n + 1, logged |-> 0] \in [n : 1 .. MaxTrx + 1, logged : 0 .. MaxData]
    BY <1>1, SizesAssumption
  <1>3. trx[t].logged < MaxData => [trx[t] EXCEPT !.logged = @ + 1] \in [n : 1 .. MaxTrx + 1, logged : 0 .. MaxData]
    BY <1>1, SizesAssumption
  <1>4. EndTrx(t) => trx' \in [Threads -> [n : 1 .. MaxTrx + 1, logged : 0 .. MaxData]]
    BY <1>2 DEF EndTrx, TypeOK
  <1> QED
    BY <1>3, <1>4 DEF TypeOK

\* append_log_record that returns LOGBUF_FULL keeps the invariant: it changes
\* nothing but the transaction.
LEMMA AppendFullKeeps ==
  ASSUME IInv, NEW t \in Threads, NEW type \in {"DATA", "MTR_COMMIT"}, AppendFull(t, type)
  PROVE  IInv'
  <1> USE DEF AppendFull, bufferVars, fileVars, historyVars
  <1>0. TypeOK /\ Control /\ pc[t] = "ready" /\ trx[t].n <= MaxTrx
    BY DEF IInv
  <1>1. trx' \in [Threads -> [n : 1 .. MaxTrx + 1, logged : 0 .. MaxData]]
    BY <1>0, TrxType
  <1>2. TypeOK'
    BY <1>0, <1>1 DEF TypeOK
  <1>3. \A u \in Threads : pc[u] /= "ready" => trx'[u] = trx[u]
    BY <1>0 DEF TypeOK, EndTrx
  <1>4. Control'
    BY <1>0, <1>3 DEF Control
  <1>5. InHand' = InHand
    BY DEF InHand
  <1>6. TakenOut' = TakenOut \o <<>> /\ appended' = appended \o <<>>
    BY <1>0, <1>5, TakenOutType, ConcatEmptySeq DEF TakenOut, TypeOK
  <1>7. <<>> \in Seq(Record)
    BY EmptySeq
  <1>8. CommitsFollowed'
    BY <1>0, <1>3, <1>6, <1>7, OwnCommitStays DEF IInv, CommitsFollowed
  <1>9. FileKeepsOrder'
    BY <1>5 DEF IInv, FileKeepsOrder
  <1>10. AckedLeftBuffer'
    BY <1>0, <1>6, <1>7, AckedStay DEF IInv
  <1>11. SizeAccounted' /\ PushBound'
    BY AccountsKept DEF IInv, Unaccounted, Pushing
  <1> QED
    BY <1>2, <1>4, <1>8, <1>9, <1>10, <1>11 DEF IInv

\* The locked part of append_log_record keeps the invariant: the record goes to
\* the end of the list, and its size from those about to be pushed into
\* total_size_.
LEMMA AppendPushKeeps ==
  ASSUME IInv, NEW t \in Threads, AppendPush(t)
  PROVE  IInv'
  <1> USE DEF AppendPush, Goto, Hold, fileVars
  <1> DEFINE rec == hand[t]
  <1>0. TypeOK /\ Control /\ pc[t] = "push"
    BY DEF IInv
  <1>1. /\ rec \in Record /\ rec.thread = t /\ rec.n = trx[t].n /\ trx[t].n <= MaxTrx
        /\ rec.type \in {"DATA", "MTR_COMMIT"}
    BY <1>0 DEF Control, Record
  <1>2. logrec_len(rec) \in Nat
    BY SizesAssumption DEF logrec_len
  <1>3. TypeOK'
    BY <1>0, <1>1, <1>2, AppendProperties DEF TypeOK
  <1>4. Control'
    BY <1>0, <1>1, SizesAssumption, SMTT(60) DEF Control, TypeOK
  <1>5. InHand = <<>> /\ InHand' = <<>>
    BY DEF InHand
  <1>6. TakenOut' = TakenOut \o <<>> /\ appended' = appended \o <<rec>>
    BY <1>0, <1>1, <1>5, TakenOutType, ConcatEmptySeq, AppendIsConcat DEF TakenOut, TypeOK
  <1>7. <<>> \in Seq(Record) /\ <<rec>> \in Seq(Record)
    BY <1>1, EmptySeq
  <1>8. rec.type /= "DATA" => CommitRecordIn(CurrentTrx(t), appended')
    <2>1. /\ Len(appended) + 1 \in DOMAIN appended'
          /\ appended'[Len(appended) + 1] = rec
      BY <1>0, <1>1, AppendProperties, LenProperties DEF TypeOK
    <2> QED
      BY <1>1, <2>1 DEF CommitRecordIn, CurrentTrx
  <1>9. CommitsFollowed'
    <2> SUFFICES ASSUME NEW u \in Threads
                 PROVE  /\ pc'[u] \in {"check", "pop", "write", "subtract", "sync"}
                             => CommitRecordIn(CurrentTrx(u), appended)'
                        /\ pc'[u] = "sync" => CommitRecordIn(CurrentTrx(u), TakenOut)'
      BY DEF CommitsFollowed
    <2>1. CASE u = t
      <3>1. CommitRecordIn(CurrentTrx(t), appended)' <=> CommitRecordIn(CurrentTrx(t), appended')
        BY DEF CommitRecordIn, CurrentTrx
      <3> QED
        BY <1>0, <1>8, <2>1, <3>1 DEF TypeOK
    <2>2. CASE u /= t
      BY <1>0, <1>6, <1>7, <2>2, OwnCommitStays DEF IInv, CommitsFollowed, TypeOK
    <2> QED
      BY <2>1, <2>2
  <1>10. FileKeepsOrder'
    <2>1. appended = TakenOut \o log_records
      BY DEF IInv, FileKeepsOrder, TakenOut
    <2>2. TakenOut \in Seq(Record) /\ log_records \in Seq(Record)
      BY <1>0, TakenOutType DEF TypeOK
    <2>3. appended \o <<rec>> = TakenOut \o (log_records \o <<rec>>)
      BY <1>7, <2>1, <2>2, ConcatAssociative, SMTT(60)
    <2>4. log_records' = log_records \o <<rec>>
      BY <1>1, <2>2, AppendIsConcat
    <2>5. TakenOut' = TakenOut
      BY <1>6, <2>2, ConcatEmptySeq
    <2> QED
      BY <1>6, <2>3, <2>4, <2>5 DEF FileKeepsOrder, TakenOut
  <1>11. AckedLeftBuffer'
    BY <1>0, <1>6, <1>7, AckedStay DEF IInv
  <1>12. SizeOf(DOMAIN log_records)' = SizeOf(DOMAIN log_records) + logrec_len(rec) /\ SizeOf(DOMAIN log_records) \in Nat
    <2> DEFINE D == Places(log_records, Data)
               C == Places(log_records, Commits)
               e == Len(log_records) + 1
    <2>1. log_records \in Seq(Record) /\ log_records' \in Seq(Record)
      BY <1>0, <1>3 DEF TypeOK
    <2>2. /\ SizeOf(DOMAIN log_records) = Weight(D, C)
          /\ IsFiniteSet(D) /\ IsFiniteSet(C)
      BY <2>1, SizesAreWeights
    <2>3. SizeOf(DOMAIN log_records)' = Weight(Places(log_records', Data), Places(log_records', Commits))
      <3>1. \A i \in DOMAIN log_records' : log_records'[i] \in Record
        BY <2>1, LenProperties, ElementOfSeq
      <3>2. /\ Places(log_records', Data) = {i \in DOMAIN log_records' : log_records'[i].type = "DATA"}
            /\ Places(log_records', Commits) = {i \in DOMAIN log_records' : log_records'[i].type /= "DATA"}
        BY <3>1 DEF Places, Data, Commits
      <3> QED
        BY <3>2 DEF SizeOf, Weight
    <2>4. /\ e \notin D /\ e \notin C
          /\ Places(log_records', Data) = IF rec \in Data THEN D \cup {e} ELSE D
          /\ Places(log_records', Commits) = IF rec \in Commits THEN C \cup {e} ELSE C
      <3>1. log_records' = Append(log_records, rec)
        OBVIOUS
      <3> HIDE DEF rec
      <3> QED
        BY <1>1, <2>1, <3>1, PlacesAppend
    <2>5. /\ Weight(D, C) \in Nat
          /\ Weight(D \cup {e}, C) = Weight(D, C) + DataLen
          /\ Weight(D, C \cup {e}) = Weight(D, C) + CommitLen
      <3> HIDE DEF D, C, e
      <3>1. Weight(D, C) \in Nat
        BY <2>2, WeightFacts
      <3>2. Weight(D \cup {e}, C) = Weight(D, C) + DataLen
        BY <2>2, <2>4, WeightFacts
      <3>3. Weight(D, C \cup {e}) = Weight(D, C) + CommitLen
        BY <2>2, <2>4, WeightFacts
      <3> QED
        BY <3>1, <3>2, <3>3
    <2> HIDE DEF D, C, e
    <2> QED
      BY <1>1, <2>2, <2>3, <2>4, <2>5 DEF logrec_len, Data, Commits
  <1>13. PoppedSize' = PoppedSize /\ PoppedSize \in Nat
    <2>1. Unaccounted' = Unaccounted /\ \A u \in Unaccounted : hand'[u] = hand[u]
      BY <1>0 DEF Unaccounted, TypeOK
    <2>2. PoppedSize' = PoppedSize
      BY <2>1 DEF PoppedSize
    <2>3. /\ PoppedSize = Weight(PoppedData, PoppedCommits)
          /\ IsFiniteSet(PoppedData) /\ IsFiniteSet(PoppedCommits)
      BY <1>0, SizesAreWeights DEF TypeOK
    <2> QED
      BY <2>2, <2>3, WeightFacts
  <1>14. SizeAccounted'
    BY <1>0, <1>2, <1>12, <1>13 DEF IInv, SizeAccounted, TypeOK
  <1>15. PushSize' = PushSize - logrec_len(rec) /\ PushSize \in Nat
    <2>1. /\ PushSize = Weight(PushedData, PushedCommits)
          /\ IsFiniteSet(PushedData) /\ IsFiniteSet(PushedCommits)
      BY <1>0, SizesAreWeights DEF TypeOK
    <2>2. PushSize' = Weight(PushedData', PushedCommits')
      BY DEF PushSize, Weight, PushedData, PushedCommits
    <2>3. PushedData' = PushedData \ {t} /\ PushedCommits' = PushedCommits \ {t}
      BY <1>0 DEF PushedData, PushedCommits, Pushing, TypeOK
    <2>4. IF rec.type = "DATA" THEN t \in PushedData /\ t \notin PushedCommits
                               ELSE t \in PushedCommits /\ t \notin PushedData
      BY <1>0 DEF PushedData, PushedCommits, Pushing
    <2>5. /\ Weight(PushedData, PushedCommits) \in Nat
          /\ t \in PushedData => Weight(PushedData \ {t}, PushedCommits) = Weight(PushedData, PushedCommits) - DataLen
          /\ t \in PushedCommits => Weight(PushedData, PushedCommits \ {t}) = Weight(PushedData, PushedCommits) - CommitLen
      <3>1. Weight(PushedData, PushedCommits) \in Nat
        BY <2>1, WeightFacts
      <3>2. ASSUME t \in PushedData
            PROVE  Weight(PushedData \ {t}, PushedCommits) = Weight(PushedData, PushedCommits) - DataLen
        BY <2>1, <3>2, WeightLessData
      <3>3. ASSUME t \in PushedCommits
            PROVE  Weight(PushedData, PushedCommits \ {t}) = Weight(PushedData, PushedCommits) - CommitLen
        BY <2>1, <3>3, WeightLessCommit
      <3> QED
        BY <3>1, <3>2, <3>3
    <2>6. /\ t \notin PushedData => PushedData \ {t} = PushedData
          /\ t \notin PushedCommits => PushedCommits \ {t} = PushedCommits
      OBVIOUS
    <2> HIDE DEF PushedData, PushedCommits
    <2> QED
      BY <2>1, <2>2, <2>3, <2>4, <2>5, <2>6 DEF logrec_len
  <1>16. PushBound'
    BY <1>0, <1>2, <1>15, SMTT(60) DEF IInv, PushBound, TypeOK
  <1> QED
    BY <1>3, <1>4, <1>9, <1>10, <1>11, <1>14, <1>16 DEF IInv

\* The loop's test keeps the invariant: when it finds the list empty, every
\* record accepted so far has been taken out.
LEMMA FlushCheckKeeps ==
  ASSUME IInv, NEW t \in Threads, FlushCheck(t)
  PROVE  IInv'
  <1> USE DEF FlushCheck, Goto, bufferVars, fileVars, historyVars
  <1>0. TypeOK /\ Control /\ pc[t] = "check"
    BY DEF IInv
  <1>1. TypeOK'
    BY <1>0 DEF TypeOK
  <1>2. Control'
    BY <1>0, SizesAssumption DEF Control, TypeOK
  <1>3. InHand' = InHand
    BY DEF InHand
  <1>4. TakenOut' = TakenOut \o <<>> /\ appended' = appended \o <<>> /\ <<>> \in Seq(Record)
    BY <1>0, <1>3, TakenOutType, ConcatEmptySeq, EmptySeq DEF TakenOut, TypeOK
  <1>5. log_records = <<>> => appended = TakenOut
    BY <1>0, TakenOutType, ConcatEmptySeq DEF IInv, FileKeepsOrder, TakenOut
  <1>6. CommitsFollowed'
    <2> SUFFICES ASSUME NEW u \in Threads
                 PROVE  /\ pc'[u] \in {"check", "pop", "write", "subtract", "sync"}
                             => CommitRecordIn(CurrentTrx(u), appended)'
                        /\ pc'[u] = "sync" => CommitRecordIn(CurrentTrx(u), TakenOut)'
      BY DEF CommitsFollowed
    <2>1. /\ CommitRecordIn(CurrentTrx(u), appended) => CommitRecordIn(CurrentTrx(u), appended)'
          /\ CommitRecordIn(CurrentTrx(u), TakenOut) => CommitRecordIn(CurrentTrx(u), TakenOut)'
      BY <1>0, <1>4, OwnCommitStays
    <2>2. CASE u = t
      <3>1. CommitRecordIn(CurrentTrx(t), appended)
        BY <1>0 DEF IInv, CommitsFollowed
      <3>2. pc'[t] = "sync" => CommitRecordIn(CurrentTrx(t), TakenOut)
        BY <1>0, <1>5, <3>1 DEF TypeOK
      <3> QED
        BY <2>1, <2>2, <3>1, <3>2
    <2>3. CASE u /= t
      <3>1. pc'[u] = pc[u]
        BY <1>0, <2>3 DEF TypeOK
      <3> QED
        BY <2>1, <3>1 DEF IInv, CommitsFollowed
    <2> QED
      BY <2>2, <2>3
  <1>7. FileKeepsOrder'
    BY <1>3 DEF IInv, FileKeepsOrder
  <1>8. AckedLeftBuffer'
    BY <1>0, <1>4, AckedStay DEF IInv
  <1>9. SizeAccounted' /\ PushBound'
    <2>1. Unaccounted' = Unaccounted /\ Pushing' = Pushing
      BY <1>0 DEF Unaccounted, Pushing, TypeOK
    <2> QED
      BY <2>1, AccountsKept DEF IInv
  <1> QED
    BY <1>1, <1>2, <1>6, <1>7, <1>8, <1>9 DEF IInv

\* A commit that returns SUCCESS keeps the invariant, if its record has been
\* taken out of the list.
LEMMA AcknowledgeKeeps ==
  ASSUME IInv, NEW t \in Threads, pc[t] \in {"pop", "sync"}, CommitRecordIn(CurrentTrx(t), TakenOut),
         Acknowledge(t), UNCHANGED <<log_records, total_size, lock, hand, file, appended>>,
         synced' \in 0 .. Len(file)
  PROVE  IInv'
  <1> USE DEF Acknowledge, Goto
  <1>0. TypeOK /\ Control /\ trx[t].n <= MaxTrx
    BY DEF IInv, Control
  <1>1. trx' \in [Threads -> [n : 1 .. MaxTrx + 1, logged : 0 .. MaxData]]
    BY <1>0, TrxType
  <1>2. CurrentTrx(t) \in Trx
    BY <1>0, SizesAssumption DEF TypeOK, CurrentTrx, Trx
  <1>3. TypeOK'
    BY <1>0, <1>1, <1>2 DEF TypeOK
  <1>4. \A u \in Threads \ {t} : trx'[u] = trx[u] /\ pc'[u] = pc[u]
    BY <1>0 DEF EndTrx, TypeOK
  <1>5. pc'[t] = "ready"
    BY <1>0 DEF TypeOK
  <1>6. Control'
    BY <1>0, <1>4, <1>5 DEF Control
  <1>7. InHand' = InHand
    BY DEF InHand
  <1>8. TakenOut' = TakenOut
    BY <1>7 DEF TakenOut
  <1>9. TakenOut' = TakenOut \o <<>> /\ appended' = appended \o <<>> /\ <<>> \in Seq(Record)
    BY <1>0, <1>8, TakenOutType, ConcatEmptySeq, EmptySeq DEF TypeOK
  <1>10. CommitsFollowed'
    BY <1>0, <1>4, <1>5, <1>9, OwnCommitStays DEF IInv, CommitsFollowed
  <1>11. FileKeepsOrder'
    BY <1>7 DEF IInv, FileKeepsOrder
  <1>12. AckedLeftBuffer'
    <2> SUFFICES ASSUME NEW c \in acked' PROVE CommitRecordIn(c, TakenOut)
      BY <1>8 DEF AckedLeftBuffer, TakenOut, CommitRecordIn
    <2> QED
      BY DEF IInv, AckedLeftBuffer, TakenOut
  <1>13. SizeAccounted' /\ PushBound'
    <2>1. Unaccounted' = Unaccounted /\ Pushing' = Pushing
      BY <1>4, <1>5 DEF Unaccounted, Pushing
    <2> QED
      BY <2>1, AccountsKept DEF IInv
  <1> QED
    BY <1>3, <1>6, <1>10, <1>11, <1>12, <1>13 DEF IInv

\* flush_buffer that finds the list empty under the lock keeps the invariant.
LEMMA FlushEmptyKeeps ==
  ASSUME IInv, NEW t \in Threads, FlushEmpty(t)
  PROVE  IInv'
  <1>1. TypeOK /\ Control
    BY DEF IInv
  <1>2. appended = TakenOut
    BY <1>1, TakenOutType, ConcatEmptySeq DEF IInv, FileKeepsOrder, TakenOut, FlushEmpty
  <1>3. CommitRecordIn(CurrentTrx(t), TakenOut)
    BY <1>2 DEF IInv, CommitsFollowed, FlushEmpty
  <1>4. synced' \in 0 .. Len(file)
    BY <1>1 DEF TypeOK, FlushEmpty, fileVars
  <1> QED
    BY <1>3, <1>4, AcknowledgeKeeps DEF FlushEmpty, bufferVars, fileVars

\* CLogFile::sync and the return of commit_trx keep the invariant.
LEMMA FlushSyncKeeps ==
  ASSUME IInv, NEW t \in Threads, FlushSync(t)
  PROVE  IInv'
  <1>1. CommitRecordIn(CurrentTrx(t), TakenOut)
    BY DEF IInv, CommitsFollowed, FlushSync
  <1>2. synced' \in 0 .. Len(file)
    BY LenProperties DEF IInv, TypeOK, FlushSync
  <1> QED
    BY <1>1, <1>2, AcknowledgeKeeps DEF FlushSync, bufferVars

\* Taking the first record out of the list under the lock keeps the invariant:
\* it is the next one the file gets.
LEMMA FlushPopKeeps ==
  ASSUME IInv, NEW t \in Threads, FlushPop(t)
  PROVE  IInv'
  <1> USE DEF FlushPop, Goto, Hold, fileVars, historyVars
  <1> DEFINE rec == Head(log_records)
  <1>0. TypeOK /\ Control /\ pc[t] = "pop" /\ log_records \in Seq(Record) /\ log_records /= <<>>
    BY DEF IInv, TypeOK
  <1>1. rec \in Record /\ Tail(log_records) \in Seq(Record)
    BY <1>0, HeadTailProperties
  <1>2. TypeOK'
    BY <1>0, <1>1 DEF TypeOK
  <1>3. Control'
    BY <1>0, <1>1, SizesAssumption DEF Control, TypeOK
  <1>4. InHand = <<>> /\ InHand' = <<rec>>
    BY <1>0, SizesAssumption DEF InHand, TypeOK
  <1>5. TakenOut = file /\ TakenOut' = file \o <<rec>>
    BY <1>0, <1>4, ConcatEmptySeq DEF TakenOut, TypeOK
  <1>6. TakenOut' = TakenOut \o <<rec>> /\ appended' = appended \o <<>>
        /\ <<rec>> \in Seq(Record) /\ <<>> \in Seq(Record)
    BY <1>0, <1>1, <1>5, ConcatEmptySeq, EmptySeq DEF TypeOK
  <1>7. CommitsFollowed'
    <2> SUFFICES ASSUME NEW u \in Threads
                 PROVE  /\ pc'[u] \in {"check", "pop", "write", "subtract", "sync"}
                             => CommitRecordIn(CurrentTrx(u), appended)'
                        /\ pc'[u] = "sync" => CommitRecordIn(CurrentTrx(u), TakenOut)'
      BY DEF CommitsFollowed
    <2>1. /\ CommitRecordIn(CurrentTrx(u), appended) => CommitRecordIn(CurrentTrx(u), appended)'
          /\ CommitRecordIn(CurrentTrx(u), TakenOut) => CommitRecordIn(CurrentTrx(u), TakenOut)'
      BY <1>0, <1>6, OwnCommitStays
    <2>2. pc'[u] = IF u = t THEN "write" ELSE pc[u]
      BY <1>0 DEF TypeOK
    <2> QED
      BY <1>0, <2>1, <2>2 DEF IInv, CommitsFollowed
  <1>8. FileKeepsOrder'
    <2>1. appended = file \o log_records
      BY <1>5 DEF IInv, FileKeepsOrder, TakenOut
    <2>2. log_records = <<rec>> \o Tail(log_records)
      BY <1>0, HeadThenTail
    <2>3. file \o (<<rec>> \o Tail(log_records)) = (file \o <<rec>>) \o Tail(log_records)
      <3>1. file \in Seq(Record)
        BY <1>0 DEF TypeOK
      <3> HIDE DEF rec, FlushPop
      <3> QED
        BY <1>1, <1>6, <3>1, ConcatAssociative, SMTT(60)
    <2> QED
      BY <1>4, <2>1, <2>2, <2>3 DEF FileKeepsOrder
  <1>9. AckedLeftBuffer'
    BY <1>0, <1>6, AckedStay DEF IInv
  <1>10. /\ SizeOf(DOMAIN log_records)' = SizeOf(DOMAIN log_records) - logrec_len(rec)
         /\ SizeOf(DOMAIN log_records) \in Nat
    <2> DEFINE D == Places(log_records, Data)
               C == Places(log_records, Commits)
    <2>1. SizeOf(DOMAIN log_records) = Weight(D, C) /\ IsFiniteSet(D) /\ IsFiniteSet(C)
      BY <1>0, SizesAreWeights
    <2>2. SizeOf(DOMAIN log_records)' = Weight(Places(log_records', Data), Places(log_records', Commits))
      <3>1. \A i \in DOMAIN log_records' : log_records'[i] \in Record
        BY <1>1, LenProperties, ElementOfSeq
      <3>2. /\ Places(log_records', Data) = {i \in DOMAIN log_records' : log_records'[i].type = "DATA"}
            /\ Places(log_records', Commits) = {i \in DOMAIN log_records' : log_records'[i].type /= "DATA"}
        BY <3>1 DEF Places, Data, Commits
      <3> QED
        BY <3>2 DEF SizeOf, Weight
    <2>3. /\ Cardinality(Places(log_records', Data)) = Cardinality(D \ {1})
          /\ Cardinality(Places(log_records', Commits)) = Cardinality(C \ {1})
          /\ 1 \in D <=> rec.type = "DATA"
          /\ 1 \in C <=> rec.type /= "DATA"
      <3>1. \A P : /\ 1 \in Places(log_records, P) <=> rec \in P
                   /\ Cardinality(Places(log_records', P)) = Cardinality(Places(log_records, P) \ {1})
        BY <1>0, PlacesTail
      <3>2. (rec \in Data <=> rec.type = "DATA") /\ (rec \in Commits <=> rec.type /= "DATA")
        BY <1>1 DEF Data, Commits
      <3> HIDE DEF rec, FlushPop
      <3> QED
        BY <3>1, <3>2
    <2>4. Weight(Places(log_records', Data), Places(log_records', Commits)) = Weight(D \ {1}, C \ {1})
      BY <2>3 DEF Weight
    <2> HIDE DEF D, C
    <2>5. Weight(D, C) \in Nat
      BY <2>1, WeightFacts
    <2>6. CASE rec.type = "DATA"
      <3>1. C \ {1} = C
        BY <2>3, <2>6
      <3>2. Weight(D \ {1}, C) = Weight(D, C) - DataLen
        BY <2>1, <2>3, <2>6, WeightLessData
      <3> QED
        BY <2>1, <2>2, <2>4, <2>5, <2>6, <3>1, <3>2 DEF logrec_len
    <2>7. CASE rec.type /= "DATA"
      <3>1. D \ {1} = D
        BY <2>3, <2>7
      <3>2. Weight(D, C \ {1}) = Weight(D, C) - CommitLen
        BY <2>1, <2>3, <2>7, WeightLessCommit
      <3> QED
        BY <2>1, <2>2, <2>4, <2>5, <2>7, <3>1, <3>2 DEF logrec_len
    <2> QED
      BY <2>6, <2>7
  <1>11. PoppedSize' = PoppedSize + logrec_len(rec) /\ PoppedSize \in Nat
    <2>1. PoppedSize = Weight(PoppedData, PoppedCommits) /\ IsFiniteSet(PoppedData) /\ IsFiniteSet(PoppedCommits)
      BY <1>0, SizesAreWeights
    <2>2. PoppedSize' = Weight(PoppedData', PoppedCommits')
      BY DEF PoppedSize, Weight, PoppedData, PoppedCommits
    <2>3. t \notin PoppedData /\ t \notin PoppedCommits
      BY <1>0 DEF PoppedData, PoppedCommits, Unaccounted
    <2>4. CASE rec.type = "DATA"
      <3>1. PoppedData' = PoppedData \cup {t} /\ PoppedCommits' = PoppedCommits
        BY <1>0, <2>4 DEF PoppedData, PoppedCommits, Unaccounted, TypeOK
      <3> QED
        BY <2>1, <2>2, <2>3, <2>4, <3>1, WeightFacts DEF logrec_len
    <2>5. CASE rec.type /= "DATA"
      <3>1. PoppedData' = PoppedData /\ PoppedCommits' = PoppedCommits \cup {t}
        BY <1>0, <2>5 DEF PoppedData, PoppedCommits, Unaccounted, TypeOK
      <3> QED
        BY <2>1, <2>2, <2>3, <2>5, <3>1, WeightFacts DEF logrec_len
    <2> QED
      BY <2>4, <2>5
  <1>12. logrec_len(rec) \in Nat
    BY SizesAssumption DEF logrec_len
  <1>13. SizeAccounted'
    BY <1>10, <1>11, <1>12 DEF IInv, SizeAccounted
  <1>14. PushBound'
    <2>1. Pushing' = Pushing /\ \A u \in Pushing : hand'[u] = hand[u]
      BY <1>0 DEF Pushing, TypeOK
    <2>2. PushSize' = PushSize
      BY <2>1 DEF PushSize
    <2> QED
      BY <2>2 DEF IInv, PushBound
  <1> QED
    BY <1>2, <1>3, <1>7, <1>8, <1>9, <1>13, <1>14 DEF IInv

\* write_log_record and the unlock keep the invariant: the record moves from
\* the hand of the thread to the file.
LEMMA FlushWriteKeeps ==
  ASSUME IInv, NEW t \in Threads, FlushWrite(t)
  PROVE  IInv'
  <1> USE DEF FlushWrite, Goto, historyVars
  <1>0. TypeOK /\ Control /\ pc[t] = "write" /\ file \in Seq(Record)
    BY DEF IInv, TypeOK
  <1>1. hand[t] \in Record /\ lock = t /\ t /= NoThread
    BY <1>0, SizesAssumption DEF Control
  <1>2. Append(file, hand[t]) = file \o <<hand[t]>> /\ file \o <<hand[t]>> \in Seq(Record)
        /\ Len(Append(file, hand[t])) = Len(file) + 1
    BY <1>0, <1>1, AppendIsConcat, AppendProperties
  <1>3. Len(file) \in Nat
    BY <1>0, LenProperties
  <1>4. TypeOK'
    BY <1>0, <1>2, <1>3 DEF TypeOK
  <1>5. Control'
    BY <1>0, <1>1, SizesAssumption DEF Control, TypeOK
  <1>6. InHand = <<hand[t]>> /\ InHand' = <<>>
    BY <1>1 DEF InHand
  <1>7. TakenOut = file \o <<hand[t]>> /\ TakenOut' = file \o <<hand[t]>>
    BY <1>2, <1>6, ConcatEmptySeq DEF TakenOut
  <1>8. TakenOut' = TakenOut \o <<>> /\ appended' = appended \o <<>> /\ <<>> \in Seq(Record)
    BY <1>0, <1>2, <1>7, ConcatEmptySeq, EmptySeq DEF TypeOK
  <1>9. CommitsFollowed'
    <2> SUFFICES ASSUME NEW u \in Threads
                 PROVE  /\ pc'[u] \in {"check", "pop", "write", "subtract", "sync"}
                             => CommitRecordIn(CurrentTrx(u), appended)'
                        /\ pc'[u] = "sync" => CommitRecordIn(CurrentTrx(u), TakenOut)'
      BY DEF CommitsFollowed
    <2>1. /\ CommitRecordIn(CurrentTrx(u), appended) => CommitRecordIn(CurrentTrx(u), appended)'
          /\ CommitRecordIn(CurrentTrx(u), TakenOut) => CommitRecordIn(CurrentTrx(u), TakenOut)'
      BY <1>0, <1>8, OwnCommitStays
    <2>2. pc'[u] = IF u = t THEN "subtract" ELSE pc[u]
      BY <1>0 DEF TypeOK
    <2> QED
      BY <1>0, <2>1, <2>2 DEF IInv, CommitsFollowed
  <1>10. FileKeepsOrder'
    BY <1>7 DEF IInv, FileKeepsOrder, TakenOut
  <1>11. AckedLeftBuffer'
    BY <1>0, <1>8, AckedStay DEF IInv
  <1>12. SizeAccounted' /\ PushBound'
    <2>1. Unaccounted' = Unaccounted /\ Pushing' = Pushing
      BY <1>0 DEF Unaccounted, Pushing, TypeOK
    <2> QED
      BY <2>1, AccountsKept DEF IInv
  <1> QED
    BY <1>4, <1>5, <1>9, <1>10, <1>11, <1>12 DEF IInv

\* The subtraction after the unlock keeps the invariant: the record it forgets
\* was counted, so total_size_ does not become negative.
LEMMA FlushSubtractKeeps ==
  ASSUME IInv, NEW t \in Threads, FlushSubtract(t)
  PROVE  IInv'
  <1> USE DEF FlushSubtract, Goto, Hold, fileVars, historyVars
  <1> DEFINE rec == hand[t]
  <1>0. TypeOK /\ Control /\ pc[t] = "subtract" /\ log_records \in Seq(Record) /\ lock /= t
    BY DEF IInv, TypeOK, Control
  <1>1. rec \in Record /\ logrec_len(rec) \in Nat
    BY <1>0, SizesAssumption DEF Control, logrec_len
  <1>2. /\ PoppedSize' = PoppedSize - logrec_len(rec)
        /\ PoppedSize \in Nat /\ PoppedSize' \in Nat
    <2>1. PoppedSize = Weight(PoppedData, PoppedCommits) /\ IsFiniteSet(PoppedData) /\ IsFiniteSet(PoppedCommits)
      BY <1>0, SizesAreWeights
    <2>2. PoppedSize' = Weight(PoppedData', PoppedCommits')
      BY DEF PoppedSize, Weight, PoppedData, PoppedCommits
    <2>3. PoppedData' = PoppedData \ {t} /\ PoppedCommits' = PoppedCommits \ {t}
      BY <1>0 DEF PoppedData, PoppedCommits, Unaccounted, TypeOK
    <2>4. IF rec.type = "DATA" THEN t \in PoppedData /\ t \notin PoppedCommits
                               ELSE t \in PoppedCommits /\ t \notin PoppedData
      BY <1>0 DEF PoppedData, PoppedCommits, Unaccounted
    <2>5. IsFiniteSet(PoppedData') /\ IsFiniteSet(PoppedCommits')
      BY <2>1, <2>3, FS_RemoveElement, FS_Subset
    <2>6. Weight(PoppedData, PoppedCommits) \in Nat /\ Weight(PoppedData', PoppedCommits') \in Nat
      BY <2>1, <2>5, WeightFacts
    <2>7. CASE rec.type = "DATA"
      <3>1. Weight(PoppedData \ {t}, PoppedCommits) = Weight(PoppedData, PoppedCommits) - DataLen
        BY <2>1, <2>4, <2>7, WeightLessData
      <3>2. PoppedCommits \ {t} = PoppedCommits
        BY <2>4, <2>7
      <3> QED
        BY <2>1, <2>2, <2>3, <2>6, <2>7, <3>1, <3>2 DEF logrec_len
    <2>8. CASE rec.type /= "DATA"
      <3>1. Weight(PoppedData, PoppedCommits \ {t}) = Weight(PoppedData, PoppedCommits) - CommitLen
        BY <2>1, <2>4, <2>8, WeightLessCommit
      <3>2. PoppedData \ {t} = PoppedData
        BY <2>4, <2>8
      <3> QED
        BY <2>1, <2>2, <2>3, <2>6, <2>8, <3>1, <3>2 DEF logrec_len
    <2> QED
      BY <2>7, <2>8
  <1>3. SizeOf(DOMAIN log_records)' = SizeOf(DOMAIN log_records) /\ SizeOf(DOMAIN log_records) \in Nat
    <2>1. /\ SizeOf(DOMAIN log_records) = Weight(Places(log_records, Data), Places(log_records, Commits))
          /\ IsFiniteSet(Places(log_records, Data)) /\ IsFiniteSet(Places(log_records, Commits))
      BY <1>0, SizesAreWeights
    <2>2. SizeOf(DOMAIN log_records) \in Nat
      BY <2>1, WeightFacts, ZenonT(60)
    <2> QED
      BY <2>2 DEF SizeOf
  <1>4. total_size = SizeOf(DOMAIN log_records) + PoppedSize
    BY DEF IInv, SizeAccounted
  <1>5. total_size' \in Nat /\ SizeAccounted'
    BY <1>1, <1>2, <1>3, <1>4 DEF SizeAccounted
  <1>6. TypeOK'
    BY <1>0, <1>5 DEF TypeOK
  <1>7. Control'
    BY <1>0, <1>1, SizesAssumption DEF Control, TypeOK
  <1>8. InHand' = InHand
    BY <1>0 DEF InHand, TypeOK
  <1>9. TakenOut' = TakenOut \o <<>> /\ appended' = appended \o <<>> /\ <<>> \in Seq(Record)
    BY <1>0, <1>8, TakenOutType, ConcatEmptySeq, EmptySeq DEF TakenOut, TypeOK
  <1>10. CommitsFollowed'
    <2> SUFFICES ASSUME NEW u \in Threads
                 PROVE  /\ pc'[u] \in {"check", "pop", "write", "subtract", "sync"}
                             => CommitRecordIn(CurrentTrx(u), appended)'
                        /\ pc'[u] = "sync" => CommitRecordIn(CurrentTrx(u), TakenOut)'
      BY DEF CommitsFollowed
    <2>1. /\ CommitRecordIn(CurrentTrx(u), appended) => CommitRecordIn(CurrentTrx(u), appended)'
          /\ CommitRecordIn(CurrentTrx(u), TakenOut) => CommitRecordIn(CurrentTrx(u), TakenOut)'
      BY <1>0, <1>9, OwnCommitStays
    <2>2. pc'[u] = IF u = t THEN "check" ELSE pc[u]
      BY <1>0 DEF TypeOK
    <2> QED
      BY <1>0, <2>1, <2>2 DEF IInv, CommitsFollowed
  <1>11. FileKeepsOrder'
    BY <1>8 DEF IInv, FileKeepsOrder
  <1>12. AckedLeftBuffer'
    BY <1>0, <1>9, AckedStay DEF IInv
  <1>13. PushBound'
    <2>1. Pushing' = Pushing /\ \A u \in Pushing : hand'[u] = hand[u]
      BY <1>0 DEF Pushing, TypeOK
    <2>2. PushSize' = PushSize
      BY <2>1 DEF PushSize
    <2>3. PushSize \in Nat
      BY <1>0, PushSizeType
    <2>4. total_size \in Nat /\ Capacity \in Nat /\ (Cardinality(Threads) - 1) * DataLen \in Int
      BY <1>0, FS_CardinalityType, SizesAssumption, SMTT(60) DEF TypeOK
    <2> QED
      BY <1>1, <2>2, <2>3, <2>4 DEF IInv, PushBound
  <1> QED
    BY <1>5, <1>6, <1>7, <1>10, <1>11, <1>12, <1>13 DEF IInv

\* A step that changes nothing keeps the invariant.
LEMMA StutterKeeps == IInv /\ UNCHANGED vars => IInv'
  <1> SUFFICES ASSUME IInv, UNCHANGED vars PROVE IInv'
    OBVIOUS
  <1> USE DEF IInv, vars, bufferVars, fileVars, historyVars
  <1>1. TypeOK' /\ Control'
    BY DEF TypeOK, Control
  <1>2. InHand' = InHand /\ TakenOut' = TakenOut
    BY DEF InHand, TakenOut
  <1>3. CommitsFollowed'
    BY <1>2 DEF CommitsFollowed, CommitRecordIn, CurrentTrx
  <1>4. FileKeepsOrder'
    BY <1>2 DEF FileKeepsOrder
  <1>5. AckedLeftBuffer'
    BY <1>2 DEF AckedLeftBuffer, CommitRecordIn
  <1>6. SizeAccounted' /\ PushBound'
    BY AccountsKept DEF Unaccounted, Pushing
  <1> QED
    BY <1>1, <1>3, <1>4, <1>5, <1>6

-----------------------------------------------------------------------------
(* The theorems.                                                           *)

\* The inductive invariant holds in every state the threads reach.
THEOREM Invariance == Spec => []IInv
  <1>1. IInv /\ [Next]_vars => IInv'
    <2> SUFFICES ASSUME IInv, [Next]_vars PROVE IInv'
      OBVIOUS
    <2>1. CASE UNCHANGED vars
      BY <2>1, StutterKeeps
    <2>2. ASSUME NEW t \in Threads, NEW type \in {"DATA", "MTR_COMMIT"}, AppendCheck(t, type) \/ AppendFull(t, type)
          PROVE  IInv'
      BY <2>2, AppendCheckKeeps, AppendFullKeeps
    <2>3. ASSUME NEW t \in Threads, Step(t)
          PROVE  IInv'
      BY <2>3, AppendPushKeeps, FlushCheckKeeps, FlushEmptyKeeps, FlushPopKeeps, FlushWriteKeeps,
         FlushSubtractKeeps, FlushSyncKeeps DEF Step
    <2> QED
      BY <2>1, <2>2, <2>3 DEF Next
  <1> QED
    BY <1>1, InvInit, PTL DEF Spec

\* However many threads append and flush, records reach the file in the order
\* append_log_record accepted them, each once, and commit_trx returns SUCCESS
\* for no commit whose record still waits in the list.
THEOREM LogExact == Spec => []LogFileExact
  <1>1. IInv => LogFileExact
    BY DEF IInv, LogFileExact
  <1> QED
    BY <1>1, Invariance, PTL

\* total_size_ is at every step the size of the records that wait or are being
\* written, never negative, and exceeds CLOG_BUFFER_SIZE by less than one data
\* record for each other thread, although it is tested and reduced without
\* lock_.
THEOREM BufferExact == Spec => []BufferAccounted
  <1>1. IInv => BufferAccounted
    <2> SUFFICES ASSUME IInv PROVE BufferAccounted
      OBVIOUS
    <2>1. PushSize \in Nat /\ total_size \in Nat
      BY PushSizeType DEF IInv, TypeOK
    <2>2. Capacity \in Nat /\ (Cardinality(Threads) - 1) * DataLen \in Int
      BY FS_CardinalityType, SizesAssumption
    <2>3. BufferBound
      BY <2>1, <2>2 DEF IInv, PushBound, BufferBound
    <2> QED
      BY <2>3 DEF IInv, BufferAccounted
  <1> QED
    BY <1>1, Invariance, PTL
=============================================================================
