-------------------------- MODULE CatalogueProofs --------------------------
(***************************************************************************)
(* The catalogue's invariants, for any number of threads, names, indexes,  *)
(* statements, failures and restarts.                                      *)
(*                                                                         *)
(* Ids.  A table is what one CREATE TABLE made: its serial number `ser'.   *)
(* Its id is in its Table, in its meta file, in the CREATE TABLE under way *)
(* and in the records of the log.  That one id means one table follows     *)
(* when all of these agree (OneSerial, LogSerial) and lie below            *)
(* next_table_id_ (IdsDrawn), which a restart computes anew; that no two   *)
(* names share an id, when a serial number belongs to one name (OneName).  *)
(* A meta file that CREATE INDEX renames from the temporary file must be   *)
(* the opened table's (TmpMatches).                                        *)
(*                                                                         *)
(* Files.  No lock guards the files of a name; who may change them is      *)
(* decided by O_EXCL on the meta file, by the pool of the data file and by *)
(* O_EXCL on an index file (Control, Owned).  From that follows what the   *)
(* files hold at every step (Content, OneRewriter, Owners, Pending), hence *)
(* what a crash leaves (Disk) and what the next start finds.               *)
(***************************************************************************)
EXTENDS Catalogue, TLAPS, WellFoundedInduction

LogT == [id : Nat, ser : Nat, row : Nat, done : BOOLEAN]

\* A thread's statement and a Table, each with all its fields.
IsJob(j) ==
  /\ j = [op |-> j.op, step |-> j.step, n |-> j.n, i |-> j.i, ser |-> j.ser, id |-> j.id,
          row |-> j.row, left |-> j.left]
  /\ j.n \in Names /\ j.ser \in Nat /\ j.id \in Nat /\ j.row \in Nat
IsTable(T) ==
  /\ T = [id |-> T.id, ser |-> T.ser, indexes |-> T.indexes, listed |-> T.listed]
  /\ T.id \in Nat /\ T.ser \in Nat

TypeOK ==
  /\ DOMAIN meta = Names /\ DOMAIN tmp = Names
  /\ DOMAIN opened_tables = Names /\ DOMAIN job = Threads
  /\ log \subseteq LogT
  /\ next_table_id \in Nat /\ statements \in Nat /\ twin \in BOOLEAN
  /\ \A n \in Names : opened_tables[n] /= NoTable => IsTable(opened_tables[n])
  /\ \A t \in Threads : job[t] /= Idle => IsJob(job[t])
  /\ mode = "down" => \A t \in Threads : job[t] = Idle

Creates(t) == job[t] /= Idle /\ job[t].op = "create"
Drew(t) == Creates(t) /\ job[t].step /= "store_id"
IsOpen(n) == opened_tables[n] /= NoTable
HasMeta(n) == meta[n] /= NoFile /\ meta[n] /= Empty

\* The ids that are in use, each with the serial number and the name of its
\* table: those of the opened tables, of the meta files and of the CREATE
\* TABLE statements that have drawn one.
Drawn ==
  {<<opened_tables[n].id, opened_tables[n].ser, n>> : n \in {o \in Names : IsOpen(o)}}
  \cup {<<meta[n].id, meta[n].ser, n>> : n \in {o \in Names : HasMeta(o)}}
  \cup {<<job[t].id, job[t].ser, job[t].n>> : t \in {u \in Threads : Drew(u)}}

\* Serial numbers and ids were given out before, by statements.
Given ==
  /\ Drawn \subseteq Nat \X Nat \X Names
  /\ \A c \in Drawn : c[1] < statements /\ c[2] < statements
  /\ \A t \in Threads : job[t] /= Idle => job[t].ser < statements
  /\ \A t \in Threads : Creates(t) => job[t].id < statements
  /\ next_table_id <= statements

\* The serial number of a CREATE TABLE under way is its own.
Serials ==
  \A t \in Threads : Creates(t) =>
    /\ \A u \in Threads : u /= t /\ job[u] /= Idle => job[u].ser /= job[t].ser
    /\ \A n \in Names : IsOpen(n) => opened_tables[n].ser /= job[t].ser
    /\ \A c \in Drawn : c[2] = job[t].ser => c[3] = job[t].n

OneName == \A c, d \in Drawn : c[2] = d[2] => c[3] = d[3]

\* A temporary file that will be renamed is the opened table's.
Blank(f) == f = NoFile \/ f = Empty
Rewrites(t) == job[t] /= Idle /\ job[t].op = "index" /\ job[t].step \in {"write", "rename"}
TmpMatches ==
  \A t \in Threads : Rewrites(t) /\ Alive(t) =>
    \/ Blank(tmp[job[t].n])
    \/ /\ tmp[job[t].n].id = opened_tables[job[t].n].id
       /\ tmp[job[t].n].ser = opened_tables[job[t].n].ser

\* Unless two CREATE TABLE have incremented next_table_id_ at the same time:
OneSerial == \A c, d \in Drawn : c[1] = d[1] => c[2] = d[2]
LogSerial == \A c \in Drawn, e \in log : c[1] = e.id => c[2] = e.ser
Drawing(t) == Creates(t) /\ job[t].step = "store_id"
IdsDrawn ==
  mode = "up" =>
    /\ \A c \in Drawn : c[1] < next_table_id
    /\ \A e \in log : e.id < next_table_id
    /\ \A t, u \in Threads : Drawing(t) /\ Drawing(u) => t = u
    /\ \A t \in Threads : Drawing(t) => job[t].id = next_table_id
IdsExact == ~twin => OneSerial /\ LogSerial /\ IdsDrawn

IInv == TypeOK /\ Given /\ Serials /\ OneName /\ TmpMatches /\ IdsExact

-----------------------------------------------------------------------------
(* What is drawn.                                                          *)

\* The three places an id can be in.
LEMMA InDrawn ==
  /\ \A n \in Names : IsOpen(n) => <<opened_tables[n].id, opened_tables[n].ser, n>> \in Drawn
  /\ \A n \in Names : HasMeta(n) => <<meta[n].id, meta[n].ser, n>> \in Drawn
  /\ \A t \in Threads : Drew(t) => <<job[t].id, job[t].ser, job[t].n>> \in Drawn
  /\ \A c \in Drawn : \/ \E n \in Names : IsOpen(n) /\ c = <<opened_tables[n].id, opened_tables[n].ser, n>>
                      \/ \E n \in Names : HasMeta(n) /\ c = <<meta[n].id, meta[n].ser, n>>
                      \/ \E t \in Threads : Drew(t) /\ c = <<job[t].id, job[t].ser, job[t].n>>
  BY DEF Drawn

\* The same statement, wherever it stands; the same table, whatever its indexes.
SameJob(j, k) == IsJob(k) /\ k.op = j.op /\ k.n = j.n /\ k.ser = j.ser /\ k.id = j.id
LikeTable(T, V) == IsTable(V) /\ V.id = T.id /\ V.ser = T.ser

\* A new step or index list leaves a statement's other fields alone.
LEMMA JobStep ==
  ASSUME NEW j, IsJob(j), NEW s, NEW l
  PROVE  /\ SameJob(j, [j EXCEPT !.step = s]) /\ [j EXCEPT !.step = s].step = s
         /\ SameJob(j, [j EXCEPT !.left = l]) /\ [j EXCEPT !.left = l].step = j.step
  <1> DEFINE J == [op |-> j.op, step |-> j.step, n |-> j.n, i |-> j.i, ser |-> j.ser, id |-> j.id,
                   row |-> j.row, left |-> j.left]
  <1>1. j = J
    BY DEF IsJob
  <1>2. [J EXCEPT !.step = s] = [op |-> j.op, step |-> s, n |-> j.n, i |-> j.i, ser |-> j.ser, id |-> j.id,
                                 row |-> j.row, left |-> j.left]
    OBVIOUS
  <1>3. [J EXCEPT !.left = l] = [op |-> j.op, step |-> j.step, n |-> j.n, i |-> j.i, ser |-> j.ser, id |-> j.id,
                                 row |-> j.row, left |-> l]
    OBVIOUS
  <1>4. j.n \in Names /\ j.ser \in Nat /\ j.id \in Nat /\ j.row \in Nat
    BY DEF IsJob
  <1>5. [j EXCEPT !.step = s] = [J EXCEPT !.step = s] /\ [j EXCEPT !.left = l] = [J EXCEPT !.left = l]
    BY <1>1
  <1>6. SameJob(j, [j EXCEPT !.step = s]) /\ [j EXCEPT !.step = s].step = s
    BY <1>2, <1>4, <1>5 DEF IsJob, SameJob
  <1>7. SameJob(j, [j EXCEPT !.left = l]) /\ [j EXCEPT !.left = l].step = j.step
    BY <1>3, <1>4, <1>5 DEF IsJob, SameJob
  <1> QED
    BY <1>6, <1>7

\* Indexes that come and go leave the id of a Table alone.
LEMMA TableIndexes ==
  ASSUME NEW T, IsTable(T), NEW l
  PROVE  /\ LikeTable(T, [T EXCEPT !.indexes = l])
         /\ LikeTable(T, [T EXCEPT !.listed = l])
  <1> DEFINE J == [id |-> T.id, ser |-> T.ser, indexes |-> T.indexes, listed |-> T.listed]
  <1>1. T = J /\ T.id \in Nat /\ T.ser \in Nat
    BY DEF IsTable
  <1>2. [J EXCEPT !.indexes = l] = [id |-> T.id, ser |-> T.ser, indexes |-> l, listed |-> T.listed]
    OBVIOUS
  <1>3. [J EXCEPT !.listed = l] = [id |-> T.id, ser |-> T.ser, indexes |-> T.indexes, listed |-> l]
    OBVIOUS
  <1> QED
    BY <1>1, <1>2, <1>3 DEF IsTable, LikeTable

-----------------------------------------------------------------------------
(* The steps of a statement, but for the one that draws an id: no id comes *)
(* into use, and what the log and the files say was said before.           *)

\* A thread goes on with its statement, or ends it.
JobMoves(t) ==
  /\ DOMAIN job' = Threads /\ \A u \in Threads \ {t} : job'[u] = job[u]
  /\ job'[t] /= Idle => SameJob(job[t], job'[t])
GoesOn(t) ==
  /\ mode = "up" /\ mode' = "up" /\ job[t] /= Idle
  /\ JobMoves(t)
  /\ job[t].op = "create" => job[t].step /= "store_id" /\ (job'[t] /= Idle => job'[t].step /= "store_id")
  /\ UNCHANGED <<next_table_id, statements, twin>>

\* A table stays what it is, or is what the CREATE TABLE that ends has made.
SameTable(n) ==
  IsOpen(n) /\ opened_tables'[n].id = opened_tables[n].id /\ opened_tables'[n].ser = opened_tables[n].ser
Published(t, n) ==
  /\ Drew(t) /\ job'[t] = Idle /\ n = job[t].n
  /\ opened_tables'[n].id = job[t].id /\ opened_tables'[n].ser = job[t].ser
TablesKept(t) ==
  /\ DOMAIN opened_tables' = Names
  /\ \A n \in Names : IsOpen(n)' => IsTable(opened_tables'[n]) /\ (SameTable(n) \/ Published(t, n))

FilesKept(t) ==
  /\ DOMAIN meta' = Names /\ DOMAIN tmp' = Names
  /\ \A n \in Names : HasMeta(n)' => <<meta'[n].id, meta'[n].ser, n>> \in Drawn
  /\ \A n \in Names : \/ tmp'[n] = tmp[n] \/ Blank(tmp'[n])
                      \/ /\ n = job[t].n /\ Rewrites(t) /\ Alive(t)
                         /\ tmp'[n].id = opened_tables[n].id /\ tmp'[n].ser = opened_tables[n].ser
  /\ Rewrites(t)' => Rewrites(t) \/ Blank(tmp'[job[t].n])

LogKept ==
  /\ log' \subseteq LogT
  /\ \A e \in log' : \/ \E f \in log : e.id = f.id /\ e.ser = f.ser
                     \/ \E n \in Names : <<e.id, e.ser, n>> \in Drawn

Moves(t) == GoesOn(t) /\ TablesKept(t) /\ FilesKept(t) /\ LogKept

\* No id comes into use.
LEMMA MoveDraws ==
  ASSUME TypeOK, NEW t \in Threads, Moves(t)
  PROVE  /\ Drawn' \subseteq Drawn
         /\ \A u \in Threads : Creates(u)' => Creates(u) /\ job'[u].ser = job[u].ser /\ job'[u].id = job[u].id
                                              /\ job'[u].n = job[u].n
         /\ \A u \in Threads : Drawing(u)' => Drawing(u)
         /\ \A u \in Threads : job'[u] /= Idle => job[u] /= Idle /\ job'[u].ser = job[u].ser
                                                  /\ job'[u].n = job[u].n /\ job'[u].op = job[u].op
  <1>1. \A u \in Threads : job'[u] /= Idle => /\ job[u] /= Idle /\ job'[u].ser = job[u].ser /\ job'[u].id = job[u].id
                                              /\ job'[u].n = job[u].n /\ job'[u].op = job[u].op
    BY DEF Moves, GoesOn, JobMoves, SameJob
  <1>2. \A u \in Threads : Creates(u)' => Creates(u)
    BY <1>1 DEF Creates
  <1>3. \A u \in Threads : Drew(u)' => Drew(u)
    BY <1>2 DEF Moves, GoesOn, JobMoves, Drew, Creates
  <1>4. \A u \in Threads : Drawing(u)' => Drawing(u)
    BY <1>2 DEF Moves, GoesOn, JobMoves, Drawing, Creates
  <1>5. ASSUME NEW c \in Drawn' PROVE c \in Drawn
    <2>1. CASE \E n \in Names : IsOpen(n)' /\ c = <<opened_tables'[n].id, opened_tables'[n].ser, n>>
      <3>1. PICK n \in Names : IsOpen(n)' /\ c = <<opened_tables'[n].id, opened_tables'[n].ser, n>>
        BY <2>1
      <3>2. CASE SameTable(n)
        <4>1. c = <<opened_tables[n].id, opened_tables[n].ser, n>> /\ IsOpen(n)
          BY <3>1, <3>2 DEF SameTable
        <4> QED
          BY <4>1, InDrawn
      <3>3. CASE Published(t, n)
        <4>1. c = <<job[t].id, job[t].ser, job[t].n>> /\ Drew(t)
          BY <3>1, <3>3 DEF Published
        <4> QED
          BY <4>1, InDrawn
      <3> QED
        BY <3>1, <3>2, <3>3 DEF Moves, TablesKept
    <2>2. CASE \E n \in Names : HasMeta(n)' /\ c = <<meta'[n].id, meta'[n].ser, n>>
      BY <2>2 DEF Moves, FilesKept
    <2>3. CASE \E u \in Threads : Drew(u)' /\ c = <<job'[u].id, job'[u].ser, job'[u].n>>
      <3>1. PICK u \in Threads : Drew(u)' /\ c = <<job'[u].id, job'[u].ser, job'[u].n>>
        BY <2>3
      <3>2. Drew(u) /\ job'[u] /= Idle
        BY <1>3, <3>1 DEF Drew, Creates
      <3>3. c = <<job[u].id, job[u].ser, job[u].n>>
        BY <1>1, <3>1, <3>2
      <3> QED
        BY <3>2, <3>3, InDrawn
    <2> QED
      BY <2>1, <2>2, <2>3 DEF Drawn
  <1> QED
    BY <1>1, <1>2, <1>4, <1>5 DEF Creates

\* Such a step keeps the invariant.
LEMMA MoveKeeps ==
  ASSUME IInv, NEW t \in Threads, Moves(t)
  PROVE  IInv'
  <1>1. /\ Drawn' \subseteq Drawn
        /\ \A u \in Threads : Creates(u)' => Creates(u) /\ job'[u].ser = job[u].ser /\ job'[u].id = job[u].id
                                             /\ job'[u].n = job[u].n
        /\ \A u \in Threads : Drawing(u)' => Drawing(u)
        /\ \A u \in Threads : job'[u] /= Idle => job[u] /= Idle /\ job'[u].ser = job[u].ser
                                                 /\ job'[u].n = job[u].n /\ job'[u].op = job[u].op
    BY MoveDraws DEF IInv
  <1>2. next_table_id' = next_table_id /\ statements' = statements /\ twin' = twin /\ mode = "up" /\ mode' = "up"
    BY DEF Moves, GoesOn, JobMoves
  <1>3. TypeOK'
    <2>1. \A u \in Threads : job'[u] /= Idle => IsJob(job'[u])
      BY DEF IInv, TypeOK, Moves, GoesOn, JobMoves, SameJob
    <2>2. \A n \in Names : opened_tables'[n] /= NoTable => IsTable(opened_tables'[n])
      BY DEF Moves, TablesKept, IsOpen
    <2> QED
      BY <1>2, <2>1, <2>2 DEF IInv, TypeOK, Moves, GoesOn, JobMoves, TablesKept, FilesKept, LogKept
  <1>4. Given'
    BY <1>1, <1>2 DEF IInv, Given
  <1>5. Serials'
    <2> SUFFICES ASSUME NEW u \in Threads, Creates(u)'
                 PROVE  /\ \A v \in Threads : v /= u /\ job'[v] /= Idle => job'[v].ser /= job'[u].ser
                        /\ \A n \in Names : IsOpen(n)' => opened_tables'[n].ser /= job'[u].ser
                        /\ \A c \in Drawn' : c[2] = job'[u].ser => c[3] = job'[u].n
      BY DEF Serials
    <2>1. Creates(u) /\ job'[u].ser = job[u].ser /\ job'[u].n = job[u].n
      BY <1>1
    <2>2. \A v \in Threads : v /= u /\ job'[v] /= Idle => job'[v].ser /= job'[u].ser
      BY <1>1, <2>1 DEF IInv, Serials
    <2>3. ASSUME NEW n \in Names, IsOpen(n)' PROVE opened_tables'[n].ser /= job'[u].ser
      <3>1. CASE SameTable(n)
        BY <2>1, <3>1 DEF IInv, Serials, SameTable
      <3>2. CASE Published(t, n)
        <4>1. u /= t /\ job[t] /= Idle /\ opened_tables'[n].ser = job[t].ser
          BY <3>2 DEF Published, Creates, Drew
        <4> QED
          BY <2>1, <4>1 DEF IInv, Serials
      <3> QED
        BY <2>3, <3>1, <3>2 DEF Moves, TablesKept
    <2>4. \A c \in Drawn' : c[2] = job'[u].ser => c[3] = job'[u].n
      BY <1>1, <2>1 DEF IInv, Serials
    <2> QED
      BY <2>2, <2>3, <2>4
  <1>6. OneName'
    BY <1>1 DEF IInv, OneName
  <1>7. TmpMatches'
    <2> SUFFICES ASSUME NEW u \in Threads, Rewrites(u)', Alive(u)'
                 PROVE  LET n == job'[u].n IN
                        \/ Blank(tmp'[n])
                        \/ tmp'[n].id = opened_tables'[n].id /\ tmp'[n].ser = opened_tables'[n].ser
      BY DEF TmpMatches
    <2> DEFINE n == job[u].n
    <2>1. /\ job[u] /= Idle /\ job'[u].n = n /\ job'[u].ser = job[u].ser /\ n \in Names
          /\ job[u].op = "index"
      BY <1>1 DEF Rewrites, IInv, TypeOK, IsJob
    <2>2. IsOpen(n)' /\ opened_tables'[n].ser = job[u].ser
      BY <2>1 DEF Alive, IsOpen
    <2>3. SameTable(n)
      <3>1. CASE Published(t, n)
        <4>1. Creates(t) /\ u /= t /\ job[t].ser = job[u].ser
          BY <2>1, <2>2, <3>1 DEF Published, Drew, Creates
        <4> QED
          BY <2>1, <4>1 DEF IInv, Serials
      <3> QED
        BY <2>1, <2>2, <3>1 DEF Moves, TablesKept
    <2>4. Alive(u)
      BY <2>2, <2>3 DEF SameTable, Alive, IsOpen
    <2>5. Rewrites(u) \/ Blank(tmp'[n])
      <3>1. CASE u = t
        BY <3>1 DEF Moves, FilesKept
      <3>2. CASE u /= t
        BY <3>2 DEF Moves, GoesOn, JobMoves, Rewrites
      <3> QED
        BY <3>1, <3>2
    <2>6. CASE tmp'[n] = tmp[n] /\ Rewrites(u)
      BY <2>1, <2>3, <2>4, <2>6 DEF IInv, TmpMatches, SameTable
    <2>7. CASE tmp'[n].id = opened_tables[n].id /\ tmp'[n].ser = opened_tables[n].ser
      BY <2>1, <2>3, <2>7 DEF SameTable
    <2> QED
      BY <2>1, <2>5, <2>6, <2>7 DEF Moves, FilesKept
  <1>8. IdsExact'
    <2> SUFFICES ASSUME ~twin PROVE OneSerial' /\ LogSerial' /\ IdsDrawn'
      BY <1>2 DEF IdsExact
    <2>1. OneSerial /\ LogSerial /\ IdsDrawn
      BY DEF IInv, IdsExact
    <2>2. OneSerial'
      BY <1>1, <2>1 DEF OneSerial
    <2>3. \A e \in log' : (\A c \in Drawn : c[1] = e.id => c[2] = e.ser) /\ e.id < next_table_id
      <3> SUFFICES ASSUME NEW e \in log'
                   PROVE  (\A c \in Drawn : c[1] = e.id => c[2] = e.ser) /\ e.id < next_table_id
        OBVIOUS
      <3>1. CASE \E f \in log : e.id = f.id /\ e.ser = f.ser
        BY <1>2, <2>1, <3>1 DEF LogSerial, IdsDrawn
      <3>2. CASE \E n \in Names : <<e.id, e.ser, n>> \in Drawn
        <4>1. PICK n \in Names : <<e.id, e.ser, n>> \in Drawn
          BY <3>2
        <4> QED
          BY <1>2, <2>1, <4>1 DEF OneSerial, IdsDrawn
      <3> QED
        BY <3>1, <3>2 DEF Moves, LogKept
    <2>4. LogSerial'
      BY <1>1, <2>3 DEF LogSerial
    <2>5. IdsDrawn'
      <3>1. \A v \in Threads : Drawing(v)' => Drawing(v) /\ job'[v].id = job[v].id
        BY <1>1 DEF Drawing
      <3> QED
        BY <1>1, <1>2, <2>1, <2>3, <3>1 DEF IdsDrawn
    <2> QED
      BY <2>2, <2>4, <2>5
  <1> QED
    BY <1>3, <1>4, <1>5, <1>6, <1>7, <1>8 DEF IInv

\* A step that only uses freed memory, or none at all.
LEMMA IdleKeeps ==
  ASSUME IInv, mode' = mode \/ mode' = "wild",
         UNCHANGED <<meta, tmp, log, opened_tables, next_table_id, job, statements, twin>>
  PROVE  IInv'
  <1>1. Drawn' = Drawn
    BY DEF Drawn, IsOpen, HasMeta, Drew, Creates
  <1>2. TypeOK'
    BY DEF IInv, TypeOK
  <1>3. Given' /\ Serials' /\ OneName'
    BY <1>1 DEF IInv, Given, Serials, OneName, Creates, IsOpen
  <1>4. TmpMatches'
    BY DEF IInv, TmpMatches, Rewrites, Alive
  <1>5. IdsExact'
    BY <1>1 DEF IInv, IdsExact, OneSerial, LogSerial, IdsDrawn, Drawing, Creates
  <1> QED
    BY <1>2, <1>3, <1>4, <1>5 DEF IInv

-----------------------------------------------------------------------------
(* The beginning of a statement, and the step that draws an id.            *)

\* The statement of a thread after its first step.
Begun(t, op, step, n, ser) ==
  /\ mode = "up" /\ mode' = "up" /\ job[t] = Idle
  /\ statements' = statements + 1 /\ statements' \in Nat
  /\ DOMAIN job' = Threads /\ \A u \in Threads \ {t} : job'[u] = job[u]
  /\ IsJob(job'[t]) /\ job'[t].op = op /\ job'[t].step = step /\ job'[t].n = n /\ job'[t].ser = ser
  /\ job'[t].id = next_table_id
  /\ UNCHANGED <<meta, tmp, log, opened_tables, next_table_id>>

\* Begin looks up nothing but the counters.
LEMMA BeginJob ==
  ASSUME TypeOK, NEW t \in Threads, NEW op, NEW step, NEW n \in Names, NEW i, NEW ser \in Nat,
         Begin(t, op, step, n, i, ser)
  PROVE  Begun(t, op, step, n, ser)
  <1> DEFINE J == [op |-> op, step |-> step, n |-> n, i |-> i, ser |-> ser,
                   id |-> next_table_id, row |-> statements, left |-> {}]
  <1>1. /\ mode = "up" /\ mode' = mode /\ job[t] = Idle /\ statements' = statements + 1
        /\ job' = [job EXCEPT ![t] = J]
        /\ UNCHANGED <<meta, tmp, log, opened_tables, next_table_id>>
    BY DEF Begin, disk, tables
  <1>2. DOMAIN job = Threads /\ next_table_id \in Nat /\ statements \in Nat
    BY DEF TypeOK
  <1>3. DOMAIN job' = Threads /\ job'[t] = J /\ \A u \in Threads \ {t} : job'[u] = job[u]
    BY <1>1, <1>2
  <1>4. IsJob(J) /\ J.op = op /\ J.step = step /\ J.n = n /\ J.ser = ser /\ J.id = next_table_id
    BY <1>2 DEF IsJob
  <1> QED
    BY <1>1, <1>2, <1>3, <1>4 DEF Begun

\* CREATE TABLE has a serial number nobody else has, and an id that is nobody's
\* as long as no other CREATE TABLE is about to increment next_table_id_.
LEMMA CreateKeeps ==
  ASSUME IInv, NEW t \in Threads, NEW n \in Names, CreateTable(t, n)
  PROVE  IInv'
  <1>1. Begin(t, "create", "store_id", n, Idle, statements) /\ statements \in Nat /\ TypeOK
    BY DEF CreateTable, IInv, TypeOK
  <1>2. /\ mode = "up" /\ mode' = "up" /\ job[t] = Idle
        /\ statements' = statements + 1 /\ statements' \in Nat
        /\ DOMAIN job' = Threads /\ \A u \in Threads \ {t} : job'[u] = job[u]
        /\ IsJob(job'[t]) /\ job'[t].op = "create" /\ job'[t].step = "store_id" /\ job'[t].n = n
        /\ job'[t].ser = statements /\ job'[t].id = next_table_id
        /\ UNCHANGED <<meta, tmp, log, opened_tables, next_table_id>>
    <2>1. Begun(t, "create", "store_id", n, statements)
      BY <1>1, BeginJob
    <2> QED
      BY <2>1 DEF Begun
  <1>3. /\ twin' = (twin \/ \E u \in Threads : At(u, "create", "store_id"))
        /\ twin' \in BOOLEAN
    BY DEF CreateTable
  <1>4. \A u \in Threads : Drew(u)' <=> Drew(u)
    BY <1>2 DEF Drew, Creates
  <1>5. Drawn' = Drawn
    <2>1. \A u \in Threads : Drew(u) => u /= t /\ job'[u] = job[u]
      BY <1>2 DEF Drew, Creates
    <2>2. \A m \in Names : (IsOpen(m)' <=> IsOpen(m)) /\ (HasMeta(m)' <=> HasMeta(m))
      BY <1>2 DEF IsOpen, HasMeta
    <2> QED
      BY <1>2, <1>4, <2>1, <2>2 DEF Drawn
  <1>6. TypeOK'
    BY <1>2, <1>3 DEF IInv, TypeOK
  <1>7. Given'
    <2>1. \A c \in Drawn : c[1] \in Nat /\ c[2] \in Nat
      BY DEF IInv, Given
    <2>2. \A u \in Threads : job'[u] /= Idle => job'[u].ser < statements'
      <3> SUFFICES ASSUME NEW u \in Threads, job'[u] /= Idle PROVE job'[u].ser < statements'
        OBVIOUS
      <3>1. CASE u = t
        BY <1>1, <1>2, <3>1
      <3>2. CASE u /= t
        <4>1. job[u] /= Idle /\ job'[u] = job[u] /\ job[u].ser \in Nat /\ job[u].ser < statements
          BY <1>2, <3>2 DEF IInv, TypeOK, IsJob, Given
        <4> QED
          BY <1>1, <1>2, <4>1
      <3> QED
        BY <3>1, <3>2
    <2>3. \A u \in Threads : Creates(u)' => job'[u].id < statements'
      <3> SUFFICES ASSUME NEW u \in Threads, Creates(u)' PROVE job'[u].id < statements'
        OBVIOUS
      <3>1. CASE u = t
        BY <1>1, <1>2, <3>1 DEF IInv, Given, TypeOK
      <3>2. CASE u /= t
        <4>1. job'[u] = job[u] /\ Creates(u)
          BY <1>2, <3>2 DEF Creates
        <4>2. job[u].id \in Nat /\ job[u].id < statements
          BY <4>1 DEF IInv, TypeOK, IsJob, Given, Creates
        <4> QED
          BY <1>1, <1>2, <4>1, <4>2
      <3> QED
        BY <3>1, <3>2
    <2>4. next_table_id' <= statements'
      BY <1>1, <1>2 DEF IInv, Given, TypeOK
    <2> QED
      BY <1>1, <1>2, <1>5, <2>1, <2>2, <2>3, <2>4 DEF IInv, Given
  <1>8. Serials'
    <2>0. /\ \A c \in Drawn : c[2] \in Nat /\ c[2] < statements
          /\ \A u \in Threads : job[u] /= Idle => job[u].ser \in Nat /\ job[u].ser < statements
      BY DEF IInv, Given, TypeOK, IsJob
    <2> SUFFICES ASSUME NEW u \in Threads, Creates(u)'
                 PROVE  /\ \A v \in Threads : v /= u /\ job'[v] /= Idle => job'[v].ser /= job'[u].ser
                        /\ \A m \in Names : IsOpen(m)' => opened_tables'[m].ser /= job'[u].ser
                        /\ \A c \in Drawn' : c[2] = job'[u].ser => c[3] = job'[u].n
      BY DEF Serials
    <2>1. CASE u = t
      <3>1. job'[u].ser = statements
        BY <1>2, <2>1
      <3>2. \A v \in Threads : v /= u /\ job'[v] /= Idle => job'[v].ser /= job'[u].ser
        BY <1>1, <1>2, <2>0, <2>1, <3>1
      <3>3. \A m \in Names : IsOpen(m)' => opened_tables'[m].ser /= job'[u].ser
        <4> SUFFICES ASSUME NEW m \in Names, IsOpen(m)' PROVE opened_tables'[m].ser /= job'[u].ser
          OBVIOUS
        <4>1. <<opened_tables[m].id, opened_tables[m].ser, m>> \in Drawn /\ opened_tables' = opened_tables
          BY <1>2, InDrawn DEF IsOpen
        <4> QED
          BY <1>1, <2>0, <3>1, <4>1
      <3>4. \A c \in Drawn' : c[2] /= job'[u].ser
        BY <1>1, <1>5, <2>0, <3>1
      <3> QED
        BY <3>2, <3>3, <3>4
    <2>2. CASE u /= t
      <3>1. job'[u] = job[u] /\ Creates(u)
        BY <1>2, <2>2 DEF Creates
      <3>2. \A v \in Threads : v /= u /\ job'[v] /= Idle => job'[v].ser /= job'[u].ser
        <4> SUFFICES ASSUME NEW v \in Threads, v /= u, job'[v] /= Idle PROVE job'[v].ser /= job'[u].ser
          OBVIOUS
        <4>1. CASE v = t
          BY <1>1, <1>2, <2>0, <3>1, <4>1 DEF Creates
        <4>2. CASE v /= t
          BY <1>2, <3>1, <4>2 DEF IInv, Serials
        <4> QED
          BY <4>1, <4>2
      <3>3. \A m \in Names : IsOpen(m)' => opened_tables'[m].ser /= job'[u].ser
        BY <1>2, <3>1 DEF IInv, Serials, IsOpen
      <3> QED
        BY <1>5, <3>1, <3>2, <3>3 DEF IInv, Serials
    <2> QED
      BY <2>1, <2>2
  <1>9. OneName'
    BY <1>5 DEF IInv, OneName
  <1>10. TmpMatches'
    <2>1. \A u \in Threads : Rewrites(u)' => Rewrites(u) /\ job'[u] = job[u]
      BY <1>2 DEF Rewrites
    <2> QED
      BY <1>2, <2>1 DEF IInv, TmpMatches, Alive
  <1>11. IdsExact'
    <2> SUFFICES ASSUME ~twin' PROVE OneSerial' /\ LogSerial' /\ IdsDrawn'
      BY DEF IdsExact
    <2>1. ~twin /\ \A u \in Threads : ~At(u, "create", "store_id")
      BY <1>3 DEF IInv, TypeOK
    <2>2. OneSerial /\ LogSerial /\ IdsDrawn
      BY <2>1 DEF IInv, IdsExact
    <2>3. \A u \in Threads : Drawing(u)' => u = t
      BY <1>2, <2>1 DEF Drawing, Creates, At
    <2> QED
      BY <1>2, <1>5, <2>2, <2>3 DEF OneSerial, LogSerial, IdsDrawn
  <1> QED
    BY <1>6, <1>7, <1>8, <1>9, <1>10, <1>11 DEF IInv

\* Every other statement is about an opened table, whose serial number no CREATE
\* TABLE under way has.
LEMMA BeginKeeps ==
  ASSUME IInv, NEW t \in Threads, NEW op, NEW step, NEW n \in Names, IsOpen(n),
         Begun(t, op, step, n, opened_tables[n].ser), op /= "create", op = "index" => step = "file", twin' = twin
  PROVE  IInv'
  <1>1. /\ opened_tables[n].ser \in Nat /\ opened_tables[n].ser < statements /\ statements \in Nat
        /\ <<opened_tables[n].id, opened_tables[n].ser, n>> \in Drawn
    <2>1. <<opened_tables[n].id, opened_tables[n].ser, n>> \in Drawn
      BY InDrawn
    <2> QED
      BY <2>1 DEF IInv, Given, TypeOK
  <1>2. /\ mode = "up" /\ mode' = "up" /\ job[t] = Idle
        /\ statements' = statements + 1 /\ statements' \in Nat
        /\ DOMAIN job' = Threads /\ \A u \in Threads \ {t} : job'[u] = job[u]
        /\ IsJob(job'[t]) /\ job'[t].op = op /\ job'[t].step = step /\ job'[t].n = n
        /\ job'[t].ser = opened_tables[n].ser /\ job'[t].id = next_table_id
        /\ UNCHANGED <<meta, tmp, log, opened_tables, next_table_id>>
    BY DEF Begun
  <1>3. \A u \in Threads : /\ Creates(u)' <=> Creates(u)
                           /\ Creates(u) => u /= t /\ job'[u] = job[u]
    BY <1>2 DEF Creates
  <1>4. Drawn' = Drawn
    <2>1. \A u \in Threads : (Drew(u)' <=> Drew(u)) /\ (Drew(u) => job'[u] = job[u])
      BY <1>3 DEF Drew
    <2>2. \A m \in Names : (IsOpen(m)' <=> IsOpen(m)) /\ (HasMeta(m)' <=> HasMeta(m))
      BY <1>2 DEF IsOpen, HasMeta
    <2> QED
      BY <1>2, <2>1, <2>2 DEF Drawn
  <1>5. TypeOK'
    BY <1>2 DEF IInv, TypeOK
  <1>6. Given'
    <2>1. \A c \in Drawn : c[1] \in Nat /\ c[2] \in Nat
      BY DEF IInv, Given
    <2>2. \A u \in Threads : job'[u] /= Idle => job'[u].ser < statements'
      <3> SUFFICES ASSUME NEW u \in Threads, job'[u] /= Idle PROVE job'[u].ser < statements'
        OBVIOUS
      <3>1. CASE u = t
        BY <1>1, <1>2, <3>1
      <3>2. CASE u /= t
        <4>1. job[u] /= Idle /\ job'[u] = job[u] /\ job[u].ser \in Nat /\ job[u].ser < statements
          BY <1>2, <3>2 DEF IInv, TypeOK, IsJob, Given
        <4> QED
          BY <1>1, <1>2, <4>1
      <3> QED
        BY <3>1, <3>2
    <2>3. \A u \in Threads : Creates(u)' => job'[u].id < statements'
      <3> SUFFICES ASSUME NEW u \in Threads, Creates(u) PROVE job[u].id < statements'
        BY <1>3
      <3>1. job[u].id \in Nat /\ job[u].id < statements
        BY DEF IInv, TypeOK, IsJob, Given, Creates
      <3> QED
        BY <1>1, <1>2, <3>1
    <2>4. next_table_id' <= statements'
      BY <1>1, <1>2 DEF IInv, Given, TypeOK
    <2> QED
      BY <1>1, <1>2, <1>4, <2>1, <2>2, <2>3, <2>4 DEF IInv, Given
  <1>7. Serials'
    <2> SUFFICES ASSUME NEW u \in Threads, Creates(u), job'[u] = job[u], u /= t
                 PROVE  /\ \A v \in Threads : v /= u /\ job'[v] /= Idle => job'[v].ser /= job[u].ser
                        /\ \A m \in Names : IsOpen(m)' => opened_tables'[m].ser /= job[u].ser
                        /\ \A c \in Drawn' : c[2] = job[u].ser => c[3] = job[u].n
      BY <1>3 DEF Serials
    <2>1. opened_tables[n].ser /= job[u].ser
      BY DEF IInv, Serials
    <2>2. \A v \in Threads : v /= u /\ job'[v] /= Idle => job'[v].ser /= job[u].ser
      BY <1>2, <2>1 DEF IInv, Serials
    <2>3. \A m \in Names : IsOpen(m)' => opened_tables'[m].ser /= job[u].ser
      BY <1>2 DEF IInv, Serials, IsOpen
    <2> QED
      BY <1>4, <2>2, <2>3 DEF IInv, Serials
  <1>8. OneName'
    BY <1>4 DEF IInv, OneName
  <1>9. TmpMatches'
    <2>1. \A u \in Threads : Rewrites(u)' => Rewrites(u) /\ job'[u] = job[u]
      BY <1>2 DEF Rewrites
    <2> QED
      BY <1>2, <2>1 DEF IInv, TmpMatches, Alive
  <1>10. IdsExact'
    <2>1. \A u \in Threads : (Drawing(u)' <=> Drawing(u)) /\ (Drawing(u) => job'[u] = job[u])
      BY <1>3 DEF Drawing
    <2> QED
      BY <1>2, <1>4, <2>1 DEF IInv, IdsExact, OneSerial, LogSerial, IdsDrawn
  <1> QED
    BY <1>5, <1>6, <1>7, <1>8, <1>9, <1>10 DEF IInv

\* The one step that brings an id into use.
LEMMA StoreIdKeeps ==
  ASSUME IInv, NEW t \in Threads, StoreId(t)
  PROVE  IInv'
  <1> DEFINE c == <<job[t].id, job[t].ser, job[t].n>>
  <1>1. /\ mode = "up" /\ mode' = "up" /\ Creates(t) /\ Drawing(t) /\ job[t] /= Idle
        /\ job' = [job EXCEPT ![t].step = "meta"] /\ next_table_id' = job[t].id + 1
        /\ UNCHANGED <<meta, tmp, log, opened_tables, statements, twin>>
    BY DEF StoreId, At, Same, Goto, disk, history, Creates, Drawing
  <1>2. IsJob(job[t]) /\ DOMAIN job = Threads
    BY <1>1 DEF IInv, TypeOK
  <1>3. /\ DOMAIN job' = Threads /\ job'[t] = [job[t] EXCEPT !.step = "meta"]
        /\ \A u \in Threads \ {t} : job'[u] = job[u]
    BY <1>1, <1>2
  <1>4. /\ IsJob(job'[t]) /\ job'[t].op = "create" /\ job'[t].n = job[t].n /\ job'[t].ser = job[t].ser
        /\ job'[t].id = job[t].id /\ job'[t].step = "meta"
    <2>1. SameJob(job[t], [job[t] EXCEPT !.step = "meta"]) /\ [job[t] EXCEPT !.step = "meta"].step = "meta"
      BY <1>2, JobStep
    <2>2. SameJob(job[t], job'[t]) /\ job'[t].step = "meta"
      BY <1>3, <2>1
    <2> QED
      BY <1>1, <2>2 DEF Creates, SameJob
  <1>5. /\ job[t].n \in Names /\ job[t].ser \in Nat /\ job[t].id \in Nat /\ statements \in Nat
        /\ job[t].ser < statements /\ job[t].id < statements
    BY <1>1, <1>2 DEF IsJob, IInv, Given, TypeOK
  <1>6. \A u \in Threads : job'[u] /= Idle => /\ job[u] /= Idle /\ job'[u].ser = job[u].ser /\ job'[u].id = job[u].id
                                              /\ job'[u].n = job[u].n /\ job'[u].op = job[u].op
    BY <1>1, <1>3, <1>4 DEF Creates
  <1>7. \A d \in Drawn' : d \in Drawn \/ d = c
    <2> SUFFICES ASSUME NEW d \in Drawn' PROVE d \in Drawn \/ d = c
      OBVIOUS
    <2>1. CASE \E n \in Names : IsOpen(n)' /\ d = <<opened_tables'[n].id, opened_tables'[n].ser, n>>
      BY <1>1, <2>1, InDrawn DEF IsOpen
    <2>2. CASE \E n \in Names : HasMeta(n)' /\ d = <<meta'[n].id, meta'[n].ser, n>>
      BY <1>1, <2>2, InDrawn DEF HasMeta
    <2>3. CASE \E u \in Threads : Drew(u)' /\ d = <<job'[u].id, job'[u].ser, job'[u].n>>
      <3>1. PICK u \in Threads : Drew(u)' /\ d = <<job'[u].id, job'[u].ser, job'[u].n>>
        BY <2>3
      <3>2. CASE u = t
        BY <1>4, <3>1, <3>2
      <3>3. CASE u /= t
        <4>1. job'[u] = job[u] /\ Drew(u)
          BY <1>3, <3>1, <3>3 DEF Drew, Creates
        <4> QED
          BY <3>1, <4>1, InDrawn
      <3> QED
        BY <3>2, <3>3
    <2> QED
      BY <2>1, <2>2, <2>3 DEF Drawn
  <1>8. c[1] = job[t].id /\ c[2] = job[t].ser /\ c[3] = job[t].n /\ c \in Nat \X Nat \X Names
    BY <1>5
  <1> HIDE DEF c
  <1>9. TypeOK'
    <2>1. \A u \in Threads : job'[u] /= Idle => IsJob(job'[u])
      BY <1>3, <1>4 DEF IInv, TypeOK
    <2> QED
      BY <1>1, <1>3, <1>5, <2>1 DEF IInv, TypeOK
  <1>10. Given'
    <2>1. \A u \in Threads : Creates(u)' => Creates(u) /\ job'[u].id = job[u].id
      BY <1>6 DEF Creates
    <2>2. next_table_id' <= statements'
      BY <1>1, <1>5
    <2>3. Drawn' \subseteq Nat \X Nat \X Names /\ \A d \in Drawn' : d[1] < statements' /\ d[2] < statements'
      BY <1>1, <1>5, <1>7, <1>8 DEF IInv, Given
    <2> QED
      BY <1>1, <1>6, <2>1, <2>2, <2>3 DEF IInv, Given
  <1>11. Serials'
    <2> SUFFICES ASSUME NEW u \in Threads, Creates(u)'
                 PROVE  /\ \A v \in Threads : v /= u /\ job'[v] /= Idle => job'[v].ser /= job'[u].ser
                        /\ \A n \in Names : IsOpen(n)' => opened_tables'[n].ser /= job'[u].ser
                        /\ \A d \in Drawn' : d[2] = job'[u].ser => d[3] = job'[u].n
      BY DEF Serials
    <2>1. Creates(u) /\ job'[u].ser = job[u].ser /\ job'[u].n = job[u].n
      BY <1>6 DEF Creates
    <2>2. \A v \in Threads : v /= u /\ job'[v] /= Idle => job'[v].ser /= job'[u].ser
      BY <1>6, <2>1 DEF IInv, Serials
    <2>3. \A n \in Names : IsOpen(n)' => opened_tables'[n].ser /= job'[u].ser
      BY <1>1, <2>1 DEF IInv, Serials, IsOpen
    <2>4. c[2] = job[u].ser => c[3] = job[u].n
      BY <1>1, <1>8, <2>1, ZenonT(60) DEF IInv, Serials
    <2>5. \A d \in Drawn' : d[2] = job'[u].ser => d[3] = job'[u].n
      BY <1>7, <2>1, <2>4 DEF IInv, Serials
    <2> QED
      BY <2>2, <2>3, <2>5
  <1>12. OneName'
    <2>1. \A d \in Drawn : d[2] = c[2] => d[3] = c[3]
      BY <1>1, <1>8 DEF IInv, Serials
    <2> QED
      BY <1>7, <2>1 DEF IInv, OneName
  <1>13. TmpMatches'
    <2>1. \A u \in Threads : Rewrites(u)' => u /= t /\ Rewrites(u) /\ job'[u] = job[u]
      BY <1>3, <1>4, ZenonT(60) DEF Rewrites
    <2> QED
      BY <1>1, <2>1 DEF IInv, TmpMatches, Alive
  <1>14. IdsExact'
    <2> SUFFICES ASSUME ~twin PROVE OneSerial' /\ LogSerial' /\ IdsDrawn'
      BY <1>1 DEF IdsExact
    <2>1. OneSerial /\ LogSerial /\ IdsDrawn
      BY DEF IInv, IdsExact
    <2>2. /\ \A d \in Drawn : d[1] < next_table_id /\ d[1] \in Nat
          /\ \A e \in log : e.id < next_table_id /\ e.id \in Nat
          /\ c[1] = next_table_id /\ next_table_id \in Nat /\ next_table_id' = next_table_id + 1
      BY <1>1, <1>8, <2>1 DEF IdsDrawn, IInv, Given, TypeOK, LogT
    <2>3. /\ \A d \in Drawn : d[1] /= c[1] /\ d[1] < next_table_id'
          /\ \A e \in log : e.id /= c[1] /\ e.id < next_table_id'
          /\ c[1] < next_table_id'
      BY <2>2
    <2>4. OneSerial'
      BY <1>7, <2>1, <2>3 DEF OneSerial
    <2>5. LogSerial'
      BY <1>1, <1>7, <2>1, <2>3 DEF LogSerial
    <2>6. \A u \in Threads : ~Drawing(u)'
      <3>1. \A u \in Threads : Drawing(u) => u = t
        BY <1>1, <2>1 DEF IdsDrawn
      <3> QED
        BY <1>3, <1>4, <3>1 DEF Drawing, Creates
    <2>7. IdsDrawn'
      BY <1>1, <1>7, <2>3, <2>6 DEF IdsDrawn
    <2> QED
      BY <2>4, <2>5, <2>7
  <1> QED
    BY <1>9, <1>10, <1>11, <1>12, <1>13, <1>14 DEF IInv

-----------------------------------------------------------------------------
(* The end of the process and the next start.                              *)

\* A set of numbers below a bound has a largest.
LEMMA MaxOf ==
  ASSUME NEW S \in SUBSET Nat, S /= {}, NEW b \in Nat, \A x \in S : x < b
  PROVE  \E x \in S : \A y \in S : y <= x
  <1> DEFINE R == {ss \in Nat \X Nat : ss[1] < ss[2]}
             D == {z \in Nat : \A x \in S : x <= z}
  <1>1. IsWellFoundedOn(R, Nat)
    BY NatLessThanWellFounded, Zenon DEF OpToRel
  <1>2. b \in D /\ D \in SUBSET Nat
    OBVIOUS
  <1>3. PICK z \in D : \A y \in D : ~(<<y, z>> \in R)
    <2> HIDE DEF R, D
    <2> QED
      BY <1>1, <1>2, WFMin
  <1>4. z \in Nat /\ \A x \in S : x <= z
    BY <1>3
  <1>5. z \in S
    <2> SUFFICES ASSUME z \notin S PROVE FALSE
      OBVIOUS
    <2>1. \A x \in S : x < z
      BY <1>4
    <2>2. PICK x \in S : x \in Nat /\ x < z
      BY <2>1
    <2>3. z - 1 \in Nat /\ z - 1 < z
      BY <1>4, <2>2
    <2>4. z - 1 \in D
      BY <1>4, <2>1, <2>3
    <2>5. <<z - 1, z>> \in R
      BY <1>4, <2>3
    <2> HIDE DEF R, D
    <2> QED
      BY <1>3, <2>4, <2>5
  <1> QED
    BY <1>4, <1>5

\* next_table_id_ after a restart is above every id it has met.
LEMMA NextIdAbove ==
  ASSUME NEW ids \in SUBSET Nat, NEW b \in Nat, \A x \in ids : x < b
  PROVE  NextTableId(ids) \in Nat /\ NextTableId(ids) <= b /\ \A x \in ids : x < NextTableId(ids)
  <1>1. CASE ids = {}
    BY <1>1 DEF NextTableId
  <1>2. CASE ids /= {}
    <2> DEFINE m == CHOOSE x \in ids : \A y \in ids : y <= x
    <2>1. m \in ids /\ \A y \in ids : y <= m
      BY <1>2, MaxOf
    <2>2. NextTableId(ids) = 1 + m
      BY <1>2 DEF NextTableId
    <2> HIDE DEF m
    <2> QED
      BY <2>1, <2>2
  <1> QED
    BY <1>1, <1>2

\* The process ends: only the meta files and the log are left.
LEMMA EndKeeps ==
  ASSUME IInv, Ended, log' \subseteq log
  PROVE  IInv'
  <1>1. /\ mode' = "down" /\ opened_tables' = [n \in Names |-> NoTable] /\ job' = [t \in Threads |-> Idle]
        /\ next_table_id' = 0 /\ UNCHANGED <<meta, tmp, statements, twin>>
    BY DEF Ended
  <1>2. /\ \A n \in Names : ~IsOpen(n)' /\ (HasMeta(n)' <=> HasMeta(n))
        /\ \A t \in Threads : job'[t] = Idle /\ ~Creates(t)' /\ ~Drew(t)' /\ ~Rewrites(t)'
    BY <1>1 DEF IsOpen, HasMeta, Creates, Drew, Rewrites
  <1>3. Drawn' \subseteq Drawn
    <2> SUFFICES ASSUME NEW c \in Drawn' PROVE c \in Drawn
      OBVIOUS
    <2>1. PICK n \in Names : HasMeta(n)' /\ c = <<meta'[n].id, meta'[n].ser, n>>
      BY <1>2 DEF Drawn
    <2> QED
      BY <1>1, <1>2, <2>1, InDrawn
  <1>4. TypeOK'
    BY <1>1 DEF IInv, TypeOK
  <1>5. Given'
    BY <1>1, <1>2, <1>3 DEF IInv, Given, TypeOK
  <1>6. Serials' /\ TmpMatches'
    BY <1>2 DEF Serials, TmpMatches
  <1>7. OneName'
    BY <1>3 DEF IInv, OneName
  <1>8. IdsExact'
    BY <1>1, <1>3 DEF IInv, IdsExact, OneSerial, LogSerial, IdsDrawn
  <1> QED
    BY <1>4, <1>5, <1>6, <1>7, <1>8 DEF IInv

\* Db::init opens the tables that have meta files; when it has recovered the
\* log, next_table_id_ is above every id in it.
LEMMA StartKeeps ==
  ASSUME IInv, Start
  PROVE  IInv'
  <1>1. mode = "down" /\ UNCHANGED <<meta, tmp, log, job, statements, twin>>
    BY DEF Start, disk
  <1>2. \A t \in Threads : job[t] = Idle
    BY <1>1 DEF IInv, TypeOK
  <1>3. CASE ~CanOpen
    <2>1. mode' = "failed" /\ UNCHANGED <<opened_tables, next_table_id>>
      BY <1>3 DEF Start, tables
    <2>2. Drawn' = Drawn
      BY <1>1, <2>1 DEF Drawn, IsOpen, HasMeta, Drew, Creates
    <2>3. TypeOK' /\ TmpMatches'
      BY <1>1, <1>2, <2>1 DEF IInv, TypeOK, TmpMatches, Rewrites
    <2>4. Given' /\ Serials' /\ OneName'
      BY <1>1, <1>2, <2>1, <2>2 DEF IInv, Given, Serials, OneName, Creates
    <2>5. IdsExact'
      BY <1>1, <2>1, <2>2 DEF IInv, IdsExact, OneSerial, LogSerial, IdsDrawn
    <2> QED
      BY <2>3, <2>4, <2>5 DEF IInv
  <1>4. CASE CanOpen
    <2> DEFINE ids == {meta[n].id : n \in MetaFiles}
    <2>1. PICK home \in FoundBy(ids) :
            /\ next_table_id' = NextTableId(ids)
            /\ mode' = IF CanRedo(home) THEN "up" ELSE "failed"
      BY <1>4 DEF Start
    <2>2. opened_tables' = [n \in Names |->
             IF n \in MetaFiles
             THEN [id |-> meta[n].id, ser |-> meta[n].ser,
                   indexes |-> meta[n].indexes, listed |-> meta[n].indexes]
             ELSE NoTable]
      BY <1>4 DEF Start
    <2>3. \A n \in MetaFiles : n \in Names /\ HasMeta(n) /\ <<meta[n].id, meta[n].ser, n>> \in Drawn
      BY <1>4, InDrawn DEF CanOpen, Deserializes, MetaFiles, HasMeta
    <2>4. \A n \in MetaFiles : /\ meta[n].id \in Nat /\ meta[n].ser \in Nat
                               /\ meta[n].id < statements /\ meta[n].ser < statements
      BY <2>3 DEF IInv, Given
    <2>5. ids \in SUBSET Nat /\ \A x \in ids : x < statements
      BY <2>4
    <2> HIDE DEF ids
    <2>6. /\ NextTableId(ids) \in Nat /\ NextTableId(ids) <= statements
          /\ \A x \in ids : x < NextTableId(ids)
      BY <2>5, NextIdAbove DEF IInv, TypeOK
    <2>7. \A n \in Names : IsOpen(n)' =>
            /\ n \in MetaFiles /\ IsTable(opened_tables'[n])
            /\ opened_tables'[n].id = meta[n].id /\ opened_tables'[n].ser = meta[n].ser
      BY <2>2, <2>4 DEF IsOpen, IsTable
    <2>8. Drawn' \subseteq Drawn /\ \A c \in Drawn' : c[1] \in ids
      <3> SUFFICES ASSUME NEW c \in Drawn' PROVE c \in Drawn /\ c[1] \in ids
        OBVIOUS
      <3>1. CASE \E n \in Names : IsOpen(n)' /\ c = <<opened_tables'[n].id, opened_tables'[n].ser, n>>
        BY <2>3, <2>7, <3>1 DEF ids
      <3>2. CASE \E n \in Names : HasMeta(n)' /\ c = <<meta'[n].id, meta'[n].ser, n>>
        <4>1. PICK n \in Names : HasMeta(n) /\ c = <<meta[n].id, meta[n].ser, n>>
          BY <1>1, <3>2 DEF HasMeta
        <4>2. n \in MetaFiles
          BY <4>1 DEF HasMeta, MetaFiles
        <4> QED
          BY <2>3, <4>1, <4>2 DEF ids
      <3> QED
        BY <1>1, <1>2, <3>1, <3>2 DEF Drawn, Drew, Creates
    <2>9. TypeOK'
      <3>1. DOMAIN opened_tables' = Names
        BY <2>2
      <3> QED
        BY <1>1, <1>2, <2>1, <2>6, <2>7, <3>1 DEF IInv, TypeOK, IsOpen
    <2>10. Given'
      BY <1>1, <1>2, <2>1, <2>6, <2>8 DEF IInv, Given, Creates
    <2>11. Serials' /\ TmpMatches'
      BY <1>1, <1>2 DEF Serials, TmpMatches, Creates, Rewrites
    <2>12. OneName'
      BY <2>8 DEF IInv, OneName
    <2>13. IdsExact'
      <3> SUFFICES ASSUME ~twin PROVE OneSerial' /\ LogSerial' /\ IdsDrawn'
        BY <1>1 DEF IdsExact
      <3>1. OneSerial /\ LogSerial
        BY DEF IInv, IdsExact
      <3>2. OneSerial' /\ LogSerial'
        BY <1>1, <2>8, <3>1 DEF OneSerial, LogSerial
      <3>3. mode' = "up" => \A e \in log : e.id \in ids
        BY <2>1 DEF CanRedo, FoundBy
      <3>4. \A t \in Threads : ~Drawing(t)'
        BY <1>1, <1>2 DEF Drawing, Creates
      <3>5. IdsDrawn'
        BY <1>1, <2>1, <2>6, <2>8, <3>3, <3>4 DEF IdsDrawn
      <3> QED
        BY <3>2, <3>5
    <2> QED
      BY <2>9, <2>10, <2>11, <2>12, <2>13 DEF IInv
  <1> QED
    BY <1>3, <1>4

-----------------------------------------------------------------------------
(* The steps of each statement.                                            *)

\* The three ways a thread moves.
LEMMA ThreadMoves ==
  ASSUME TypeOK, NEW t \in Threads, job[t] /= Idle
  PROVE  /\ \A s : Goto(t, s) => JobMoves(t) /\ job'[t].step = s
         /\ Return(t) => JobMoves(t) /\ job'[t] = Idle
         /\ \A l : job' = [job EXCEPT ![t].left = l] => JobMoves(t) /\ job'[t].step = job[t].step
         /\ \A s, l : job' = [job EXCEPT ![t].step = s, ![t].left = l] => JobMoves(t) /\ job'[t].step = s
  <1>1. DOMAIN job = Threads /\ IsJob(job[t])
    BY DEF TypeOK
  <1>2. ASSUME NEW s, Goto(t, s) PROVE JobMoves(t) /\ job'[t].step = s
    <2>1. job' = [job EXCEPT ![t].step = s]
      BY <1>2 DEF Goto
    <2>2. /\ DOMAIN job' = Threads /\ \A u \in Threads \ {t} : job'[u] = job[u]
          /\ job'[t] = [job[t] EXCEPT !.step = s]
      BY <1>1, <2>1
    <2>3. SameJob(job[t], [job[t] EXCEPT !.step = s]) /\ [job[t] EXCEPT !.step = s].step = s
      BY <1>1, JobStep
    <2> QED
      BY <2>2, <2>3 DEF JobMoves
  <1>3. ASSUME Return(t) PROVE JobMoves(t) /\ job'[t] = Idle
    BY <1>1, <1>3 DEF Return, JobMoves
  <1>4. ASSUME NEW l, job' = [job EXCEPT ![t].left = l] PROVE JobMoves(t) /\ job'[t].step = job[t].step
    <2>1. /\ DOMAIN job' = Threads /\ \A u \in Threads \ {t} : job'[u] = job[u]
          /\ job'[t] = [job[t] EXCEPT !.left = l]
      BY <1>1, <1>4
    <2>2. SameJob(job[t], [job[t] EXCEPT !.left = l]) /\ [job[t] EXCEPT !.left = l].step = job[t].step
      BY <1>1, JobStep
    <2> QED
      BY <2>1, <2>2 DEF JobMoves
  <1>5. ASSUME NEW s, NEW l, job' = [job EXCEPT ![t].step = s, ![t].left = l] PROVE JobMoves(t) /\ job'[t].step = s
    <2> DEFINE J == [job EXCEPT ![t].step = s]
               j == [job[t] EXCEPT !.step = s]
    <2>1. job' = [J EXCEPT ![t].left = l]
      BY <1>5
    <2>2. DOMAIN J = Threads /\ J[t] = j /\ \A u \in Threads \ {t} : J[u] = job[u]
      BY <1>1
    <2> HIDE DEF J
    <2>3. /\ DOMAIN job' = Threads /\ \A u \in Threads \ {t} : job'[u] = job[u]
          /\ job'[t] = [j EXCEPT !.left = l]
      BY <2>1, <2>2
    <2>4. SameJob(job[t], j) /\ j.step = s
      BY <1>1, JobStep
    <2> HIDE DEF j
    <2>5. IsJob(j)
      BY <2>4 DEF SameJob
    <2>6. SameJob(j, [j EXCEPT !.left = l]) /\ [j EXCEPT !.left = l].step = j.step
      BY <2>5, JobStep
    <2>7. SameJob(j, job'[t]) /\ job'[t].step = s
      BY <2>3, <2>4, <2>6
    <2> QED
      BY <2>3, <2>4, <2>7 DEF JobMoves, SameJob
  <1> QED
    BY <1>2, <1>3, <1>4, <1>5

\* What is left alone is kept.
LEMMA Untouched ==
  ASSUME TypeOK, NEW t \in Threads
  PROVE  /\ UNCHANGED opened_tables => TablesKept(t)
         /\ UNCHANGED <<meta, tmp>> /\ (Rewrites(t)' => Rewrites(t)) => FilesKept(t)
         /\ UNCHANGED log => LogKept
  <1>1. ASSUME UNCHANGED opened_tables PROVE TablesKept(t)
    BY <1>1 DEF TablesKept, SameTable, IsOpen, TypeOK
  <1>2. ASSUME UNCHANGED <<meta, tmp>>, Rewrites(t)' => Rewrites(t) PROVE FilesKept(t)
    <2>1. \A n \in Names : HasMeta(n)' => <<meta'[n].id, meta'[n].ser, n>> \in Drawn
      BY <1>2, InDrawn DEF HasMeta
    <2> QED
      BY <1>2, <2>1 DEF FilesKept, TypeOK
  <1>3. ASSUME UNCHANGED log PROVE LogKept
    BY <1>3 DEF LogKept, TypeOK
  <1> QED
    BY <1>1, <1>2, <1>3

\* One meta file is given the id of a table in use, or none.
LEMMA OneMeta ==
  ASSUME TypeOK, NEW t \in Threads, NEW n \in Names, NEW m, meta' = [meta EXCEPT ![n] = m], UNCHANGED tmp,
         m = NoFile \/ m = Empty \/ <<m.id, m.ser, n>> \in Drawn, Rewrites(t)' => Rewrites(t)
  PROVE  FilesKept(t)
  <1>1. DOMAIN meta = Names /\ DOMAIN tmp = Names
    BY DEF TypeOK
  <1>2. DOMAIN meta' = Names /\ meta'[n] = m /\ \A o \in Names \ {n} : meta'[o] = meta[o]
    BY <1>1
  <1>3. ASSUME NEW o \in Names, HasMeta(o)' PROVE <<meta'[o].id, meta'[o].ser, o>> \in Drawn
    <2>1. CASE o = n
      BY <1>2, <1>3, <2>1 DEF HasMeta
    <2>2. CASE o /= n
      <3>1. HasMeta(o) /\ meta'[o] = meta[o]
        BY <1>2, <1>3, <2>2 DEF HasMeta
      <3> QED
        BY <3>1, InDrawn
    <2> QED
      BY <2>1, <2>2
  <1> QED
    BY <1>1, <1>2, <1>3 DEF FilesKept

\* The steps of CREATE TABLE after the one that draws the id.
CreateStep(t) == CreateMeta(t) \/ SerializeMeta(t) \/ CreateFile(t) \/ WriteHeader(t) \/ Publish(t)

\* A table becomes open with the id that its CREATE TABLE has drawn.
LEMMA CreateMoves ==
  ASSUME TypeOK, NEW t \in Threads, CreateStep(t)
  PROVE  Moves(t)
  <1> DEFINE n == job[t].n
  <1>1. mode = "up" /\ job[t] /= Idle /\ job[t].op = "create" /\ job[t].step /= "store_id"
    BY DEF CreateStep, CreateMeta, SerializeMeta, CreateFile, WriteHeader, Publish, At
  <1>2. mode' = "up" /\ UNCHANGED <<next_table_id, statements, twin>>
    BY <1>1 DEF CreateStep, CreateMeta, SerializeMeta, CreateFile, WriteHeader, Publish, Same, Fault, tables, disk,
       history
  <1>3. Return(t) \/ \E s \in {"serialize", "data", "header", "open"} : Goto(t, s)
    BY DEF CreateStep, CreateMeta, SerializeMeta, CreateFile, WriteHeader, Publish
  <1>4. JobMoves(t) /\ (job'[t] /= Idle => job'[t].step /= "store_id")
    BY <1>1, <1>3, ThreadMoves
  <1>5. GoesOn(t)
    BY <1>1, <1>2, <1>4 DEF GoesOn
  <1>6. ~Rewrites(t)'
    BY <1>1, <1>4 DEF JobMoves, SameJob, Rewrites
  <1>7. LogKept
    BY Untouched DEF CreateStep, CreateMeta, SerializeMeta, CreateFile, WriteHeader, Publish, disk
  <1>8. Drew(t) /\ IsJob(job[t]) /\ n \in Names /\ <<job[t].id, job[t].ser, n>> \in Drawn
    <2>1. Drew(t)
      BY <1>1 DEF Drew, Creates
    <2>2. IsJob(job[t]) /\ n \in Names
      BY <1>1 DEF TypeOK, IsJob
    <2> QED
      BY <2>1, <2>2, InDrawn
  <1>9. FilesKept(t)
    <2>1. UNCHANGED tmp /\ (UNCHANGED meta \/ \E m : meta' = [meta EXCEPT ![n] = m] /\ m \in {Empty, NewMeta(t)})
      BY DEF CreateStep, CreateMeta, SerializeMeta, CreateFile, WriteHeader, Publish, disk
    <2>2. CASE UNCHANGED meta
      BY <1>6, <2>1, <2>2, Untouched
    <2>3. CASE \E m : meta' = [meta EXCEPT ![n] = m] /\ m \in {Empty, NewMeta(t)}
      <3>1. PICK m : meta' = [meta EXCEPT ![n] = m] /\ m \in {Empty, NewMeta(t)}
        BY <2>3
      <3>2. m = Empty \/ <<m.id, m.ser, n>> \in Drawn
        BY <1>8, <3>1 DEF NewMeta
      <3> QED
        BY <1>6, <1>8, <2>1, <3>1, <3>2, OneMeta
    <2> QED
      BY <2>1, <2>2, <2>3
  <1>10. TablesKept(t)
    <2>1. \/ UNCHANGED opened_tables
          \/ /\ opened_tables' = [opened_tables EXCEPT ![n] =
                  [id |-> job[t].id, ser |-> job[t].ser, indexes |-> {}, listed |-> {}]]
             /\ Return(t)
      BY DEF CreateStep, CreateMeta, SerializeMeta, CreateFile, WriteHeader, Publish, tables
    <2>2. CASE UNCHANGED opened_tables
      BY <2>2, Untouched
    <2>3. CASE /\ opened_tables' = [opened_tables EXCEPT ![n] =
                  [id |-> job[t].id, ser |-> job[t].ser, indexes |-> {}, listed |-> {}]]
               /\ Return(t)
      <3> DEFINE T == [id |-> job[t].id, ser |-> job[t].ser, indexes |-> {}, listed |-> {}]
      <3>1. job'[t] = Idle
        BY <1>1, <2>3, ThreadMoves
      <3>2. IsTable(T) /\ T.id = job[t].id /\ T.ser = job[t].ser
        BY <1>8 DEF IsTable, IsJob
      <3>3. opened_tables' = [opened_tables EXCEPT ![n] = T]
        BY <2>3
      <3> HIDE DEF T
      <3>4. /\ DOMAIN opened_tables' = Names /\ opened_tables'[n] = T
            /\ \A o \in Names \ {n} : opened_tables'[o] = opened_tables[o]
        BY <1>8, <3>3 DEF TypeOK
      <3>5. ASSUME NEW o \in Names, IsOpen(o)'
            PROVE  IsTable(opened_tables'[o]) /\ (SameTable(o) \/ Published(t, o))
        <4>1. CASE o = n
          BY <1>8, <3>1, <3>2, <3>4, <4>1 DEF Published
        <4>2. CASE o /= n
          BY <3>4, <3>5, <4>2 DEF SameTable, IsOpen, TypeOK
        <4> QED
          BY <4>1, <4>2
      <3> QED
        BY <3>4, <3>5 DEF TablesKept
    <2> QED
      BY <2>1, <2>2, <2>3
  <1> QED
    BY <1>5, <1>7, <1>9, <1>10 DEF Moves

\* The steps of DROP TABLE.
DropStep(t) == DropClose(t) \/ DropData(t) \/ DropMeta(t) \/ DropIndex(t) \/ (DropErase(t) /\ Alive(t))

\* A DROP TABLE only takes tables and files away.
LEMMA DropMoves ==
  ASSUME TypeOK, NEW t \in Threads, DropStep(t)
  PROVE  Moves(t)
  <1> DEFINE n == job[t].n
  <1>1. mode = "up" /\ job[t] /= Idle /\ job[t].op = "drop"
    BY DEF DropStep, DropClose, DropData, DropMeta, DropIndex, DropErase, At
  <1>2. mode' = "up" /\ UNCHANGED <<next_table_id, statements, twin>>
    BY <1>1 DEF DropStep, DropClose, DropData, DropMeta, DropIndex, DropErase, Same, Fault, tables, disk, history
  <1>3. \/ Return(t) \/ (\E s : Goto(t, s)) \/ (\E l : job' = [job EXCEPT ![t].left = l])
        \/ \E s, l : job' = [job EXCEPT ![t].step = s, ![t].left = l]
    <2>1. CASE DropIndex(t)
      BY <2>1 DEF DropIndex
    <2> QED
      BY <2>1 DEF DropStep, DropClose, DropData, DropMeta, DropErase
  <1>4. JobMoves(t)
    BY <1>1, <1>3, ThreadMoves, ZenonT(60)
  <1>5. GoesOn(t)
    BY <1>1, <1>2, <1>4 DEF GoesOn
  <1>6. ~Rewrites(t)'
    BY <1>1, <1>4 DEF JobMoves, SameJob, Rewrites
  <1>7. LogKept
    BY Untouched DEF DropStep, DropClose, DropData, DropMeta, DropIndex, DropErase, disk
  <1>8. n \in Names
    BY <1>1 DEF TypeOK, IsJob
  <1>9. FilesKept(t)
    <2>1. UNCHANGED tmp /\ (UNCHANGED meta \/ meta' = [meta EXCEPT ![n] = NoFile])
      BY DEF DropStep, DropClose, DropData, DropMeta, DropIndex, DropErase, disk
    <2>2. CASE UNCHANGED meta
      BY <1>6, <2>1, <2>2, Untouched
    <2>3. CASE meta' = [meta EXCEPT ![n] = NoFile]
      BY <1>6, <1>8, <2>1, <2>3, OneMeta
    <2> QED
      BY <2>1, <2>2, <2>3
  <1>10. TablesKept(t)
    <2>1. UNCHANGED opened_tables \/ opened_tables' = [opened_tables EXCEPT ![n] = NoTable]
      BY DEF DropStep, DropClose, DropData, DropMeta, DropIndex, DropErase, tables
    <2>2. CASE UNCHANGED opened_tables
      BY <2>2, Untouched
    <2>3. CASE opened_tables' = [opened_tables EXCEPT ![n] = NoTable]
      <3>1. /\ DOMAIN opened_tables' = Names /\ opened_tables'[n] = NoTable
            /\ \A o \in Names \ {n} : opened_tables'[o] = opened_tables[o]
        BY <1>8, <2>3 DEF TypeOK
      <3> QED
        BY <3>1 DEF TablesKept, SameTable, IsOpen, TypeOK
    <2> QED
      BY <2>1, <2>2, <2>3
  <1> QED
    BY <1>5, <1>7, <1>9, <1>10 DEF Moves

\* A Table whose indexes change stays the table it is.
LEMMA SameTables ==
  ASSUME TypeOK, NEW t \in Threads, NEW n \in Names, NEW T,
         opened_tables' = [opened_tables EXCEPT ![n] = T], IsOpen(n), LikeTable(opened_tables[n], T)
  PROVE  TablesKept(t)
  <1>1. /\ DOMAIN opened_tables' = Names /\ opened_tables'[n] = T
        /\ \A o \in Names \ {n} : opened_tables'[o] = opened_tables[o]
    BY DEF TypeOK
  <1>2. ASSUME NEW o \in Names, IsOpen(o)' PROVE IsTable(opened_tables'[o]) /\ SameTable(o)
    <2>1. CASE o = n
      BY <1>1, <2>1 DEF SameTable, LikeTable
    <2>2. CASE o /= n
      BY <1>1, <1>2, <2>2 DEF SameTable, IsOpen, TypeOK
    <2> QED
      BY <2>1, <2>2
  <1> QED
    BY <1>1, <1>2 DEF TablesKept

\* The steps of CREATE INDEX.
IndexStep(t) ==
  \/ CreateIndexFile(t) \/ BuildIndex(t) \/ (PushIndex(t) /\ mode' /= "wild")
  \/ OpenTmp(t) \/ WriteTmp(t) \/ RenameTmp(t)

\* What CREATE INDEX writes into the temporary file, and what it renames, is about
\* the opened table.
LEMMA IndexMoves ==
  ASSUME TypeOK, TmpMatches, NEW t \in Threads, IndexStep(t)
  PROVE  Moves(t)
  <1> DEFINE n == job[t].n
  <1>1. mode = "up" /\ job[t] /= Idle /\ job[t].op = "index" /\ Alive(t)
    BY DEF IndexStep, CreateIndexFile, BuildIndex, PushIndex, OpenTmp, WriteTmp, RenameTmp, Building, At
  <1>2. mode' = "up" /\ UNCHANGED <<next_table_id, statements, twin>>
    <2>1. CASE PushIndex(t) /\ mode' /= "wild"
      BY <1>1, <2>1 DEF PushIndex
    <2> QED
      BY <1>1, <2>1 DEF IndexStep, CreateIndexFile, BuildIndex, OpenTmp, WriteTmp, RenameTmp, Same, Fault,
         tables, disk, history
  <1>3. \/ Return(t) \/ (\E s \in {"build", "push", "tmp"} : Goto(t, s))
        \/ (OpenTmp(t) /\ tmp' = [tmp EXCEPT ![n] = Empty]
              /\ \E l : job' = [job EXCEPT ![t].step = "write", ![t].left = l])
        \/ (WriteTmp(t) /\ Goto(t, "rename"))
    <2>1. CASE PushIndex(t) /\ mode' /= "wild"
      BY <2>1 DEF PushIndex
    <2>2. CASE OpenTmp(t)
      BY <2>2 DEF OpenTmp
    <2>3. CASE WriteTmp(t)
      BY <2>3 DEF WriteTmp
    <2> QED
      BY <2>1, <2>2, <2>3 DEF IndexStep, CreateIndexFile, BuildIndex, RenameTmp
  <1>4. n \in Names /\ IsOpen(n) /\ opened_tables[n].ser = job[t].ser /\ IsTable(opened_tables[n])
        /\ DOMAIN tmp = Names /\ DOMAIN meta = Names
    BY <1>1 DEF TypeOK, IsJob, Alive, IsOpen
  <1>5. JobMoves(t)
    BY <1>1, <1>3, ThreadMoves, ZenonT(60)
  <1>6. GoesOn(t)
    BY <1>1, <1>2, <1>5 DEF GoesOn
  <1>7. Rewrites(t)' => Rewrites(t) \/ tmp' = [tmp EXCEPT ![n] = Empty]
    <2>1. CASE Return(t)
      BY <1>1, <2>1, ThreadMoves DEF Rewrites
    <2>2. CASE \E s \in {"build", "push", "tmp"} : Goto(t, s)
      BY <1>1, <2>2, ThreadMoves DEF Rewrites
    <2>3. CASE WriteTmp(t)
      BY <1>1, <2>3 DEF WriteTmp, Building, At, Rewrites
    <2> QED
      BY <1>3, <2>1, <2>2, <2>3
  <1>8. <<opened_tables[n].id, opened_tables[n].ser, n>> \in Drawn
    BY <1>4, InDrawn
  <1>9. LogKept
    BY Untouched DEF IndexStep, CreateIndexFile, BuildIndex, PushIndex, OpenTmp, WriteTmp, RenameTmp, disk
  <1>10. TablesKept(t)
    <2>1. CASE UNCHANGED opened_tables
      BY <2>1, Untouched
    <2>2. CASE PushIndex(t) /\ mode' /= "wild"
      <3>1. PICK l : opened_tables' = [opened_tables EXCEPT ![n].indexes = l]
        BY <2>2 DEF PushIndex
      <3>2. opened_tables' = [opened_tables EXCEPT ![n] = [opened_tables[n] EXCEPT !.indexes = l]]
        BY <3>1
      <3>3. LikeTable(opened_tables[n], [opened_tables[n] EXCEPT !.indexes = l])
        BY <1>4, TableIndexes
      <3> QED
        BY <1>4, <3>2, <3>3, SameTables
    <2>3. CASE RenameTmp(t)
      <3>1. CASE opened_tables' = [opened_tables EXCEPT ![n].listed = job[t].left]
        <4>1. opened_tables' = [opened_tables EXCEPT ![n] = [opened_tables[n] EXCEPT !.listed = job[t].left]]
          BY <3>1
        <4>2. LikeTable(opened_tables[n], [opened_tables[n] EXCEPT !.listed = job[t].left])
          BY <1>4, TableIndexes
        <4> QED
          BY <1>4, <4>1, <4>2, SameTables
      <3> QED
        BY <2>1, <2>3, <3>1 DEF RenameTmp
    <2> QED
      BY <2>1, <2>2, <2>3 DEF IndexStep, CreateIndexFile, BuildIndex, OpenTmp, WriteTmp, tables
  <1>11. FilesKept(t)
    <2>1. CASE UNCHANGED <<meta, tmp>> /\ (Rewrites(t)' => Rewrites(t))
      BY <2>1, Untouched
    <2>2. CASE UNCHANGED meta /\ tmp' = [tmp EXCEPT ![n] = Empty]
      <3>1. /\ DOMAIN tmp' = Names /\ tmp'[n] = Empty /\ \A o \in Names \ {n} : tmp'[o] = tmp[o]
        BY <1>4, <2>2
      <3>2. \A o \in Names : HasMeta(o)' => <<meta'[o].id, meta'[o].ser, o>> \in Drawn
        BY <2>2, InDrawn DEF HasMeta
      <3> QED
        BY <1>4, <2>2, <3>1, <3>2 DEF FilesKept, Blank
    <2>3. CASE Rewrites(t) /\ Written(t)
      <3> DEFINE m == [id |-> opened_tables[n].id, ser |-> job[t].ser, indexes |-> job[t].left]
      <3>1. m.id = opened_tables[n].id /\ m.ser = opened_tables[n].ser
        BY <1>4
      <3>2. \/ tmp' = [tmp EXCEPT ![n] = m] /\ UNCHANGED meta
            \/ meta' = [meta EXCEPT ![n] = m] /\ UNCHANGED tmp
            \/ UNCHANGED <<meta, tmp>>
        BY <2>3 DEF Written
      <3> HIDE DEF m
      <3>3. CASE tmp' = [tmp EXCEPT ![n] = m] /\ UNCHANGED meta
        <4>1. /\ DOMAIN tmp' = Names /\ tmp'[n] = m /\ \A o \in Names \ {n} : tmp'[o] = tmp[o]
          BY <1>4, <3>3
        <4>2. \A o \in Names : HasMeta(o)' => <<meta'[o].id, meta'[o].ser, o>> \in Drawn
          BY <3>3, InDrawn DEF HasMeta
        <4> QED
          BY <1>1, <1>4, <2>3, <3>1, <3>3, <4>1, <4>2 DEF FilesKept
      <3>4. CASE meta' = [meta EXCEPT ![n] = m] /\ UNCHANGED tmp
        BY <1>4, <1>8, <2>3, <3>1, <3>4, OneMeta
      <3> QED
        BY <2>1, <2>3, <3>2, <3>3, <3>4
    <2>4. CASE RenameTmp(t) /\ tmp[n] /= NoFile /\ meta' = [meta EXCEPT ![n] = tmp[n]]
               /\ tmp' = [tmp EXCEPT ![n] = NoFile]
      <3>1. Rewrites(t)
        BY <1>1, <2>4 DEF RenameTmp, Building, At, Rewrites
      <3>2. tmp[n] = Empty \/ <<tmp[n].id, tmp[n].ser, n>> \in Drawn
        BY <1>1, <1>8, <2>4, <3>1 DEF TmpMatches, Blank
      <3>3. /\ DOMAIN tmp' = Names /\ tmp'[n] = NoFile /\ \A o \in Names \ {n} : tmp'[o] = tmp[o]
            /\ DOMAIN meta' = Names /\ meta'[n] = tmp[n] /\ \A o \in Names \ {n} : meta'[o] = meta[o]
        BY <1>4, <2>4
      <3>4. ASSUME NEW o \in Names, HasMeta(o)' PROVE <<meta'[o].id, meta'[o].ser, o>> \in Drawn
        <4>1. CASE o = n
          BY <3>2, <3>3, <3>4, <4>1 DEF HasMeta
        <4>2. CASE o /= n
          <5>1. HasMeta(o) /\ meta'[o] = meta[o]
            BY <3>3, <3>4, <4>2 DEF HasMeta
          <5> QED
            BY <5>1, InDrawn
        <4> QED
          BY <4>1, <4>2
      <3> QED
        BY <3>1, <3>3, <3>4 DEF FilesKept, Blank
    <2>5. CASE CreateIndexFile(t) \/ BuildIndex(t) \/ PushIndex(t)
      <3>1. UNCHANGED <<meta, tmp>>
        BY <2>5 DEF CreateIndexFile, BuildIndex, PushIndex, disk
      <3> QED
        BY <1>7, <2>1, <2>2, <3>1
    <2>6. CASE OpenTmp(t)
      <3>1. UNCHANGED meta /\ (tmp' = [tmp EXCEPT ![n] = Empty] \/ UNCHANGED tmp)
        BY <2>6 DEF OpenTmp
      <3> QED
        BY <1>7, <2>1, <2>2, <3>1
    <2>7. CASE WriteTmp(t)
      <3>1. Rewrites(t)
        BY <1>1, <2>7 DEF WriteTmp, Building, At, Rewrites
      <3>2. Written(t) \/ UNCHANGED <<meta, tmp>>
        BY <2>7 DEF WriteTmp
      <3> QED
        BY <2>1, <2>3, <3>1, <3>2
    <2>8. CASE RenameTmp(t)
      <3>1. Rewrites(t)
        BY <1>1, <2>8 DEF RenameTmp, Building, At, Rewrites
      <3>2. \/ tmp[n] /= NoFile /\ meta' = [meta EXCEPT ![n] = tmp[n]] /\ tmp' = [tmp EXCEPT ![n] = NoFile]
            \/ UNCHANGED <<meta, tmp>>
        BY <2>8 DEF RenameTmp
      <3> QED
        BY <2>1, <2>4, <2>8, <3>1, <3>2
    <2> QED
      BY <2>5, <2>6, <2>7, <2>8 DEF IndexStep
  <1> QED
    BY <1>6, <1>9, <1>10, <1>11 DEF Moves

\* The steps of INSERT.
InsertStep(t) == InsertRecord(t) \/ Commit(t)

\* A record of the log is written with the id of the opened table.
LEMMA InsertMoves ==
  ASSUME TypeOK, NEW t \in Threads, InsertStep(t)
  PROVE  Moves(t)
  <1> DEFINE n == job[t].n
  <1>1. mode = "up" /\ job[t] /= Idle /\ job[t].op = "insert" /\ Alive(t)
    BY DEF InsertStep, InsertRecord, Commit, At
  <1>2. mode' = "up" /\ UNCHANGED <<meta, tmp, opened_tables, next_table_id, statements, twin>>
    BY <1>1 DEF InsertStep, InsertRecord, Commit, Same, tables, history
  <1>3. Return(t) \/ \E s : Goto(t, s)
    BY DEF InsertStep, InsertRecord, Commit
  <1>4. JobMoves(t)
    BY <1>1, <1>3, ThreadMoves
  <1>5. GoesOn(t)
    BY <1>1, <1>2, <1>4 DEF GoesOn
  <1>6. ~Rewrites(t)'
    BY <1>1, <1>4 DEF JobMoves, SameJob, Rewrites
  <1>7. n \in Names /\ IsOpen(n) /\ opened_tables[n].ser = job[t].ser /\ IsTable(opened_tables[n]) /\ IsJob(job[t])
    BY <1>1 DEF TypeOK, IsJob, Alive, IsOpen
  <1>8. LogKept
    <2>1. CASE InsertRecord(t)
      <3> DEFINE e == [id |-> opened_tables[n].id, ser |-> job[t].ser, row |-> job[t].row, done |-> FALSE]
      <3>1. log' = log \cup {e}
        BY <2>1 DEF InsertRecord
      <3>2. e \in LogT
        BY <1>7 DEF LogT, IsTable, IsJob
      <3>3. <<opened_tables[n].id, opened_tables[n].ser, n>> \in Drawn
        BY <1>7, InDrawn
      <3>4. <<e.id, e.ser, n>> \in Drawn
        BY <1>7, <3>3
      <3> HIDE DEF e
      <3> QED
        BY <1>7, <3>1, <3>2, <3>4 DEF LogKept, TypeOK
    <2>2. CASE Commit(t)
      <3>1. log' = {IF e.row = job[t].row THEN [e EXCEPT !.done = TRUE] ELSE e : e \in log}
        BY <2>2 DEF Commit
      <3>2. \A e \in log : /\ e \in LogT /\ [e EXCEPT !.done = TRUE] \in LogT
                           /\ [e EXCEPT !.done = TRUE].id = e.id /\ [e EXCEPT !.done = TRUE].ser = e.ser
        BY DEF TypeOK, LogT
      <3>3. ASSUME NEW f \in log' PROVE f \in LogT /\ \E e \in log : f.id = e.id /\ f.ser = e.ser
        <4>1. PICK e \in log : f = e \/ f = [e EXCEPT !.done = TRUE]
          BY <3>1
        <4> QED
          BY <3>2, <4>1
      <3> QED
        BY <3>3 DEF LogKept
    <2> QED
      BY <2>1, <2>2 DEF InsertStep
  <1> QED
    BY <1>2, <1>5, <1>6, <1>8, Untouched DEF Moves

-----------------------------------------------------------------------------
(* The invariant, and what it says of the ids.                             *)

\* A statement begins.
LEMMA StatementKeeps ==
  ASSUME IInv, NEW t \in Threads, Statement(t)
  PROVE  IInv'
  <1>1. ASSUME NEW n \in Names, CreateTable(t, n) PROVE IInv'
    BY <1>1, CreateKeeps
  <1>2. ASSUME NEW n \in Names, NEW op, NEW step, NEW i, IsOpen(n), op /= "create", op = "index" => step = "file",
               Begin(t, op, step, n, i, opened_tables[n].ser), UNCHANGED history
        PROVE  IInv'
    <2>1. TypeOK /\ opened_tables[n].ser \in Nat
      BY <1>2 DEF IInv, TypeOK, IsOpen, IsTable
    <2>2. Begun(t, op, step, n, opened_tables[n].ser)
      BY <1>2, <2>1, BeginJob
    <2>3. twin' = twin
      BY <1>2 DEF history
    <2> QED
      BY <1>2, <2>2, <2>3, BeginKeeps
  <1>3. ASSUME NEW n \in Names, DropTable(t, n) PROVE IInv'
    BY <1>2, <1>3 DEF DropTable, IsOpen
  <1>4. ASSUME NEW n \in Names, Insert(t, n) PROVE IInv'
    BY <1>2, <1>4 DEF Insert, IsOpen
  <1>5. ASSUME NEW n \in Names, NEW i \in IndexNames, CreateIndex(t, n, i) PROVE IInv'
    BY <1>2, <1>5 DEF CreateIndex, IsOpen
  <1> QED
    BY <1>1, <1>3, <1>4, <1>5 DEF Statement

\* A statement goes on, or uses freed memory.
LEMMA StepKeeps ==
  ASSUME IInv, NEW t \in Threads, Step(t)
  PROVE  IInv'
  <1>1. TypeOK /\ TmpMatches
    BY DEF IInv
  <1>2. CASE StoreId(t)
    BY <1>2, StoreIdKeeps
  <1>3. CASE CreateStep(t) \/ DropStep(t) \/ IndexStep(t) \/ InsertStep(t)
    BY <1>1, <1>3, CreateMoves, DropMoves, IndexMoves, InsertMoves, MoveKeeps
  <1>4. CASE DropErase(t) /\ ~Alive(t)
    BY <1>4, IdleKeeps DEF DropErase, disk, history
  <1>5. CASE PushIndex(t) /\ mode' = "wild"
    <2>1. mode = "up"
      BY <1>5 DEF PushIndex, Building, At
    <2>2. UNCHANGED <<meta, tmp, log, opened_tables, next_table_id, job, statements, twin>>
      BY <1>5, <2>1 DEF PushIndex, disk
    <2> QED
      BY <1>5, <2>2, IdleKeeps
  <1>6. CASE UseAfterDelete(t, TRUE) \/ UseAfterDelete(t, FALSE)
    BY <1>6, IdleKeeps DEF UseAfterDelete, disk, tables, history
  <1> QED
    BY <1>2, <1>3, <1>4, <1>5, <1>6 DEF Step, CreateStep, DropStep, IndexStep, InsertStep

\* The parts of IInv hold of every state: with no table, statement and file at
\* first, and after each step of a statement, crash, shutdown and start.
THEOREM Invariance == Spec => []IInv
  <1>1. Init => IInv
    <2> SUFFICES ASSUME Init PROVE IInv
      OBVIOUS
    <2>1. /\ \A n \in Names : opened_tables[n] = NoTable /\ meta[n] = NoFile
          /\ \A t \in Threads : job[t] = Idle
          /\ log = {} /\ next_table_id = 0 /\ statements = 0 /\ twin = FALSE /\ mode = "down"
          /\ DOMAIN meta = Names /\ DOMAIN tmp = Names /\ DOMAIN opened_tables = Names /\ DOMAIN job = Threads
      BY DEF Init
    <2>2. Drawn = {}
      BY <2>1 DEF Drawn, IsOpen, HasMeta, Drew, Creates
    <2>3. TypeOK
      BY <2>1 DEF TypeOK
    <2>4. Given /\ Serials /\ OneName /\ TmpMatches
      BY <2>1, <2>2 DEF Given, Serials, OneName, TmpMatches, Creates, Rewrites
    <2>5. IdsExact
      BY <2>1, <2>2 DEF IdsExact, OneSerial, LogSerial, IdsDrawn
    <2> QED
      BY <2>3, <2>4, <2>5 DEF IInv
  <1>2. IInv /\ [Next]_vars => IInv'
    <2> SUFFICES ASSUME IInv, [Next]_vars PROVE IInv'
      OBVIOUS
    <2>1. ASSUME NEW t \in Threads, Statement(t) PROVE IInv'
      BY <2>1, StatementKeeps
    <2>2. ASSUME NEW t \in Threads, Step(t) PROVE IInv'
      BY <2>2, StepKeeps
    <2>3. CASE Crash
      <3>1. Ended /\ log' \subseteq log
        BY <2>3 DEF Crash
      <3> QED
        BY <3>1, EndKeeps
    <2>4. CASE Shutdown
      BY <2>4, EndKeeps DEF Shutdown
    <2>5. CASE Start
      BY <2>5, StartKeeps
    <2>6. CASE UNCHANGED vars
      BY <2>6, IdleKeeps DEF vars, disk, tables, history
    <2> QED
      BY <2>1, <2>2, <2>3, <2>4, <2>5, <2>6 DEF Next
  <1> QED
    BY <1>1, <1>2, PTL DEF Spec

\* Open tables have different ids, and a record of the log names, by its id, the
\* table it was written for and no other: Db::create_table never gives an id out
\* twice, across any number of restarts, unless two of its calls overlap at
\* next_table_id_++.
THEOREM IdsUnique == Spec => []IdsNameOneTable
  <1>1. IInv => IdsNameOneTable
    <2> SUFFICES ASSUME IInv, mode = "up", ~twin
                 PROVE  /\ \A n, o \in Names : n /= o /\ IsOpen(n) /\ IsOpen(o)
                                                 => opened_tables[n].id /= opened_tables[o].id
                        /\ \A e \in log, n \in Names : IsOpen(n) /\ opened_tables[n].id = e.id
                                                         => opened_tables[n].ser = e.ser
      BY DEF IdsNameOneTable, IsOpen
    <2> DEFINE c(n) == <<opened_tables[n].id, opened_tables[n].ser, n>>
    <2>1. OneSerial /\ LogSerial /\ OneName
      BY DEF IInv, IdsExact
    <2>2. \A n \in Names : IsOpen(n) => c(n) \in Drawn
      BY InDrawn
    <2>3. ASSUME NEW n \in Names, NEW o \in Names, IsOpen(n), IsOpen(o), opened_tables[n].id = opened_tables[o].id
          PROVE  n = o
      <3>1. c(n) \in Drawn /\ c(o) \in Drawn /\ c(n)[1] = c(o)[1]
        BY <2>2, <2>3
      <3>2. c(n)[2] = c(o)[2]
        BY <2>1, <3>1 DEF OneSerial
      <3>3. c(n)[3] = c(o)[3]
        BY <2>1, <3>1, <3>2 DEF OneName
      <3> QED
        BY <3>3
    <2>4. ASSUME NEW e \in log, NEW n \in Names, IsOpen(n), opened_tables[n].id = e.id
          PROVE  opened_tables[n].ser = e.ser
      <3>1. c(n) \in Drawn /\ c(n)[1] = e.id
        BY <2>2, <2>4
      <3>2. c(n)[2] = e.ser
        BY <2>1, <3>1 DEF LogSerial
      <3> QED
        BY <3>2
    <2> QED
      BY <2>3, <2>4
  <1> QED
    BY <1>1, Invariance, PTL

-----------------------------------------------------------------------------
(* The statements of the threads, and what is stored.                      *)

\* The threads' statements; a CREATE INDEX has the name of its index.
JobsOK == job \in [Threads -> Job \cup {Idle}] /\ \A t \in Threads : job[t] /= Idle /\ job[t].op = "index" => job[t].i \in IndexNames

\* The thread's statement goes to step s with `left' = l; the statement ends.
MovesTo(t, s, l) ==
  /\ \A u \in Threads \ {t} : job'[u] = job[u]
  /\ job'[t] /= Idle /\ job'[t].step = s /\ job'[t].left = l
  /\ job'[t].op = job[t].op /\ job'[t].n = job[t].n /\ job'[t].i = job[t].i /\ job'[t].ser = job[t].ser
  /\ job'[t].id = job[t].id /\ job'[t].row = job[t].row
Ends(t) == job'[t] = Idle /\ \A u \in Threads \ {t} : job'[u] = job[u]

\* A statement with another step and another `left' is a statement still.
LEMMA JobFields ==
  ASSUME NEW j \in Job, NEW s \in Steps, NEW l \in SUBSET IndexNames
  PROVE  LET k == [op |-> j.op, step |-> s, n |-> j.n, i |-> j.i, ser |-> j.ser, id |-> j.id, row |-> j.row, left |-> l]
         IN  /\ k \in Job /\ k /= Idle
             /\ [[j EXCEPT !.step = s] EXCEPT !.left = l] = k
  <1> DEFINE J == [op |-> j.op, step |-> j.step, n |-> j.n, i |-> j.i, ser |-> j.ser, id |-> j.id,
                   row |-> j.row, left |-> j.left]
             m == [op |-> j.op, step |-> s, n |-> j.n, i |-> j.i, ser |-> j.ser, id |-> j.id,
                   row |-> j.row, left |-> j.left]
             k == [op |-> j.op, step |-> s, n |-> j.n, i |-> j.i, ser |-> j.ser, id |-> j.id,
                   row |-> j.row, left |-> l]
  <1>1. j = J
    BY DEF Job
  <1>2. k \in Job
    BY DEF Job
  <1>3. k /= Idle
    BY <1>2, ValuesAssumption
  <1>4. [J EXCEPT !.step = s] = m
    OBVIOUS
  <1>5. [m EXCEPT !.left = l] = k
    OBVIOUS
  <1>6. [[j EXCEPT !.step = s] EXCEPT !.left = l] = k
    <2>1. [j EXCEPT !.step = s] = m
      BY <1>1, <1>4
    <2> HIDE DEF m, k
    <2> QED
      BY <1>5, <2>1
  <1> QED
    BY <1>2, <1>3, <1>6

\* The four ways in which a step changes its thread's statement.
LEMMA JobSteps ==
  ASSUME JobsOK, NEW t \in Threads, job[t] /= Idle
  PROVE  /\ \A s \in Steps : Goto(t, s) => MovesTo(t, s, job[t].left) /\ JobsOK'
         /\ Return(t) => Ends(t) /\ JobsOK'
         /\ \A l \in SUBSET IndexNames : job' = [job EXCEPT ![t].left = l] => MovesTo(t, job[t].step, l) /\ JobsOK'
         /\ \A s \in Steps, l \in SUBSET IndexNames :
              job' = [job EXCEPT ![t].step = s, ![t].left = l] => MovesTo(t, s, l) /\ JobsOK'
  <1>1. job[t] \in Job
    BY DEF JobsOK
  <1>2. job[t].step \in Steps /\ job[t].left \in SUBSET IndexNames
    BY <1>1 DEF Job, Steps
  <1>3. ASSUME NEW s \in Steps, NEW l \in SUBSET IndexNames, 
               job' = [job EXCEPT ![t] = [[job[t] EXCEPT !.step = s] EXCEPT !.left = l]]
        PROVE  MovesTo(t, s, l) /\ JobsOK'
    <2> DEFINE j == job[t]
               k == [op |-> j.op, step |-> s, n |-> j.n, i |-> j.i, ser |-> j.ser, id |-> j.id, row |-> j.row, left |-> l]
    <2>1. k \in Job /\ k /= Idle /\ [[j EXCEPT !.step = s] EXCEPT !.left = l] = k
      BY <1>1, JobFields
    <2>2. job' = [job EXCEPT ![t] = k]
      BY <1>3, <2>1
    <2>3. k.step = s /\ k.left = l /\ k.op = job[t].op /\ k.n = job[t].n /\ k.i = job[t].i /\ k.ser = job[t].ser
          /\ k.id = job[t].id /\ k.row = job[t].row
      OBVIOUS
    <2> HIDE DEF k
    <2>4. job'[t] = k /\ \A u \in Threads \ {t} : job'[u] = job[u]
      BY <2>2 DEF JobsOK
    <2>5. job' \in [Threads -> Job \cup {Idle}]
      BY <2>1, <2>2 DEF JobsOK
    <2>6. MovesTo(t, s, l)
      BY <2>1, <2>3, <2>4 DEF MovesTo
    <2> QED
      BY <2>3, <2>4, <2>5, <2>6 DEF JobsOK
  <1>4. ASSUME NEW s \in Steps, Goto(t, s) PROVE MovesTo(t, s, job[t].left) /\ JobsOK'
    <2>1. job[t] = [op |-> job[t].op, step |-> job[t].step, n |-> job[t].n, i |-> job[t].i, ser |-> job[t].ser,
                    id |-> job[t].id, row |-> job[t].row, left |-> job[t].left]
      BY <1>1 DEF Job
    <2>2. [job[t] EXCEPT !.step = s] = [[job[t] EXCEPT !.step = s] EXCEPT !.left = job[t].left]
      BY <2>1
    <2>3. job' = [job EXCEPT ![t] = [job[t] EXCEPT !.step = s]]
      BY <1>4 DEF Goto
    <2> QED
      BY <1>2, <1>3, <2>2, <2>3
  <1>5. ASSUME Return(t) PROVE Ends(t) /\ JobsOK'
    BY <1>5 DEF Return, Ends, JobsOK
  <1>6. ASSUME NEW l \in SUBSET IndexNames, job' = [job EXCEPT ![t].left = l]
        PROVE  MovesTo(t, job[t].step, l) /\ JobsOK'
    <2>1. [job[t] EXCEPT !.left = l] = [[job[t] EXCEPT !.step = job[t].step] EXCEPT !.left = l]
      BY <1>1 DEF Job
    <2>2. job' = [job EXCEPT ![t] = [job[t] EXCEPT !.left = l]]
      BY <1>6
    <2> QED
      BY <1>2, <1>3, <2>1, <2>2
  <1>7. ASSUME NEW s \in Steps, NEW l \in SUBSET IndexNames, job' = [job EXCEPT ![t].step = s, ![t].left = l]
        PROVE  MovesTo(t, s, l) /\ JobsOK'
    <2> DEFINE J == [job EXCEPT ![t].step = s]
               j == [job[t] EXCEPT !.step = s]
    <2>1. job' = [J EXCEPT ![t].left = l]
      BY <1>7
    <2>2. J = [job EXCEPT ![t] = j] /\ J[t] = j
      BY DEF JobsOK
    <2> HIDE DEF J
    <2>3. job' = [J EXCEPT ![t] = [j EXCEPT !.left = l]]
      BY <2>1, <2>2
    <2>4. job' = [job EXCEPT ![t] = [j EXCEPT !.left = l]]
      BY <2>2, <2>3 DEF JobsOK
    <2> QED
      BY <1>3, <2>4
  <1> QED
    BY <1>4, <1>5, <1>6, <1>7

\* What the files and the tables hold.
FilesOK ==
  /\ meta \in [Names -> MetaData \cup {NoFile, Empty}] /\ tmp \in [Names -> MetaData \cup {NoFile, Empty}]
  /\ DOMAIN data = Names
TablesOK ==
  /\ opened_tables \in [Names -> Table \cup {NoTable}]
  /\ DOMAIN rows = Names /\ DOMAIN entries = Indexes
Shape == JobsOK /\ FilesOK /\ TablesOK

\* Thread u is at one of these steps of a statement on n.
Doing(u, op, n, steps) == job[u] /= Idle /\ job[u].op = op /\ job[u].n = n /\ job[u].step \in steps

\* The roles a thread has on a name: it has created the meta file; it has closed
\* the pool of the data file; it removes the index files; it has created an index
\* file; it rewrites the meta data.
Maker(u, n) == Doing(u, "create", n, {"serialize", "data", "header", "open"})
Dropper(u, n) == Doing(u, "drop", n, {"data", "meta", "indexes"})
Fells(u, n) == Doing(u, "drop", n, {"indexes"})
Builder(u, n) == Doing(u, "index", n, {"build", "push"})
Rewriter(u, n) == Doing(u, "index", n, {"tmp", "write", "rename"})

\* The opened table's files are not being removed by a DROP TABLE of it; nor its
\* indexes by any DROP TABLE.
Standing(n) == IsOpen(n) /\ \A u \in Threads : Fells(u, n) => ~Alive(u)
Indexed(n) == IsOpen(n) /\ \A u \in Threads : ~Fells(u, n)

\* What the meta file of an opened table says.
MetaOf(n) == [id |-> opened_tables[n].id, ser |-> opened_tables[n].ser, indexes |-> opened_tables[n].listed]

\* The files are held by the open table, or by the DROP TABLE that closed it.
Held(n) == DataFile(n) \in buffer_pools \/ \E u \in Threads : Doing(u, "drop", n, {"data", "meta"})

\* Who may change the files of a name: at most one CREATE TABLE, and no one while
\* the table is open, at most one DROP TABLE of the opened table.
Control(n) ==
  /\ \A u, v \in Threads : Maker(u, n) /\ Maker(v, n) => u = v
  /\ \A u \in Threads : Doing(u, "drop", n, {"data", "meta"}) => Alive(u)
  /\ \A u, v \in Threads : Dropper(u, n) /\ Alive(u) /\ Dropper(v, n) /\ Alive(v) => u = v
  /\ Held(n) => meta[n] /= NoFile /\ \A u \in Threads : ~Maker(u, n)
  /\ \A u \in Threads : Maker(u, n) => meta[n] /= NoFile
  /\ DataFile(n) \in buffer_pools => IsOpen(n) /\ \A u \in Threads : Dropper(u, n) => ~Alive(u)

\* What the meta file and the data file hold, by who controls them.
Content(n) ==
  /\ Standing(n) =>
       /\ meta[n] = MetaOf(n)
       /\ IF \E u \in Threads : Doing(u, "drop", n, {"meta"}) THEN data[n] = "none" ELSE data[n] = "ok"
       /\ Held(n)
  /\ (~Standing(n) /\ \A u \in Threads : ~Maker(u, n)) => meta[n] = NoFile /\ data[n] = "none"
  /\ \A u \in Threads : Maker(u, n) =>
       /\ meta[n] = IF job[u].step = "serialize" THEN Empty ELSE NewMeta(u)
       /\ data[n] = IF job[u].step = "open" THEN "ok" ELSE IF job[u].step = "header" THEN "raw" ELSE "none"

\* table_meta_'s indexes are among indexes_; so are those a CREATE INDEX is about
\* to write.  A table entered while a DROP TABLE of the name walks has none.
Lists(n) ==
  /\ IsOpen(n) => opened_tables[n].listed \subseteq opened_tables[n].indexes
  /\ \A u \in Threads : Rewriter(u, n) /\ Alive(u) =>
       /\ job[u].i \in opened_tables[n].indexes
       /\ job[u].step /= "tmp" => job[u].left \subseteq opened_tables[n].indexes
  /\ \A u \in Threads : Fells(u, n) /\ ~Alive(u) /\ IsOpen(n) => opened_tables[n].indexes = {}

\* The index files and pools there are belong to the table's indexes or to the
\* one CREATE INDEX that builds the index.
Tracked(n, i) == n \notin cut \/ <<n, i>> \notin spoilt
Owned(n) ==
  Indexed(n) => \A i \in IndexNames : Tracked(n, i) =>
    /\ i \in opened_tables[n].indexes => <<n, i>> \in indexFiles /\ <<n, i>> \in buffer_pools
    /\ \A u \in Threads : Builder(u, n) /\ job[u].i = i /\ Alive(u) =>
         /\ <<n, i>> \in indexFiles /\ <<n, i>> \in buffer_pools /\ i \notin opened_tables[n].indexes
         /\ \A v \in Threads : Builder(v, n) /\ job[v].i = i /\ Alive(v) => v = u

\* An index of the table has an entry for each of its records that has a key for
\* it and was not missed when it came into use.
Covers(n, i) ==
  \A r \in Keyed(rows[n], i) : r \in entries[<<n, i>>] \/ <<<<n, i>>, r>> \in missed
Complete(n) ==
  Indexed(n) => \A i \in IndexNames :
    i \in opened_tables[n].indexes /\ <<n, i>> \notin spoilt => Covers(n, i)

\* At most one CREATE INDEX rewrites the meta data, through the temporary file.
OneRewriter(n) ==
  /\ \A u, v \in Threads : Rewriter(u, n) /\ Rewriter(v, n) => u = v
  /\ \A u \in Threads : Rewriter(u, n) /\ Alive(u) /\ job[u].step /= "tmp" =>
       /\ job[u].left = opened_tables[n].listed \cup {job[u].i}
       /\ tmp[n] = IF job[u].step = "write" THEN Empty
                   ELSE [id |-> opened_tables[n].id, ser |-> job[u].ser, indexes |-> job[u].left]

\* Every index file has an owner.
Owners(n) ==
  \A i \in IndexNames : <<n, i>> \in indexFiles /\ <<n, i>> \notin spoilt =>
    \/ Indexed(n) /\ i \in opened_tables[n].indexes
    \/ \E u \in Threads : Builder(u, n) /\ job[u].i = i
    \/ \E u \in Threads : Fells(u, n) /\ i \in job[u].left

\* An index that the meta data does not list is about to be written there.
Pending(n) ==
  Indexed(n) => \A i \in IndexNames : i \in opened_tables[n].indexes /\ <<n, i>> \notin spoilt =>
    \/ i \in opened_tables[n].listed
    \/ \E u \in Threads : Rewriter(u, n) /\ Alive(u) /\ job[u].i = i

\* The invariant of one name while the process is up, and of its files when it is
\* down.
NameInv(n) ==
  /\ Control(n) /\ Lists(n) /\ Owned(n) /\ Complete(n)
  /\ n \notin cut => Content(n) /\ OneRewriter(n) /\ Owners(n) /\ Pending(n)

Disk(n) ==
  /\ IF meta[n] = NoFile THEN data[n] = "none"
     ELSE /\ meta[n] /= Empty /\ data[n] = "ok"
          /\ \A i \in meta[n].indexes : <<n, i>> \in indexFiles
  /\ \A i \in IndexNames : <<n, i>> \in indexFiles /\ <<n, i>> \notin spoilt
                             => meta[n] /= NoFile /\ i \in meta[n].indexes

-----------------------------------------------------------------------------
(* Frames.                                                                 *)

\* NameInv in parts, and what each part depends on.
FilesPart(n) == Control(n) /\ (n \notin cut => Content(n))
IndexPart(n) == Lists(n) /\ Owned(n) /\ (n \notin cut => OneRewriter(n) /\ Owners(n) /\ Pending(n))

SameFiles(n) ==
  /\ \A u \in Threads : /\ Maker(u, n)' <=> Maker(u, n)
                        /\ Dropper(u, n)' <=> Dropper(u, n)
                        /\ Maker(u, n) \/ Dropper(u, n) =>
                             job'[u].step = job[u].step /\ job'[u].ser = job[u].ser /\ job'[u].id = job[u].id
  /\ meta'[n] = meta[n] /\ data'[n] = data[n]
  /\ DataFile(n) \in buffer_pools' <=> DataFile(n) \in buffer_pools
  /\ IsOpen(n)' <=> IsOpen(n)
  /\ IsOpen(n) => /\ opened_tables'[n].id = opened_tables[n].id /\ opened_tables'[n].ser = opened_tables[n].ser
                  /\ opened_tables'[n].listed = opened_tables[n].listed
  /\ n \in cut => n \in cut'

SameIndexes(n) ==
  /\ \A u \in Threads : /\ Builder(u, n)' <=> Builder(u, n)
                        /\ Rewriter(u, n)' <=> Rewriter(u, n)
                        /\ Fells(u, n)' <=> Fells(u, n)
                        /\ Builder(u, n) \/ Rewriter(u, n) \/ Fells(u, n) => job'[u] = job[u]
  /\ opened_tables'[n] = opened_tables[n] /\ tmp'[n] = tmp[n]
  /\ \A i \in IndexNames : /\ <<n, i>> \in indexFiles' <=> <<n, i>> \in indexFiles
                           /\ <<n, i>> \in buffer_pools' <=> <<n, i>> \in buffer_pools
                           /\ <<n, i>> \in spoilt => <<n, i>> \in spoilt'
  /\ n \in cut => n \in cut'

SameRows(n) ==
  /\ \A u \in Threads : Fells(u, n) => Fells(u, n)'
  /\ opened_tables'[n] = opened_tables[n] /\ rows'[n] = rows[n]
  /\ \A i \in IndexNames : /\ entries'[<<n, i>>] = entries[<<n, i>>]
                           /\ <<n, i>> \in spoilt => <<n, i>> \in spoilt'
                           /\ \A r : <<<<n, i>>, r>> \in missed => <<<<n, i>>, r>> \in missed'

\* The files' part of the invariant of a name does not change unless one of the
\* things in SameFiles does; the next two say so of the indexes and the records.
LEMMA FilesFrame ==
  ASSUME NEW n \in Names, FilesPart(n), SameFiles(n)
  PROVE  FilesPart(n)'
  <1>1. \A u \in Threads : Maker(u, n) => NewMeta(u)' = NewMeta(u)
    BY DEF SameFiles, NewMeta
  <1>2. \A u \in Threads : Dropper(u, n) => (Alive(u)' <=> Alive(u))
    BY DEF SameFiles, Dropper, Doing, Alive, IsOpen
  <1>3. \A u \in Threads : /\ Fells(u, n)' <=> Fells(u, n)
                           /\ Doing(u, "drop", n, {"data", "meta"})' <=> Doing(u, "drop", n, {"data", "meta"})
                           /\ Doing(u, "drop", n, {"meta"})' <=> Doing(u, "drop", n, {"meta"})
                           /\ Fells(u, n) \/ Doing(u, "drop", n, {"data", "meta"}) => Dropper(u, n)
    BY DEF SameFiles, Dropper, Fells, Doing
  <1>4. Standing(n)' <=> Standing(n)
    BY <1>2, <1>3 DEF SameFiles, Standing
  <1>5. Held(n)' <=> Held(n)
    BY <1>3 DEF SameFiles, Held
  <1>6. Standing(n) => MetaOf(n)' = MetaOf(n)
    BY DEF SameFiles, Standing, MetaOf
  <1>7. Control(n)'
    BY <1>2, <1>3, <1>5 DEF SameFiles, FilesPart, Control
  <1>8. n \notin cut' => Content(n)'
    BY <1>1, <1>2, <1>3, <1>4, <1>5, <1>6 DEF SameFiles, FilesPart, Content
  <1> QED
    BY <1>7, <1>8 DEF FilesPart

\* Likewise for the indexes and the rewriting of the meta data.
LEMMA IndexFrame ==
  ASSUME NEW n \in Names, IndexPart(n), SameIndexes(n)
  PROVE  IndexPart(n)'
  <1>1. \A u \in Threads : Builder(u, n) \/ Rewriter(u, n) \/ Fells(u, n) => (Alive(u)' <=> Alive(u))
    BY DEF SameIndexes, Builder, Rewriter, Fells, Doing, Alive, IsOpen
  <1>2. (IsOpen(n)' <=> IsOpen(n)) /\ (Indexed(n)' <=> Indexed(n))
    BY DEF SameIndexes, Indexed, IsOpen
  <1>3. Lists(n)'
    BY <1>1, <1>2 DEF SameIndexes, IndexPart, Lists
  <1>4. Owned(n)'
    BY <1>1, <1>2 DEF SameIndexes, IndexPart, Owned, Tracked
  <1>5. n \notin cut' => OneRewriter(n)'
    BY <1>1, <1>2 DEF SameIndexes, IndexPart, OneRewriter
  <1>6. n \notin cut' => Owners(n)'
    BY <1>1, <1>2 DEF SameIndexes, IndexPart, Owners
  <1>7. n \notin cut' => Pending(n)'
    BY <1>1, <1>2 DEF SameIndexes, IndexPart, Pending
  <1> QED
    BY <1>3, <1>4, <1>5, <1>6, <1>7 DEF IndexPart

\* What an index covers depends on the records and their entries only.
LEMMA CoversStill ==
  ASSUME NEW n, UNCHANGED <<rows, entries, missed>>
  PROVE  \A i \in IndexNames : Covers(n, i)' <=> Covers(n, i)
  BY DEF Covers, Keyed

\* Likewise for the records and their index entries.
LEMMA RowsFrame ==
  ASSUME NEW n \in Names, Complete(n), SameRows(n)
  PROVE  Complete(n)'
  <1>1. \A i \in IndexNames : Covers(n, i) => Covers(n, i)'
    BY DEF SameRows, Covers, Keyed
  <1> QED
    BY <1>1 DEF SameRows, Complete, Indexed, IsOpen

-----------------------------------------------------------------------------
(* A step on one name leaves the others alone.                             *)

\* A step of thread t leaves what it does to the other names, and the files,
\* tables and history of name o, as they were.
JobApart(t) == (\A u \in Threads \ {t} : job'[u] = job[u]) /\ (job'[t] /= Idle => job'[t].n = job[t].n)
DiskAt(o) ==
  /\ meta'[o] = meta[o] /\ tmp'[o] = tmp[o] /\ data'[o] = data[o]
  /\ \A i \in IndexNames : <<o, i>> \in indexFiles' <=> <<o, i>> \in indexFiles
TablesAt(o) ==
  /\ opened_tables'[o] = opened_tables[o] /\ rows'[o] = rows[o]
  /\ DataFile(o) \in buffer_pools' <=> DataFile(o) \in buffer_pools
  /\ \A i \in IndexNames : /\ <<o, i>> \in buffer_pools' <=> <<o, i>> \in buffer_pools
                           /\ entries'[<<o, i>>] = entries[<<o, i>>]
HistoryAt(o) ==
  /\ o \in cut' <=> o \in cut
  /\ \A i \in IndexNames : /\ <<o, i>> \in spoilt' <=> <<o, i>> \in spoilt
                           /\ \A r : <<<<o, i>>, r>> \in missed' <=> <<<<o, i>>, r>> \in missed
Apart(t) == JobApart(t) /\ \A o \in Names \ {job[t].n} : DiskAt(o) /\ TablesAt(o) /\ HistoryAt(o)

\* What a step must leave alone for another name to be untouched.
LEMMA AllStill ==
  ASSUME NEW o \in Names
  PROVE  /\ UNCHANGED <<meta, tmp, data, indexFiles>> => DiskAt(o)
         /\ UNCHANGED <<opened_tables, rows, buffer_pools, entries>> => TablesAt(o)
         /\ UNCHANGED <<cut, spoilt, missed>> => HistoryAt(o)
  BY DEF DiskAt, TablesAt, HistoryAt

\* The invariant of a name in the three parts that have a frame lemma.
LEMMA NameParts == \A n \in Names : NameInv(n) <=> FilesPart(n) /\ IndexPart(n) /\ Complete(n)
  BY DEF NameInv, FilesPart, IndexPart

\* A step on one name leaves the invariant of every other name as it is.
LEMMA ElsewhereKept ==
  ASSUME NEW t \in Threads, job[t] /= Idle, Apart(t), NEW o \in Names, o /= job[t].n, NameInv(o)
  PROVE  NameInv(o)'
  <1>1. ASSUME NEW u \in Threads, NEW op, NEW S
        PROVE  (Doing(u, op, o, S)' <=> Doing(u, op, o, S)) /\ (Doing(u, op, o, S) => job'[u] = job[u])
    BY DEF Apart, JobApart, Doing
  <1>2. SameFiles(o)
    BY <1>1 DEF Apart, DiskAt, TablesAt, HistoryAt, SameFiles, Maker, Dropper, IsOpen
  <1>3. SameIndexes(o)
    BY <1>1 DEF Apart, DiskAt, TablesAt, HistoryAt, SameIndexes, Builder, Rewriter, Fells
  <1>4. SameRows(o)
    BY <1>1 DEF Apart, DiskAt, TablesAt, HistoryAt, SameRows, Fells
  <1> QED
    BY <1>2, <1>3, <1>4, NameParts, FilesFrame, IndexFrame, RowsFrame DEF NameInv, FilesPart, IndexPart

\* A thread that is at work on a name.
LEMMA JobOf ==
  ASSUME JobsOK, NEW t \in Threads, job[t] /= Idle
  PROVE  /\ job[t] \in Job /\ job[t].n \in Names /\ job[t].left \in SUBSET IndexNames /\ job[t].step \in Steps
         /\ job[t].ser \in Nat /\ job[t].id \in Nat /\ job[t].row \in Nat
         /\ job[t].op = "index" => job[t].i \in IndexNames
  BY DEF JobsOK, Job

\* A thread that moves on, or ends, stays with the name it works on.
LEMMA MovesApart ==
  ASSUME NEW t \in Threads
  PROVE  /\ \A s, l : MovesTo(t, s, l) => JobApart(t)
         /\ Ends(t) => JobApart(t)
  BY DEF MovesTo, Ends, JobApart

\* A step of CREATE TABLE changes nothing of another name.
LEMMA CreateApart ==
  ASSUME Shape, NEW t \in Threads, StoreId(t) \/ CreateStep(t)
  PROVE  Apart(t) /\ JobsOK' /\ job[t] /= Idle /\ job[t].op = "create" /\ mode = "up" /\ mode' = "up"
  <1> DEFINE n == job[t].n
  <1>1. mode = "up" /\ job[t] /= Idle /\ job[t].op = "create"
    BY DEF StoreId, CreateStep, CreateMeta, SerializeMeta, CreateFile, WriteHeader, Publish, At
  <1>2. JobsOK /\ n \in Names
    BY <1>1, JobOf DEF Shape
  <1>3. Return(t) \/ \E s \in Steps : Goto(t, s)
    BY DEF StoreId, CreateStep, CreateMeta, SerializeMeta, CreateFile, WriteHeader, Publish, Steps
  <1>4. JobApart(t) /\ JobsOK'
    BY <1>1, <1>2, <1>3, JobSteps, MovesApart
  <1>5. mode' = "up"
    BY <1>1 DEF StoreId, CreateStep, CreateMeta, SerializeMeta, CreateFile, WriteHeader, Publish, Same, Fault
  <1> HIDE DEF n
  <1>6. ASSUME NEW o \in Names \ {n} PROVE DiskAt(o)
    <2>1. CASE StoreId(t) \/ Publish(t)
      BY <2>1, AllStill DEF StoreId, Publish, disk
    <2>2. CASE CreateMeta(t)
      BY <2>2 DEF CreateMeta, DiskAt, n, Shape, FilesOK
    <2>3. CASE SerializeMeta(t)
      BY <2>3 DEF SerializeMeta, DiskAt, n, Shape, FilesOK
    <2>4. CASE CreateFile(t)
      BY <2>4 DEF CreateFile, DiskAt, n, Shape, FilesOK
    <2>5. CASE WriteHeader(t)
      BY <2>5 DEF WriteHeader, DiskAt, n, Shape, FilesOK
    <2> QED
      BY <2>1, <2>2, <2>3, <2>4, <2>5 DEF CreateStep
  <1>7. ASSUME NEW o \in Names \ {n} PROVE TablesAt(o)
    <2>1. CASE ~Publish(t)
      <3>1. UNCHANGED <<opened_tables, rows, buffer_pools, entries>>
        BY <2>1 DEF StoreId, CreateStep, CreateMeta, SerializeMeta, CreateFile, WriteHeader, tables
      <3> QED
        BY <3>1, AllStill
    <2>2. CASE Publish(t)
      <3>1. DataFile(o) /= DataFile(n) /\ \A i \in IndexNames : <<o, i>> /= DataFile(n)
        BY DEF DataFile
      <3>2. buffer_pools' = buffer_pools \/ buffer_pools' = buffer_pools \cup {DataFile(n)}
        BY <2>2 DEF Publish, n
      <3>3. opened_tables'[o] = opened_tables[o] /\ rows'[o] = rows[o] /\ entries' = entries
        BY <2>2 DEF Publish, n, Shape, TablesOK
      <3> QED
        BY <3>1, <3>2, <3>3 DEF TablesAt
    <2> QED
      BY <2>1, <2>2
  <1>8. ASSUME NEW o \in Names \ {n} PROVE HistoryAt(o)
    <2>1. UNCHANGED <<spoilt, missed>> /\ (cut' = cut \/ cut' = cut \cup {n})
      BY DEF StoreId, CreateStep, CreateMeta, SerializeMeta, CreateFile, WriteHeader, Publish, history, n
    <2> QED
      BY <2>1 DEF HistoryAt
  <1>9. Apart(t)
    BY <1>4, <1>6, <1>7, <1>8 DEF Apart, n
  <1> QED
    BY <1>1, <1>4, <1>5, <1>9

\* Nor does a step of DROP TABLE.
LEMMA DropApart ==
  ASSUME Shape, NEW t \in Threads, DropStep(t), Control(job[t].n)
  PROVE  Apart(t) /\ JobsOK' /\ job[t] /= Idle /\ job[t].op = "drop" /\ mode = "up" /\ mode' = "up"
  <1> DEFINE n == job[t].n
  <1>1. mode = "up" /\ job[t] /= Idle /\ job[t].op = "drop"
    BY DEF DropStep, DropClose, DropData, DropMeta, DropIndex, DropErase, At
  <1>2. JobsOK /\ n \in Names /\ job[t].left \in SUBSET IndexNames
    BY <1>1, JobOf DEF Shape
  <1>3. DropMeta(t) => opened_tables[n].indexes \in SUBSET IndexNames
    <2> SUFFICES ASSUME DropMeta(t) PROVE opened_tables[n].indexes \in SUBSET IndexNames
      OBVIOUS
    <2>1. Doing(t, "drop", n, {"data", "meta"})
      BY DEF DropMeta, At, Doing
    <2>2. Alive(t)
      BY <2>1 DEF Control
    <2>3. opened_tables[n] \in Table
      BY <1>2, <2>2 DEF Alive, Shape, TablesOK
    <2> QED
      BY <2>3 DEF Table
  <1>4. \/ Return(t) \/ (\E s \in Steps : Goto(t, s)) \/ (\E l \in SUBSET IndexNames : job' = [job EXCEPT ![t].left = l])
        \/ \E s \in Steps, l \in SUBSET IndexNames : job' = [job EXCEPT ![t].step = s, ![t].left = l]
    <2>1. CASE DropMeta(t)
      BY <1>3, <2>1 DEF DropMeta, Steps
    <2>2. CASE DropIndex(t)
      <3>1. Return(t) \/ \E i \in IndexNames : job' = [job EXCEPT ![t].left = @ \ {i}]
        BY <2>2 DEF DropIndex
      <3>2. ASSUME NEW i \in IndexNames, job' = [job EXCEPT ![t].left = @ \ {i}]
            PROVE  \E l \in SUBSET IndexNames : job' = [job EXCEPT ![t].left = l]
        <4>1. job' = [job EXCEPT ![t].left = job[t].left \ {i}]
          BY <3>2
        <4> QED
          BY <1>2, <4>1
      <3> QED
        BY <3>1, <3>2
    <2> QED
      BY <2>1, <2>2 DEF DropStep, DropClose, DropData, DropErase, Steps
  <1>5. JobApart(t) /\ JobsOK'
    BY <1>1, <1>2, <1>4, JobSteps, MovesApart
  <1>6. mode' = "up"
    BY <1>1 DEF DropStep, DropClose, DropData, DropMeta, DropIndex, DropErase, Same, Fault
  <1> HIDE DEF n
  <1>7. ASSUME NEW o \in Names \ {n} PROVE DiskAt(o)
    <2>1. CASE DropClose(t) \/ DropErase(t)
      BY <2>1, AllStill DEF DropClose, DropErase, disk
    <2>2. CASE DropData(t)
      BY <2>2 DEF DropData, DiskAt, n, Shape, FilesOK
    <2>3. CASE DropMeta(t)
      BY <2>3 DEF DropMeta, DiskAt, n, Shape, FilesOK
    <2>4. CASE DropIndex(t)
      BY <2>4 DEF DropIndex, DiskAt, n
    <2> QED
      BY <2>1, <2>2, <2>3, <2>4 DEF DropStep
  <1>8. ASSUME NEW o \in Names \ {n} PROVE TablesAt(o)
    <2>1. CASE DropData(t) \/ DropMeta(t)
      BY <2>1, AllStill DEF DropData, DropMeta, tables
    <2>2. CASE DropClose(t)
      <3>1. DataFile(o) /= DataFile(n) /\ \A i \in IndexNames : <<o, i>> /= DataFile(n)
        BY DEF DataFile
      <3>2. buffer_pools' = buffer_pools \/ buffer_pools' = buffer_pools \ {DataFile(n)}
        BY <2>2 DEF DropClose, n
      <3>3. UNCHANGED <<opened_tables, rows, entries>>
        BY <2>2 DEF DropClose
      <3> QED
        BY <3>1, <3>2, <3>3 DEF TablesAt
    <2>3. CASE DropIndex(t)
      <3>1. PICK i \in IndexNames : buffer_pools' = buffer_pools \ {<<n, i>>}
        BY <2>3 DEF DropIndex, n
      <3>2. DataFile(o) /= <<n, i>> /\ \A k \in IndexNames : <<o, k>> /= <<n, i>>
        BY DEF DataFile
      <3>3. UNCHANGED <<opened_tables, rows, entries>>
        BY <2>3 DEF DropIndex
      <3> QED
        BY <3>1, <3>2, <3>3 DEF TablesAt
    <2>4. CASE DropErase(t) /\ Alive(t)
      BY <2>4 DEF DropErase, TablesAt, n, Shape, TablesOK
    <2> QED
      BY <2>1, <2>2, <2>3, <2>4 DEF DropStep
  <1>9. ASSUME NEW o \in Names \ {n} PROVE HistoryAt(o)
    <2>1. /\ missed' = missed /\ (cut' = cut \/ cut' = cut \cup {n})
          /\ spoilt' = spoilt \/ spoilt' = spoilt \cup {y \in Indexes : y[1] = n}
      BY DEF DropStep, DropClose, DropData, DropMeta, DropIndex, DropErase, history, n
    <2> QED
      BY <2>1 DEF HistoryAt
  <1>10. Apart(t)
    BY <1>5, <1>7, <1>8, <1>9 DEF Apart, n
  <1> QED
    BY <1>1, <1>5, <1>6, <1>10

\* Nor does a step of CREATE INDEX.
LEMMA IndexApart ==
  ASSUME Shape, NEW t \in Threads, IndexStep(t)
  PROVE  /\ Apart(t) /\ JobsOK' /\ job[t] /= Idle /\ job[t].op = "index" /\ mode = "up" /\ mode' = "up"
         /\ Alive(t) /\ opened_tables[job[t].n] \in Table
  <1> DEFINE n == job[t].n
  <1>1. mode = "up" /\ job[t] /= Idle /\ job[t].op = "index" /\ Alive(t)
    BY DEF IndexStep, CreateIndexFile, BuildIndex, PushIndex, OpenTmp, WriteTmp, RenameTmp, Building, At
  <1>2. JobsOK /\ n \in Names /\ job[t].i \in IndexNames
    BY <1>1, JobOf DEF Shape
  <1>3. opened_tables[n] \in Table
    BY <1>1, <1>2 DEF Alive, Shape, TablesOK
  <1>4. opened_tables[n].listed \cup {job[t].i} \in SUBSET IndexNames
    BY <1>2, <1>3 DEF Table
  <1>5. mode' = "up"
    <2>1. CASE PushIndex(t) /\ mode' /= "wild"
      BY <1>1, <2>1, SMTT(60) DEF PushIndex
    <2> QED
      BY <1>1, <2>1 DEF IndexStep, CreateIndexFile, BuildIndex, OpenTmp, WriteTmp, RenameTmp, Same, Fault
  <1>6. \/ Return(t) \/ (\E s \in Steps : Goto(t, s))
        \/ \E s \in Steps, l \in SUBSET IndexNames : job' = [job EXCEPT ![t].step = s, ![t].left = l]
    <2>1. CASE PushIndex(t) /\ mode' /= "wild"
      BY <2>1 DEF PushIndex, Steps
    <2>2. CASE OpenTmp(t)
      BY <1>4, <2>2 DEF OpenTmp, Steps
    <2>3. CASE WriteTmp(t)
      BY <2>3 DEF WriteTmp, Steps
    <2> QED
      BY <2>1, <2>2, <2>3 DEF IndexStep, CreateIndexFile, BuildIndex, RenameTmp, Steps
  <1>7. JobApart(t) /\ JobsOK'
    BY <1>1, <1>2, <1>6, JobSteps, MovesApart
  <1> HIDE DEF n
  <1>8. ASSUME NEW o \in Names \ {n} PROVE DiskAt(o)
    <2>1. CASE BuildIndex(t) \/ PushIndex(t)
      BY <2>1, AllStill DEF BuildIndex, PushIndex, disk
    <2>2. CASE CreateIndexFile(t)
      <3>1. indexFiles' = indexFiles \/ indexFiles' = indexFiles \cup {<<n, job[t].i>>}
        BY <2>2 DEF CreateIndexFile, Index, n
      <3>2. UNCHANGED <<meta, tmp, data>>
        BY <2>2 DEF CreateIndexFile
      <3> QED
        BY <3>1, <3>2 DEF DiskAt
    <2>3. CASE OpenTmp(t)
      BY <2>3 DEF OpenTmp, DiskAt, n, Shape, FilesOK
    <2>4. CASE WriteTmp(t)
      <3>1. UNCHANGED <<data, indexFiles>> /\ (Written(t) \/ UNCHANGED <<meta, tmp>>)
        BY <2>4 DEF WriteTmp
      <3>2. meta'[o] = meta[o] /\ tmp'[o] = tmp[o]
        BY <3>1 DEF Written, n, Shape, FilesOK
      <3> QED
        BY <3>1, <3>2 DEF DiskAt
    <2>5. CASE RenameTmp(t)
      BY <2>5 DEF RenameTmp, DiskAt, n, Shape, FilesOK
    <2> QED
      BY <2>1, <2>2, <2>3, <2>4, <2>5 DEF IndexStep
  <1>9. ASSUME NEW o \in Names \ {n} PROVE TablesAt(o)
    <2>1. CASE OpenTmp(t) \/ WriteTmp(t)
      BY <2>1, AllStill DEF OpenTmp, WriteTmp, tables
    <2>2. CASE CreateIndexFile(t)
      <3>1. /\ buffer_pools' = buffer_pools \/ buffer_pools' = buffer_pools \cup {<<n, job[t].i>>}
            /\ entries' = entries \/ entries' = [entries EXCEPT ![<<n, job[t].i>>] = {}]
            /\ UNCHANGED <<opened_tables, rows>>
        BY <2>2 DEF CreateIndexFile, Index, n
      <3>2. DataFile(o) /= <<n, job[t].i>> /\ \A k \in IndexNames : <<o, k>> /= <<n, job[t].i>> /\ <<o, k>> \in Indexes
        BY DEF DataFile, Indexes
      <3> QED
        BY <3>1, <3>2 DEF TablesAt, Shape, TablesOK
    <2>3. CASE BuildIndex(t)
      <3>1. PICK s : entries' = [entries EXCEPT ![<<n, job[t].i>>] = s]
        BY <2>3 DEF BuildIndex, Index, n
      <3>2. UNCHANGED <<opened_tables, rows, buffer_pools>>
        BY <2>3 DEF BuildIndex
      <3>3. \A k \in IndexNames : <<o, k>> /= <<n, job[t].i>> /\ <<o, k>> \in Indexes
        BY DEF Indexes
      <3> QED
        BY <3>1, <3>2, <3>3 DEF TablesAt, Shape, TablesOK
    <2>4. CASE PushIndex(t) /\ mode' /= "wild"
      <3>1. UNCHANGED <<buffer_pools, rows, entries>> /\ \E l : opened_tables' = [opened_tables EXCEPT ![n].indexes = l]
        BY <2>4 DEF PushIndex, n
      <3>2. opened_tables'[o] = opened_tables[o]
        BY <3>1 DEF Shape, TablesOK
      <3> QED
        BY <3>1, <3>2 DEF TablesAt
    <2>5. CASE RenameTmp(t)
      <3>1. /\ UNCHANGED <<buffer_pools, rows, entries>>
            /\ opened_tables' = opened_tables \/ \E l : opened_tables' = [opened_tables EXCEPT ![n].listed = l]
        BY <2>5 DEF RenameTmp, n
      <3>2. opened_tables'[o] = opened_tables[o]
        BY <3>1 DEF Shape, TablesOK
      <3> QED
        BY <3>1, <3>2 DEF TablesAt
    <2> QED
      BY <2>1, <2>2, <2>3, <2>4, <2>5 DEF IndexStep
  <1>10. ASSUME NEW o \in Names \ {n} PROVE HistoryAt(o)
    <2>1. /\ missed' = missed \/ \E rs : missed' = missed \cup {<<<<n, job[t].i>>, r>> : r \in rs}
          /\ cut' = cut \/ cut' = cut \cup {n}
          /\ spoilt' = spoilt \/ spoilt' = spoilt \cup {<<n, job[t].i>>} \/ spoilt' = spoilt \cup {y \in Indexes : y[1] = n}
      <3>1. CASE CreateIndexFile(t)
        BY <3>1 DEF CreateIndexFile, Index, Spoil, n
      <3>2. CASE BuildIndex(t)
        BY <3>2 DEF BuildIndex, Index, Spoil, n
      <3>3. CASE PushIndex(t) /\ mode' /= "wild"
        BY <3>3 DEF PushIndex, Index, n
      <3>4. CASE OpenTmp(t) \/ WriteTmp(t) \/ RenameTmp(t)
        BY <3>4 DEF OpenTmp, WriteTmp, RenameTmp, Index, Spoil, n
      <3> QED
        BY <3>1, <3>2, <3>3, <3>4 DEF IndexStep
    <2> QED
      BY <2>1 DEF HistoryAt
  <1>11. Apart(t)
    BY <1>7, <1>8, <1>9, <1>10 DEF Apart, n
  <1> QED
    BY <1>1, <1>3, <1>5, <1>7, <1>11 DEF n

\* Nor does a step of INSERT.
LEMMA InsertApart ==
  ASSUME Shape, NEW t \in Threads, InsertStep(t)
  PROVE  Apart(t) /\ JobsOK' /\ job[t] /= Idle /\ job[t].op = "insert" /\ mode = "up" /\ mode' = "up"
  <1> DEFINE n == job[t].n
  <1>1. mode = "up" /\ job[t] /= Idle /\ job[t].op = "insert"
    BY DEF InsertStep, InsertRecord, Commit, At
  <1>2. JobsOK /\ n \in Names
    BY <1>1, JobOf DEF Shape
  <1>3. mode' = "up"
    BY <1>1 DEF InsertStep, InsertRecord, Commit, Same
  <1>4. Return(t) \/ \E s \in Steps : Goto(t, s)
    BY DEF InsertStep, InsertRecord, Commit, Steps
  <1>5. JobApart(t) /\ JobsOK'
    BY <1>1, <1>2, <1>4, JobSteps, MovesApart
  <1>6. UNCHANGED <<meta, tmp, data, indexFiles, cut, spoilt, missed, opened_tables, buffer_pools>>
    BY DEF InsertStep, InsertRecord, Commit, tables, history
  <1> HIDE DEF n
  <1>7. ASSUME NEW o \in Names \ {n} PROVE TablesAt(o)
    <2>1. CASE InsertRecord(t)
      <3>1. rows' = [rows EXCEPT ![n] = rows[n] \cup {job[t].row}]
        BY <2>1 DEF InsertRecord, n
      <3>2. \A i \in IndexNames : entries'[<<o, i>>] = entries[<<o, i>>]
        BY <2>1 DEF InsertRecord, Indexes, n
      <3> QED
        BY <1>6, <3>1, <3>2 DEF TablesAt, Shape, TablesOK
    <2>2. CASE Commit(t)
      BY <2>2, AllStill DEF Commit, tables
    <2> QED
      BY <2>1, <2>2 DEF InsertStep
  <1>8. \A o \in Names : DiskAt(o) /\ HistoryAt(o)
    BY <1>6, AllStill
  <1>9. Apart(t)
    BY <1>5, <1>7, <1>8 DEF Apart, n
  <1> QED
    BY <1>1, <1>3, <1>5, <1>9

\* Every step keeps what is stored in its shape.
LEMMA StepShape ==
  ASSUME Shape, NEW t \in Threads, \A n \in Names : Control(n),
         StoreId(t) \/ CreateStep(t) \/ DropStep(t) \/ IndexStep(t) \/ InsertStep(t)
  PROVE  Shape'
  <1> DEFINE n == job[t].n
             j == job[t]
  <1>1. job[t] /= Idle
    BY CreateApart, IndexApart, InsertApart
       DEF DropStep, DropClose, DropData, DropMeta, DropIndex, DropErase, At
  <1>2. n \in Names /\ j.id \in Nat /\ j.ser \in Nat /\ j.left \in SUBSET IndexNames /\ (j.op = "index" => j.i \in IndexNames)
    BY <1>1, JobOf DEF Shape
  <1>3. JobsOK'
    BY <1>1, <1>2, CreateApart, DropApart, IndexApart, InsertApart
  <1>4. /\ NewMeta(t) \in MetaData
        /\ [id |-> j.id, ser |-> j.ser, indexes |-> {}, listed |-> {}] \in Table
    BY <1>2 DEF NewMeta, MetaData, Table
  <1>5. IndexStep(t) => opened_tables[n] \in Table /\ j.i \in IndexNames
    BY <1>2, IndexApart
  <1>6. ASSUME NEW l \in SUBSET IndexNames, opened_tables[n] \in Table
        PROVE  /\ [opened_tables[n] EXCEPT !.indexes = l] \in Table
               /\ [opened_tables[n] EXCEPT !.listed = l] \in Table
    BY <1>6 DEF Table
  <1>7. FilesOK'
    <2>0. FilesOK
      BY DEF Shape
    <2>1. CASE UNCHANGED <<meta, tmp, data>>
      BY <2>0, <2>1 DEF FilesOK
    <2>2. CASE CreateMeta(t) \/ SerializeMeta(t)
      BY <1>2, <1>4, <2>0, <2>2 DEF CreateMeta, SerializeMeta, FilesOK
    <2>3. CASE CreateFile(t) \/ WriteHeader(t) \/ DropData(t)
      BY <1>2, <2>0, <2>3 DEF CreateFile, WriteHeader, DropData, FilesOK
    <2>4. CASE DropMeta(t)
      BY <1>2, <2>0, <2>4 DEF DropMeta, FilesOK
    <2>5. CASE OpenTmp(t)
      BY <1>2, <2>0, <2>5 DEF OpenTmp, FilesOK
    <2>6. CASE WriteTmp(t)
      <3>1. [id |-> opened_tables[n].id, ser |-> j.ser, indexes |-> j.left] \in MetaData
        BY <1>2, <1>5, <2>6 DEF IndexStep, Table, MetaData
      <3>2. UNCHANGED data /\ (Written(t) \/ UNCHANGED <<meta, tmp>>)
        BY <2>6 DEF WriteTmp
      <3> QED
        BY <1>2, <2>0, <3>1, <3>2 DEF Written, FilesOK
    <2>7. CASE RenameTmp(t)
      BY <1>2, <2>0, <2>7 DEF RenameTmp, FilesOK
    <2>8. CASE StoreId(t) \/ Publish(t) \/ DropClose(t) \/ DropIndex(t) \/ DropErase(t)
      BY <2>1, <2>8 DEF StoreId, Publish, DropClose, DropIndex, DropErase, disk
    <2>9. CASE CreateIndexFile(t) \/ BuildIndex(t) \/ PushIndex(t) \/ InsertStep(t)
      BY <2>1, <2>9 DEF CreateIndexFile, BuildIndex, PushIndex, InsertStep, InsertRecord, Commit, disk
    <2> QED
      BY <2>2, <2>3, <2>4, <2>5, <2>6, <2>7, <2>8, <2>9 DEF CreateStep, DropStep, IndexStep, FilesOK
  <1>8. TablesOK'
    <2>0. TablesOK
      BY DEF Shape
    <2>1. CASE UNCHANGED <<opened_tables, rows>> /\ DOMAIN entries' = Indexes
      BY <2>0, <2>1 DEF TablesOK
    <2>2. CASE StoreId(t) \/ (CreateStep(t) /\ ~Publish(t)) \/ OpenTmp(t) \/ WriteTmp(t) \/ Commit(t)
      BY <2>0, <2>1, <2>2 DEF StoreId, CreateStep, CreateMeta, SerializeMeta, CreateFile, WriteHeader, OpenTmp, WriteTmp,
         Commit, tables, TablesOK
    <2>3. CASE Publish(t)
      BY <1>2, <1>4, <2>0, <2>3 DEF Publish, TablesOK
    <2>4. CASE DropClose(t) \/ DropData(t) \/ DropMeta(t) \/ DropIndex(t)
      BY <2>0, <2>1, <2>4 DEF DropClose, DropData, DropMeta, DropIndex, tables, TablesOK
    <2>5. CASE DropErase(t) /\ Alive(t)
      BY <1>2, <2>0, <2>5 DEF DropErase, TablesOK
    <2>6. CASE CreateIndexFile(t) \/ BuildIndex(t)
      BY <2>0, <2>1, <2>6 DEF CreateIndexFile, BuildIndex, TablesOK
    <2>7. CASE PushIndex(t) /\ mode' /= "wild"
      <3>1. opened_tables[n] \in Table /\ opened_tables[n].indexes \cup {j.i} \in SUBSET IndexNames
        BY <1>5, <2>7 DEF IndexStep, Table
      <3>2. /\ opened_tables' = [opened_tables EXCEPT ![n] = [opened_tables[n] EXCEPT !.indexes = opened_tables[n].indexes \cup {j.i}]]
            /\ UNCHANGED <<rows, entries>>
        BY <2>7 DEF PushIndex
      <3> QED
        BY <1>2, <1>6, <2>0, <3>1, <3>2 DEF TablesOK
    <2>8. CASE RenameTmp(t)
      <3>1. opened_tables[n] \in Table
        BY <1>5, <2>8 DEF IndexStep
      <3>2. /\ opened_tables' = opened_tables \/ opened_tables' = [opened_tables EXCEPT ![n] = [opened_tables[n] EXCEPT !.listed = j.left]]
            /\ UNCHANGED <<rows, entries>>
        BY <2>8 DEF RenameTmp
      <3> QED
        BY <1>2, <1>6, <2>0, <3>1, <3>2 DEF TablesOK
    <2>9. CASE InsertRecord(t)
      BY <1>2, <2>0, <2>9 DEF InsertRecord, TablesOK
    <2> QED
      BY <2>2, <2>3, <2>4, <2>5, <2>6, <2>7, <2>8, <2>9 DEF CreateStep, DropStep, IndexStep, InsertStep
  <1> QED
    BY <1>3, <1>7, <1>8 DEF Shape

-----------------------------------------------------------------------------
(* CREATE TABLE on its own name.                                           *)

\* The other threads, and the other statements of this thread.
OthersStay(t) ==
  /\ \A u \in Threads \ {t} : \A op, m, S : /\ Doing(u, op, m, S)' <=> Doing(u, op, m, S)
                                            /\ job'[u] = job[u]
  /\ \A op, m, S : op /= job[t].op => ~Doing(t, op, m, S) /\ ~Doing(t, op, m, S)'

\* When one thread moves, what the others do is as it was.
LEMMA Others ==
  ASSUME NEW t \in Threads, job[t] /= Idle, Ends(t) \/ \E s, l : MovesTo(t, s, l)
  PROVE  OthersStay(t)
  BY DEF OthersStay, Doing, Ends, MovesTo

\* Until it is entered into opened_tables_, a CREATE TABLE touches no index.
LEMMA CreateIndexes ==
  ASSUME NEW t \in Threads, StoreId(t) \/ (CreateStep(t) /\ ~Publish(t)), job[t].op = "create", OthersStay(t),
         NEW n \in Names
  PROVE  SameIndexes(n) /\ SameRows(n)
  <1>1. /\ UNCHANGED <<tmp, indexFiles, opened_tables, rows, buffer_pools, entries, spoilt, missed>>
        /\ cut \subseteq cut'
    BY DEF StoreId, CreateStep, CreateMeta, SerializeMeta, CreateFile, WriteHeader, disk, tables, history
  <1>2. \A u \in Threads : /\ Builder(u, n)' <=> Builder(u, n)
                           /\ Rewriter(u, n)' <=> Rewriter(u, n)
                           /\ Fells(u, n)' <=> Fells(u, n)
                           /\ Builder(u, n) \/ Rewriter(u, n) \/ Fells(u, n) => job'[u] = job[u]
    BY DEF OthersStay, Builder, Rewriter, Fells
  <1> QED
    BY <1>1, <1>2 DEF SameIndexes, SameRows

\* Table::create before init_record_handler: O_EXCL lets one thread through, so
\* that the meta file and the data file are that thread's.
LEMMA CreateFiles ==
  ASSUME Shape, NEW t \in Threads, StoreId(t) \/ (CreateStep(t) /\ ~Publish(t)),
         NEW n \in Names, n = job[t].n, FilesPart(n)
  PROVE  FilesPart(n)'
  <1>1. job[t] /= Idle /\ job[t].op = "create" /\ JobsOK
    BY CreateApart DEF Shape
  <1>2. /\ DOMAIN meta = Names /\ DOMAIN data = Names /\ NewMeta(t) \in MetaData
        /\ NewMeta(t) /= NoFile
    BY <1>1, JobOf, ValuesAssumption DEF Shape, FilesOK, NewMeta, MetaData
  <1>3. Return(t) \/ \E s \in Steps : Goto(t, s)
    BY DEF StoreId, CreateStep, CreateMeta, SerializeMeta, CreateFile, WriteHeader, Publish, Steps
  <1>4. Ends(t) \/ \E s \in Steps : MovesTo(t, s, job[t].left)
    BY <1>1, <1>3, JobSteps
  <1>5. OthersStay(t)
    BY <1>1, <1>4, Others
  <1>6. UNCHANGED <<opened_tables, buffer_pools>> /\ cut \subseteq cut'
    BY DEF StoreId, CreateStep, CreateMeta, SerializeMeta, CreateFile, WriteHeader, disk, tables, history
  <1>7. /\ \A u \in Threads \ {t} : (Maker(u, n)' <=> Maker(u, n)) /\ job'[u] = job[u]
        /\ \A u \in Threads : Dropper(u, n)' <=> Dropper(u, n)
        /\ \A u \in Threads : Fells(u, n)' <=> Fells(u, n)
        /\ \A u \in Threads : Doing(u, "drop", n, {"data", "meta"})' <=> Doing(u, "drop", n, {"data", "meta"})
        /\ \A u \in Threads : Doing(u, "drop", n, {"meta"})' <=> Doing(u, "drop", n, {"meta"})
        /\ \A u \in Threads : Dropper(u, n) \/ Fells(u, n) \/ Doing(u, "drop", n, {"data", "meta"})
                                => job'[u] = job[u]
    BY <1>1, <1>5 DEF OthersStay, Maker, Dropper, Fells
  <1>8. /\ Standing(n)' <=> Standing(n)
        /\ Held(n)' <=> Held(n)
        /\ MetaOf(n)' = MetaOf(n)
        /\ \A u \in Threads : Dropper(u, n) \/ Fells(u, n) \/ Doing(u, "drop", n, {"data", "meta"}) => (Alive(u)' <=> Alive(u))
    <2>1. \A u \in Threads : Dropper(u, n) \/ Fells(u, n) \/ Doing(u, "drop", n, {"data", "meta"}) => (Alive(u)' <=> Alive(u))
      BY <1>6, <1>7 DEF Alive
    <2> QED
      BY <1>6, <1>7, <2>1 DEF Standing, Held, MetaOf, IsOpen
  <1>9. ASSUME UNCHANGED <<meta, data>>, ~Maker(t, n), ~Maker(t, n)' PROVE FilesPart(n)'
    <2>1. SameFiles(n)
      BY <1>6, <1>7, <1>9 DEF SameFiles, IsOpen
    <2> QED
      BY <1>2, <2>1, FilesFrame
  <1>10. ASSUME \A u \in Threads : Maker(u, n)' => u = t \/ Maker(u, n),
                \A u \in Threads : Maker(u, n)' => u = t \/ ~Maker(t, n)',
                Maker(t, n)' => ~Held(n), Held(n) => meta'[n] /= NoFile,
                \A u \in Threads : Maker(u, n)' => meta'[n] /= NoFile
         PROVE  Control(n)'
    BY <1>6, <1>7, <1>8, <1>10 DEF FilesPart, Control, IsOpen
  <1>11. CASE StoreId(t)
    <2>1. UNCHANGED <<meta, data>> /\ job[t].step = "store_id" /\ MovesTo(t, "meta", job[t].left)
      BY <1>1, <1>11, JobSteps DEF StoreId, At, disk, Steps
    <2> QED
      BY <1>9, <2>1 DEF Maker, Doing, MovesTo
  <1>12. CASE CreateMeta(t)
    <2>1. ~Maker(t, n) /\ UNCHANGED data
      BY <1>12 DEF CreateMeta, At, Maker, Doing
    <2>2. CASE meta[n] /= NoFile
      <3>1. Ends(t) /\ UNCHANGED meta
        BY <1>1, <1>12, <2>2, JobSteps DEF CreateMeta
      <3> QED
        BY <1>9, <2>1, <3>1 DEF Ends, Maker, Doing
    <2>3. CASE meta[n] = NoFile
      <3>1. meta'[n] = Empty /\ MovesTo(t, "serialize", job[t].left)
        BY <1>1, <1>2, <1>12, <2>3, JobSteps DEF CreateMeta, Steps
      <3>2. Maker(t, n)' /\ job'[t].step = "serialize"
        BY <1>1, <3>1 DEF MovesTo, Maker, Doing
      <3>3. ~Held(n) /\ \A u \in Threads : ~Maker(u, n)
        BY <2>3 DEF FilesPart, Control
      <3>4. \A u \in Threads : Maker(u, n)' <=> u = t
        BY <1>7, <3>2, <3>3
      <3>5. Control(n)'
        BY <1>10, <3>1, <3>3, <3>4, ValuesAssumption
      <3>6. n \notin cut' => Content(n)'
        <4> SUFFICES ASSUME n \notin cut' PROVE Content(n)'
          OBVIOUS
        <4>1. Content(n)
          BY <1>6 DEF FilesPart
        <4>2. ~Standing(n)
          BY <3>3, <4>1 DEF Content
        <4>3. data'[n] = "none"
          BY <2>1, <3>3, <4>1, <4>2 DEF Content
        <4> QED
          BY <1>8, <3>1, <3>2, <3>4, <4>2, <4>3 DEF Content
      <3> QED
        BY <3>5, <3>6 DEF FilesPart
    <2> QED
      BY <2>2, <2>3
  <1>13. CASE SerializeMeta(t) \/ CreateFile(t) \/ WriteHeader(t)
    <2>1. Maker(t, n) /\ job[t].step \in {"serialize", "data", "header"}
      BY <1>13 DEF SerializeMeta, CreateFile, WriteHeader, At, Maker, Doing
    <2>2. /\ meta[n] /= NoFile /\ ~Held(n) /\ \A u \in Threads \ {t} : ~Maker(u, n)
      BY <2>1 DEF FilesPart, Control
    <2>3. meta'[n] /= NoFile
      BY <1>2, <1>13, <2>2 DEF SerializeMeta, CreateFile, WriteHeader
    <2>4. \A u \in Threads \ {t} : ~Maker(u, n)'
      BY <1>7, <2>2
    <2>5. Control(n)'
      BY <1>10, <2>2, <2>3, <2>4
    <2>6. n \notin cut' => Content(n)'
      <3> SUFFICES ASSUME n \notin cut' PROVE Content(n)'
        OBVIOUS
      <3>1. Content(n)
        BY <1>6 DEF FilesPart
      <3>2. ~Standing(n)
        BY <2>2, <3>1 DEF Content
      <3>3. /\ meta'[n] = NewMeta(t)
            /\ \/ data'[n] = "none" /\ Goto(t, "data")
               \/ data'[n] = "raw" /\ Goto(t, "header")
               \/ data'[n] = "ok" /\ Goto(t, "open")
        <4>1. /\ meta[n] = IF job[t].step = "serialize" THEN Empty ELSE NewMeta(t)
              /\ data[n] = IF job[t].step = "open" THEN "ok" ELSE IF job[t].step = "header" THEN "raw" ELSE "none"
          BY <2>1, <3>1 DEF Content
        <4>2. CASE SerializeMeta(t)
          BY <1>2, <4>1, <4>2 DEF SerializeMeta, At
        <4>3. CASE CreateFile(t)
          BY <1>2, <4>1, <4>3 DEF CreateFile, At
        <4>4. CASE WriteHeader(t)
          BY <1>2, <4>1, <4>4 DEF WriteHeader, At
        <4> QED
          BY <1>13, <4>2, <4>3, <4>4
      <3>4. PICK s \in {"data", "header", "open"} :
              /\ MovesTo(t, s, job[t].left)
              /\ data'[n] = IF s = "open" THEN "ok" ELSE IF s = "header" THEN "raw" ELSE "none"
        <4>1. {"data", "header", "open"} \subseteq Steps
          BY DEF Steps
        <4> QED
          BY <1>1, <3>3, <4>1, JobSteps
      <3>5. Maker(t, n)' /\ job'[t].step = s /\ NewMeta(t)' = NewMeta(t)
        BY <1>1, <3>4 DEF MovesTo, Maker, Doing, NewMeta
      <3> QED
        BY <1>8, <2>4, <3>2, <3>3, <3>4, <3>5 DEF Content
    <2> QED
      BY <2>5, <2>6 DEF FilesPart
  <1> QED
    BY <1>11, <1>12, <1>13 DEF CreateStep

\* What a step on a name leaves of the threads at work on it.
LEMMA OthersAt ==
  ASSUME NEW t \in Threads, OthersStay(t), NEW n \in Names
  PROVE  /\ \A u \in Threads \ {t} : /\ Maker(u, n)' <=> Maker(u, n)
                                     /\ Dropper(u, n)' <=> Dropper(u, n)
                                     /\ Fells(u, n)' <=> Fells(u, n)
                                     /\ Doing(u, "drop", n, {"data", "meta"})' <=> Doing(u, "drop", n, {"data", "meta"})
                                     /\ Doing(u, "drop", n, {"meta"})' <=> Doing(u, "drop", n, {"meta"})
                                     /\ Builder(u, n)' <=> Builder(u, n)
                                     /\ Rewriter(u, n)' <=> Rewriter(u, n)
                                     /\ job'[u] = job[u]
         /\ job[t].op /= "create" => ~Maker(t, n) /\ ~Maker(t, n)'
         /\ job[t].op /= "drop" =>
              /\ ~Dropper(t, n) /\ ~Fells(t, n) /\ ~Doing(t, "drop", n, {"data", "meta"}) /\ ~Doing(t, "drop", n, {"meta"})
              /\ ~Dropper(t, n)' /\ ~Fells(t, n)' /\ ~Doing(t, "drop", n, {"data", "meta"})' /\ ~Doing(t, "drop", n, {"meta"})'
         /\ job[t].op /= "index" => ~Builder(t, n) /\ ~Rewriter(t, n) /\ ~Builder(t, n)' /\ ~Rewriter(t, n)'
  BY DEF OthersStay, Maker, Dropper, Fells, Builder, Rewriter

\* A thread that has ended its statement.
LEMMA NoLonger ==
  ASSUME NEW t \in Threads, Ends(t), NEW n \in Names
  PROVE  /\ ~Maker(t, n)' /\ ~Dropper(t, n)' /\ ~Fells(t, n)' /\ ~Doing(t, "drop", n, {"data", "meta"})'
         /\ ~Doing(t, "drop", n, {"meta"})' /\ ~Builder(t, n)' /\ ~Rewriter(t, n)'
  BY DEF Ends, Maker, Dropper, Fells, Builder, Rewriter, Doing

\* Db::create_table enters the table: no other statement refers to it yet, as its
\* serial number is new.
LEMMA PublishKeeps ==
  ASSUME Shape, Serials, NEW t \in Threads, Publish(t), NEW n \in Names, n = job[t].n, NameInv(n)
  PROVE  NameInv(n)'
  <1>1. job[t] /= Idle /\ job[t].op = "create" /\ job[t].step = "open" /\ JobsOK
    BY DEF Shape, Publish, At
  <1>2. Ends(t)
    BY <1>1, JobSteps DEF Publish
  <1>3. OthersStay(t)
    BY <1>1, <1>2, Others
  <1>4. FilesPart(n) /\ IndexPart(n) /\ Complete(n)
    BY NameParts
  <1>5. CASE UNCHANGED <<buffer_pools, opened_tables, rows>> /\ cut' = cut \cup {n}
    <2>1. UNCHANGED <<meta, tmp, indexFiles, entries, spoilt, missed>>
      BY DEF Publish, disk
    <2>2. SameIndexes(n) /\ SameRows(n)
      BY <1>1, <1>3, <1>5, <2>1, OthersAt DEF SameIndexes, SameRows
    <2>3. Control(n)'
      <3>1. /\ Held(n)' <=> Held(n)
            /\ \A u \in Threads : Dropper(u, n) => (Alive(u)' <=> Alive(u))
            /\ \A u \in Threads : Doing(u, "drop", n, {"data", "meta"}) => (Alive(u)' <=> Alive(u))
        BY <1>1, <1>3, <1>5, OthersAt DEF Held, Alive
      <3> QED
        BY <1>1, <1>2, <1>3, <1>4, <1>5, <2>1, <3>1, OthersAt, NoLonger DEF FilesPart, Control, IsOpen
    <2>4. FilesPart(n)'
      BY <1>5, <2>3 DEF FilesPart
    <2> QED
      BY <1>4, <2>2, <2>4, IndexFrame, RowsFrame, NameParts DEF NameInv, FilesPart, IndexPart
  <1>6. CASE ~HasPool(t) /\ UNCHANGED cut /\ buffer_pools' = buffer_pools \cup {DataFile(n)}
             /\ opened_tables' = [opened_tables EXCEPT ![n] =
                 [id |-> job[t].id, ser |-> job[t].ser, indexes |-> {}, listed |-> {}]]
    <2> DEFINE T == [id |-> job[t].id, ser |-> job[t].ser, indexes |-> {}, listed |-> {}]
    <2>1. UNCHANGED <<meta, tmp, data, indexFiles, entries, spoilt, missed>>
      BY DEF Publish, disk
    <2>2. T \in Table /\ T /= NoTable
      BY <1>1, JobOf, ValuesAssumption DEF Table
    <2>3. opened_tables'[n] = T
      BY <1>6 DEF Shape, TablesOK
    <2>4. /\ IsOpen(n)' /\ opened_tables'[n].ser = job[t].ser /\ opened_tables'[n].id = job[t].id
          /\ opened_tables'[n].indexes = {} /\ opened_tables'[n].listed = {}
      BY <2>2, <2>3 DEF IsOpen
    <2> HIDE DEF T
    <2>5. \A u \in Threads : \A op, S : Doing(u, op, n, S)' => u /= t /\ ~Alive(u)'
      <3>1. \A u \in Threads \ {t} : job[u] /= Idle => job[u].ser /= job[t].ser
        BY <1>1 DEF Serials, Creates
      <3> QED
        BY <1>2, <2>4, <3>1 DEF Doing, Alive, Ends
    <2>6. /\ \A u \in Threads : Dropper(u, n)' \/ Fells(u, n)' \/ Builder(u, n)' \/ Rewriter(u, n)' => ~Alive(u)'
      BY <2>5 DEF Dropper, Fells, Builder, Rewriter
    <2>7. Maker(t, n)
      BY <1>1 DEF Maker, Doing
    <2>8. ~Held(n) /\ meta[n] /= NoFile /\ \A u \in Threads \ {t} : ~Maker(u, n)
      BY <1>4, <2>7 DEF FilesPart, Control
    <2>9. \A u \in Threads : ~Maker(u, n)' /\ ~Doing(u, "drop", n, {"data", "meta"})' /\ ~Doing(u, "drop", n, {"meta"})'
      BY <1>1, <1>2, <1>3, <2>8, OthersAt, NoLonger DEF Held, Doing
    <2>10. Standing(n)' /\ Held(n)'
      BY <1>6, <2>4, <2>6 DEF Standing, Held
    <2>11. Control(n)'
      BY <1>6, <2>1, <2>4, <2>6, <2>8, <2>9 DEF Control
    <2>12. n \notin cut => Content(n)'
      <3> SUFFICES ASSUME n \notin cut PROVE Content(n)'
        OBVIOUS
      <3>1. meta[n] = NewMeta(t) /\ data[n] = "ok"
        BY <1>1, <1>4, <2>7 DEF FilesPart, Content
      <3>2. MetaOf(n)' = NewMeta(t)
        BY <2>4 DEF MetaOf, NewMeta
      <3> QED
        BY <2>1, <2>9, <2>10, <3>1, <3>2 DEF Content
    <2>13. Lists(n)' /\ Owned(n)' /\ Complete(n)' /\ Pending(n)'
      BY <2>4, <2>6 DEF Lists, Owned, Complete, Pending
    <2>14. n \notin cut => OneRewriter(n)'
      BY <1>1, <1>3, <1>4, <2>6, OthersAt DEF IndexPart, OneRewriter
    <2>15. n \notin cut => Owners(n)'
      <3> SUFFICES ASSUME n \notin cut PROVE Owners(n)'
        OBVIOUS
      <3>1. ~Standing(n)
        BY <1>4, <2>8 DEF FilesPart, Content
      <3>2. ~Indexed(n)
        BY <3>1 DEF Indexed, Standing
      <3> QED
        BY <1>1, <1>3, <1>4, <2>1, <3>2, OthersAt DEF IndexPart, Owners
    <2> QED
      BY <1>6, <2>11, <2>12, <2>13, <2>14, <2>15 DEF NameInv
  <1> QED
    BY <1>5, <1>6 DEF Publish

-----------------------------------------------------------------------------
(* DROP TABLE on its own name.                                             *)

\* A statement that gives up leaves the name to the others.
LEMMA GivesUp ==
  ASSUME NEW t \in Threads, OthersStay(t), Ends(t), NEW n \in Names, Control(n),
         opened_tables'[n] = opened_tables[n], meta'[n] = meta[n],
         DataFile(n) \in buffer_pools' <=> DataFile(n) \in buffer_pools
  PROVE  Control(n)'
  <1>1. \A u \in Threads \ {t} : Dropper(u, n) \/ Doing(u, "drop", n, {"data", "meta"}) => (Alive(u)' <=> Alive(u))
    BY OthersAt DEF Alive, Dropper, Doing
  <1>2. Held(n)' => Held(n)
    BY OthersAt, NoLonger DEF Held
  <1> QED
    BY <1>1, <1>2, OthersAt, NoLonger DEF Control, IsOpen

\* close_file lets one DROP TABLE of a table through.
LEMMA DropCloseKeeps ==
  ASSUME Shape, NEW t \in Threads, DropClose(t), NEW n \in Names, n = job[t].n, NameInv(n)
  PROVE  NameInv(n)'
  <1>1. job[t] /= Idle /\ job[t].op = "drop" /\ job[t].step = "close" /\ JobsOK /\ Alive(t)
    BY DEF Shape, DropClose, At
  <1>2. IF HasPool(t) THEN buffer_pools' = buffer_pools \ {DataFile(n)} /\ MovesTo(t, "data", job[t].left)
        ELSE Ends(t) /\ UNCHANGED buffer_pools
    BY <1>1, JobSteps DEF DropClose, Steps
  <1>3. OthersStay(t)
    BY <1>1, <1>2, Others
  <1>4. FilesPart(n) /\ IndexPart(n) /\ Complete(n)
    BY NameParts
  <1>5. UNCHANGED <<meta, tmp, data, indexFiles, opened_tables, rows, entries, cut, spoilt, missed>>
    BY DEF DropClose, disk, history
  <1>6. ~Fells(t, n) /\ ~Fells(t, n)' /\ ~Dropper(t, n) /\ ~Doing(t, "drop", n, {"meta"}) /\ ~Doing(t, "drop", n, {"meta"})'
        /\ ~Doing(t, "drop", n, {"data", "meta"})
    BY <1>1, <1>2 DEF Fells, Dropper, Doing, MovesTo, Ends
  <1>7. SameIndexes(n) /\ SameRows(n)
    <2>1. \A i \in IndexNames : <<n, i>> /= DataFile(n)
      BY ValuesAssumption DEF DataFile
    <2>2. \A i \in IndexNames : <<n, i>> \in buffer_pools' <=> <<n, i>> \in buffer_pools
      BY <1>2, <2>1
    <2> QED
      BY <1>1, <1>3, <1>5, <1>6, <2>2, OthersAt DEF SameIndexes, SameRows
  <1>8. CASE ~HasPool(t)
    <2>1. SameFiles(n)
      BY <1>1, <1>2, <1>3, <1>5, <1>6, <1>8, OthersAt, NoLonger DEF SameFiles, IsOpen
    <2> QED
      BY <1>4, <1>7, <2>1, FilesFrame, IndexFrame, RowsFrame, NameParts DEF NameInv, FilesPart, IndexPart
  <1>9. CASE HasPool(t)
    <2>1. /\ DataFile(n) \in buffer_pools /\ DataFile(n) \notin buffer_pools'
          /\ MovesTo(t, "data", job[t].left)
      BY <1>2, <1>9 DEF HasPool
    <2>2. Dropper(t, n)' /\ Doing(t, "drop", n, {"data", "meta"})' /\ Alive(t)'
      BY <1>1, <1>5, <2>1 DEF MovesTo, Dropper, Doing, Alive
    <2>3. Held(n) /\ Held(n)' /\ IsOpen(n) /\ \A u \in Threads : (Dropper(u, n) => ~Alive(u)) /\ ~Maker(u, n)
      BY <1>4, <2>1, <2>2 DEF FilesPart, Control, Held
    <2>4. /\ \A u \in Threads \ {t} : Dropper(u, n)' => ~Alive(u)'
          /\ \A u \in Threads \ {t} : Doing(u, "drop", n, {"data", "meta"})' => Alive(u)'
          /\ \A u \in Threads : ~Maker(u, n)'
      <3>1. \A u \in Threads \ {t} : Dropper(u, n) \/ Doing(u, "drop", n, {"data", "meta"}) => (Alive(u)' <=> Alive(u))
        BY <1>3, <1>5, OthersAt DEF Alive
      <3> QED
        BY <1>1, <1>3, <1>4, <2>3, <3>1, OthersAt DEF FilesPart, Control
    <2>5. Control(n)'
      BY <1>4, <1>5, <2>1, <2>2, <2>3, <2>4 DEF FilesPart, Control
    <2>6. n \notin cut => Content(n)'
      <3>1. Standing(n)' <=> Standing(n)
        BY <1>3, <1>5, <1>6, OthersAt DEF Standing, IsOpen, Alive
      <3>2. Standing(n)
        BY <2>3 DEF Standing, Fells, Dropper, Doing
      <3>3. (\E u \in Threads : Doing(u, "drop", n, {"meta"})') <=> \E u \in Threads : Doing(u, "drop", n, {"meta"})
        BY <1>3, <1>6, OthersAt
      <3> QED
        BY <1>4, <1>5, <2>3, <2>4, <3>1, <3>2, <3>3 DEF FilesPart, Content, MetaOf
    <2>7. FilesPart(n)'
      BY <1>5, <2>5, <2>6 DEF FilesPart
    <2> QED
      BY <1>4, <1>7, <2>7, IndexFrame, RowsFrame, NameParts DEF NameInv, FilesPart, IndexPart
  <1> QED
    BY <1>8, <1>9

\* DROP TABLE removes the data file.
LEMMA DropDataKeeps ==
  ASSUME Shape, NEW t \in Threads, DropData(t), NEW n \in Names, n = job[t].n, NameInv(n)
  PROVE  NameInv(n)'
  <1>1. job[t] /= Idle /\ job[t].op = "drop" /\ job[t].step = "data" /\ JobsOK
    BY DEF Shape, DropData, At
  <1>2. \/ data'[n] = "none" /\ MovesTo(t, "meta", job[t].left) /\ cut' = cut
        \/ Ends(t) /\ cut' = cut \cup {n}
    BY <1>1, JobSteps DEF DropData, Steps, Shape, FilesOK
  <1>3. OthersStay(t)
    BY <1>1, <1>2, Others
  <1>4. FilesPart(n) /\ IndexPart(n) /\ Complete(n)
    BY NameParts
  <1>5. UNCHANGED <<meta, tmp, indexFiles, opened_tables, buffer_pools, rows, entries, spoilt, missed>>
    BY DEF DropData, tables
  <1>6. ~Fells(t, n) /\ ~Fells(t, n)' /\ Dropper(t, n) /\ Doing(t, "drop", n, {"data", "meta"})
    BY <1>1, <1>2 DEF Fells, Dropper, Doing, MovesTo, Ends
  <1>7. SameIndexes(n) /\ SameRows(n)
    BY <1>1, <1>2, <1>3, <1>5, <1>6, OthersAt DEF SameIndexes, SameRows
  <1>8. Held(n) /\ Alive(t) /\ \A u \in Threads : ~Maker(u, n)
    BY <1>4, <1>6 DEF FilesPart, Control, Held
  <1>9. CASE Ends(t) /\ cut' = cut \cup {n}
    <2>1. FilesPart(n)'
      BY <1>3, <1>4, <1>5, <1>9, GivesUp DEF FilesPart
    <2> QED
      BY <1>4, <1>7, <2>1, IndexFrame, RowsFrame, NameParts DEF NameInv, FilesPart, IndexPart
  <1>10. CASE data'[n] = "none" /\ MovesTo(t, "meta", job[t].left) /\ cut' = cut
    <2>1. Dropper(t, n)' /\ Doing(t, "drop", n, {"data", "meta"})' /\ Doing(t, "drop", n, {"meta"})' /\ (Alive(t)' <=> Alive(t))
      BY <1>1, <1>5, <1>10 DEF MovesTo, Dropper, Doing, Alive
    <2>2. \A u \in Threads : /\ Dropper(u, n)' <=> Dropper(u, n)
                             /\ Doing(u, "drop", n, {"data", "meta"})' <=> Doing(u, "drop", n, {"data", "meta"})
                             /\ Dropper(u, n) \/ Doing(u, "drop", n, {"data", "meta"}) => (Alive(u)' <=> Alive(u))
                             /\ ~Maker(u, n)'
      BY <1>1, <1>3, <1>5, <1>6, <1>8, <2>1, OthersAt DEF Alive
    <2>3. Held(n)'
      BY <2>1 DEF Held
    <2>4. Control(n)'
      BY <1>4, <1>5, <1>8, <2>2, <2>3 DEF FilesPart, Control, IsOpen
    <2>5. n \notin cut => Content(n)'
      <3>1. Standing(n) /\ Standing(n)'
        <4>1. IsOpen(n) /\ IsOpen(n)' /\ \A u \in Threads : Dropper(u, n) /\ Alive(u) => u = t
          BY <1>4, <1>5, <1>6, <1>8 DEF FilesPart, Control, Alive, IsOpen
        <4>2. \A u \in Threads : (Fells(u, n) => u /= t /\ Dropper(u, n)) /\ (Fells(u, n)' <=> Fells(u, n))
          BY <1>3, <1>6, OthersAt DEF Fells, Dropper, Doing
        <4> QED
          BY <2>2, <4>1, <4>2 DEF Standing
      <3> QED
        BY <1>4, <1>5, <1>10, <2>1, <2>2, <2>3, <3>1 DEF FilesPart, Content, MetaOf
    <2>6. FilesPart(n)'
      BY <1>10, <2>4, <2>5 DEF FilesPart
    <2> QED
      BY <1>4, <1>7, <2>6, IndexFrame, RowsFrame, NameParts DEF NameInv, FilesPart, IndexPart
  <1> QED
    BY <1>2, <1>9, <1>10

\* DROP TABLE removes the meta file; a CREATE TABLE may begin on the name.
LEMMA DropMetaKeeps ==
  ASSUME Shape, NEW t \in Threads, DropMeta(t), NEW n \in Names, n = job[t].n, NameInv(n)
  PROVE  NameInv(n)'
  <1>1. job[t] /= Idle /\ job[t].op = "drop" /\ job[t].step = "meta" /\ JobsOK
    BY DEF Shape, DropMeta, At
  <1>2. FilesPart(n) /\ IndexPart(n) /\ Complete(n)
    BY NameParts
  <1>3. Dropper(t, n) /\ Doing(t, "drop", n, {"data", "meta"}) /\ Doing(t, "drop", n, {"meta"}) /\ ~Fells(t, n)
    BY <1>1 DEF Dropper, Fells, Doing
  <1>4. Alive(t) /\ Held(n) /\ IsOpen(n) /\ opened_tables[n].indexes \in SUBSET IndexNames
    <2>1. Alive(t) /\ Held(n)
      BY <1>2, <1>3 DEF FilesPart, Control, Held
    <2>2. opened_tables[n] \in Table
      BY <2>1 DEF Alive, Shape, TablesOK
    <2> QED
      BY <2>1, <2>2 DEF Alive, IsOpen, Table
  <1>5. \/ meta'[n] = NoFile /\ MovesTo(t, "indexes", opened_tables[n].indexes) /\ cut' = cut
        \/ Ends(t) /\ cut' = cut \cup {n} /\ UNCHANGED meta
    BY <1>1, <1>4, JobSteps DEF DropMeta, Steps, Shape, FilesOK
  <1>6. OthersStay(t)
    BY <1>1, <1>5, Others
  <1>7. UNCHANGED <<tmp, data, indexFiles, opened_tables, buffer_pools, rows, entries, spoilt, missed>>
    BY DEF DropMeta, tables
  <1>8. CASE Ends(t) /\ cut' = cut \cup {n} /\ UNCHANGED meta
    <2>1. FilesPart(n)'
      BY <1>2, <1>6, <1>7, <1>8, GivesUp DEF FilesPart
    <2>2. SameIndexes(n) /\ SameRows(n)
      BY <1>1, <1>3, <1>6, <1>7, <1>8, OthersAt, NoLonger DEF SameIndexes, SameRows
    <2> QED
      BY <1>2, <2>1, <2>2, IndexFrame, RowsFrame, NameParts DEF NameInv, FilesPart, IndexPart
  <1>9. CASE meta'[n] = NoFile /\ MovesTo(t, "indexes", opened_tables[n].indexes) /\ cut' = cut
    <2>1. /\ Dropper(t, n)' /\ Fells(t, n)' /\ ~Doing(t, "drop", n, {"data", "meta"})' /\ Alive(t)'
          /\ job'[t].left = opened_tables[n].indexes
      BY <1>1, <1>4, <1>7, <1>9 DEF MovesTo, Dropper, Fells, Doing, Alive
    <2>2. \A u \in Threads \ {t} : Dropper(u, n) \/ Fells(u, n) \/ Rewriter(u, n) \/ Doing(u, "drop", n, {"data", "meta"})
                                     => (Alive(u)' <=> Alive(u))
      BY <1>6, <1>7, OthersAt DEF Alive
    <2>3. DataFile(n) \notin buffer_pools /\ \A u \in Threads : ~Maker(u, n) /\ ~Maker(u, n)'
      BY <1>1, <1>2, <1>3, <1>4, <1>6, OthersAt DEF FilesPart, Control
    <2>4. \A u \in Threads : ~Doing(u, "drop", n, {"data", "meta"})'
      <3>1. \A u \in Threads : Doing(u, "drop", n, {"data", "meta"}) => Dropper(u, n)
        BY DEF Dropper, Doing
      <3> QED
        BY <1>2, <1>3, <1>4, <1>6, <2>1, <3>1, OthersAt DEF FilesPart, Control
    <2>5. ~Held(n)'
      BY <1>7, <2>3, <2>4 DEF Held
    <2>6. Control(n)'
      BY <1>2, <1>3, <1>4, <1>6, <1>7, <2>1, <2>2, <2>3, <2>4, <2>5, OthersAt DEF FilesPart, Control
    <2>7. ~Standing(n)' /\ ~Indexed(n)'
      BY <2>1 DEF Standing, Indexed
    <2>8. n \notin cut => Content(n)'
      <3>1. Standing(n)
        <4>1. \A u \in Threads : Fells(u, n) => Dropper(u, n) /\ u /= t
          BY <1>3 DEF Fells, Dropper, Doing
        <4> QED
          BY <1>2, <1>3, <1>4, <4>1 DEF FilesPart, Control, Standing
      <3>2. n \notin cut => data[n] = "none"
        BY <1>2, <1>3, <3>1 DEF FilesPart, Content
      <3> QED
        BY <1>7, <1>9, <2>3, <2>7, <3>2 DEF Content
    <2>9. Lists(n)'
      <3>1. \A u \in Threads : Rewriter(u, n)' <=> Rewriter(u, n)
        BY <1>1, <1>6, OthersAt
      <3>2. \A u \in Threads : Rewriter(u, n) => job'[u] = job[u] /\ u /= t
        BY <1>1, <1>6, OthersAt
      <3> QED
        BY <1>2, <1>6, <1>7, <2>1, <2>2, <3>1, <3>2, OthersAt DEF IndexPart, Lists, IsOpen
    <2>10. Owned(n)' /\ Complete(n)' /\ Pending(n)'
      BY <2>7 DEF Owned, Complete, Pending
    <2>11. n \notin cut => OneRewriter(n)'
      BY <1>1, <1>2, <1>6, <1>7, <2>2, OthersAt DEF IndexPart, OneRewriter
    <2>12. n \notin cut => Owners(n)'
      BY <1>1, <1>2, <1>3, <1>6, <1>7, <2>1, OthersAt DEF IndexPart, Owners
    <2> QED
      BY <1>9, <2>6, <2>8, <2>9, <2>10, <2>11, <2>12 DEF NameInv
  <1> QED
    BY <1>5, <1>8, <1>9

\* DROP TABLE removes the file of an index.
LEMMA DropIndexKeeps ==
  ASSUME Shape, NEW t \in Threads, DropIndex(t), NEW n \in Names, n = job[t].n, NameInv(n)
  PROVE  NameInv(n)'
  <1>1. job[t] /= Idle /\ job[t].op = "drop" /\ job[t].step = "indexes" /\ JobsOK /\ job[t].left \in SUBSET IndexNames
    BY JobOf DEF Shape, DropIndex, At
  <1>2. FilesPart(n) /\ IndexPart(n) /\ Complete(n)
    BY NameParts
  <1>3. PICK i \in IndexNames :
          /\ buffer_pools' = buffer_pools \ {<<n, i>>}
          /\ \/ /\ indexFiles' = indexFiles \ {<<n, i>>} /\ UNCHANGED history
                /\ job' = [job EXCEPT ![t].left = @ \ {i}]
             \/ /\ Return(t)
                /\ cut' = cut \cup {n} /\ spoilt' = spoilt \cup {y \in Indexes : y[1] = n}
    BY DEF DropIndex
  <1>4. UNCHANGED <<meta, tmp, data, opened_tables, rows, entries>>
    BY DEF DropIndex
  <1>5. DataFile(n) \in buffer_pools' <=> DataFile(n) \in buffer_pools
    BY <1>3, ValuesAssumption DEF DataFile
  <1>6. CASE Return(t) /\ cut' = cut \cup {n} /\ spoilt' = spoilt \cup {y \in Indexes : y[1] = n}
    <2>1. Ends(t)
      BY <1>1, <1>6, JobSteps
    <2>2. OthersStay(t)
      BY <1>1, <2>1, Others
    <2>3. Control(n)'
      BY <1>2, <1>4, <1>5, <2>1, <2>2, GivesUp DEF FilesPart
    <2>4. n \in cut' /\ \A k \in IndexNames : <<n, k>> \in spoilt'
      BY <1>6 DEF Indexes
    <2>5. Owned(n)' /\ Complete(n)'
      BY <2>4 DEF Owned, Tracked, Complete
    <2>6. Lists(n)'
      <3>1. \A u \in Threads : /\ Rewriter(u, n)' <=> Rewriter(u, n)
                               /\ Rewriter(u, n) => job'[u] = job[u]
                               /\ Fells(u, n)' => Fells(u, n) /\ job'[u] = job[u]
        BY <1>1, <2>1, <2>2, OthersAt, NoLonger
      <3>2. \A u \in Threads : Rewriter(u, n) \/ Fells(u, n)' => (Alive(u)' <=> Alive(u))
        BY <1>4, <3>1 DEF Alive
      <3> QED
        BY <1>2, <1>4, <3>1, <3>2 DEF IndexPart, Lists, IsOpen
    <2> QED
      BY <2>3, <2>4, <2>5, <2>6 DEF NameInv
  <1>7. CASE indexFiles' = indexFiles \ {<<n, i>>} /\ UNCHANGED history /\ job' = [job EXCEPT ![t].left = @ \ {i}]
    <2>1. job' = [job EXCEPT ![t].left = job[t].left \ {i}]
      BY <1>7
    <2>2. MovesTo(t, "indexes", job[t].left \ {i})
      BY <1>1, <2>1, JobSteps
    <2>3. OthersStay(t)
      BY <1>1, <2>2, Others
    <2>4. UNCHANGED <<cut, spoilt, missed>>
      BY <1>7 DEF history
    <2>5. /\ Dropper(t, n) /\ Dropper(t, n)' /\ Fells(t, n) /\ Fells(t, n)' /\ job'[t].left = job[t].left \ {i}
          /\ job'[t].ser = job[t].ser /\ job'[t].id = job[t].id /\ job'[t].step = job[t].step
          /\ Alive(t)' <=> Alive(t)
      BY <1>1, <1>4, <2>2 DEF Dropper, Fells, Doing, MovesTo, Alive
    <2>6. SameFiles(n)
      BY <1>1, <1>4, <1>5, <2>3, <2>4, <2>5, OthersAt DEF SameFiles, IsOpen
    <2>7. ~Indexed(n) /\ ~Indexed(n)'
      BY <2>5 DEF Indexed
    <2>8. /\ \A u \in Threads : /\ Rewriter(u, n)' <=> Rewriter(u, n)
                                /\ Rewriter(u, n) => job'[u] = job[u] /\ (Alive(u)' <=> Alive(u))
                                /\ Fells(u, n)' <=> Fells(u, n)
                                /\ Fells(u, n) => (Alive(u)' <=> Alive(u))
      <3>1. \A u \in Threads \ {t} : Rewriter(u, n) \/ Fells(u, n) => (Alive(u)' <=> Alive(u))
        BY <1>4, <2>3, OthersAt DEF Alive
      <3> QED
        BY <1>1, <2>3, <2>5, <3>1, OthersAt
    <2>9. Lists(n)'
      BY <1>2, <1>4, <2>8 DEF IndexPart, Lists, IsOpen
    <2>10. Owned(n)' /\ Complete(n)' /\ Pending(n)'
      BY <2>7 DEF Owned, Complete, Pending
    <2>11. n \notin cut => OneRewriter(n)'
      BY <1>2, <1>4, <2>8 DEF IndexPart, OneRewriter
    <2>12. n \notin cut => Owners(n)'
      <3> SUFFICES ASSUME n \notin cut, NEW k \in IndexNames, <<n, k>> \in indexFiles', <<n, k>> \notin spoilt'
                   PROVE  \/ \E u \in Threads : Builder(u, n)' /\ job'[u].i = k
                          \/ \E u \in Threads : Fells(u, n)' /\ k \in job'[u].left
        BY DEF Owners
      <3>1. <<n, k>> \in indexFiles /\ <<n, k>> \notin spoilt /\ k /= i
        BY <1>7, <2>4
      <3>2. CASE \E u \in Threads : Builder(u, n) /\ job[u].i = k
        BY <1>1, <2>3, <3>2, OthersAt
      <3>3. CASE \E u \in Threads : Fells(u, n) /\ k \in job[u].left
        BY <2>3, <2>5, <3>1, <3>3, OthersAt
      <3> QED
        BY <1>2, <2>7, <3>1, <3>2, <3>3 DEF IndexPart, Owners
    <2>13. FilesPart(n)'
      BY <1>2, <2>6, FilesFrame
    <2> QED
      BY <2>4, <2>9, <2>10, <2>11, <2>12, <2>13 DEF NameInv, FilesPart
  <1> QED
    BY <1>3, <1>6, <1>7

\* DROP TABLE erases its own table.
LEMMA DropEraseKeeps ==
  ASSUME Shape, NEW t \in Threads, DropErase(t), Alive(t), NEW n \in Names, n = job[t].n, NameInv(n)
  PROVE  NameInv(n)'
  <1>1. job[t] /= Idle /\ job[t].op = "drop" /\ job[t].step = "indexes" /\ JobsOK /\ job[t].left = {}
    BY DEF Shape, DropErase, At
  <1>2. FilesPart(n) /\ IndexPart(n) /\ Complete(n)
    BY NameParts
  <1>3. Ends(t) /\ opened_tables'[n] = NoTable
    BY <1>1, JobSteps DEF DropErase, Shape, TablesOK
  <1>4. OthersStay(t)
    BY <1>1, <1>3, Others
  <1>5. UNCHANGED <<meta, tmp, data, indexFiles, buffer_pools, rows, entries, cut, spoilt, missed>>
    BY DEF DropErase, disk, history
  <1>6. Dropper(t, n) /\ Fells(t, n) /\ ~Doing(t, "drop", n, {"data", "meta"})
    BY <1>1 DEF Dropper, Fells, Doing
  <1>7. ~IsOpen(n)' /\ ~Standing(n) /\ ~Standing(n)' /\ ~Indexed(n) /\ ~Indexed(n)'
    BY <1>3, <1>6 DEF IsOpen, Standing, Indexed
  <1>8. DataFile(n) \notin buffer_pools /\ \A u \in Threads : ~Doing(u, "drop", n, {"data", "meta"})
    <2>1. \A u \in Threads : Doing(u, "drop", n, {"data", "meta"}) => Dropper(u, n)
      BY DEF Dropper, Doing
    <2> QED
      BY <1>2, <1>6, <2>1 DEF FilesPart, Control
  <1>9. \A u \in Threads : \A op, S : Doing(u, op, n, S)' => ~Alive(u)'
    BY <1>7 DEF Doing, Alive, IsOpen
  <1>10. \A u \in Threads : Dropper(u, n)' \/ Fells(u, n)' \/ Builder(u, n)' \/ Rewriter(u, n)' => ~Alive(u)'
    BY <1>9 DEF Dropper, Fells, Builder, Rewriter
  <1>11. \A u \in Threads : /\ ~Doing(u, "drop", n, {"data", "meta"})'
                            /\ Maker(u, n)' <=> Maker(u, n)
                            /\ Maker(u, n) => job'[u] = job[u]
    BY <1>1, <1>3, <1>4, <1>8, OthersAt, NoLonger
  <1>12. ~Held(n)'
    BY <1>5, <1>8, <1>11 DEF Held
  <1>13. Control(n)'
    BY <1>2, <1>5, <1>8, <1>10, <1>11, <1>12 DEF FilesPart, Control
  <1>14. n \notin cut => Content(n)'
    BY <1>2, <1>5, <1>7, <1>11 DEF FilesPart, Content, NewMeta
  <1>15. Lists(n)' /\ Owned(n)' /\ Complete(n)' /\ Pending(n)'
    BY <1>7, <1>10 DEF Lists, Owned, Complete, Pending
  <1>16. n \notin cut => OneRewriter(n)'
    BY <1>1, <1>2, <1>4, <1>10, OthersAt DEF IndexPart, OneRewriter
  <1>17. n \notin cut => Owners(n)'
    BY <1>1, <1>2, <1>4, <1>5, <1>7, OthersAt DEF IndexPart, Owners
  <1> QED
    BY <1>5, <1>13, <1>14, <1>15, <1>16, <1>17 DEF NameInv

-----------------------------------------------------------------------------
(* CREATE INDEX and INSERT on their own name.                              *)

\* A CREATE INDEX that does not touch the table's own files.
LEMMA IndexSameFiles ==
  ASSUME NEW t \in Threads, OthersStay(t), job[t].op = "index", NEW n \in Names,
         meta'[n] = meta[n], data' = data, n \in cut => n \in cut',
         buffer_pools' = buffer_pools \/ \E i \in IndexNames : buffer_pools' = buffer_pools \cup {<<n, i>>},
         opened_tables' = opened_tables
           \/ (/\ IsOpen(n) /\ IsOpen(n)'
               /\ opened_tables'[n].id = opened_tables[n].id /\ opened_tables'[n].ser = opened_tables[n].ser
               /\ opened_tables'[n].listed = opened_tables[n].listed)
  PROVE  SameFiles(n)
  <1>1. DataFile(n) \in buffer_pools' <=> DataFile(n) \in buffer_pools
    BY ValuesAssumption DEF DataFile
  <1> QED
    BY <1>1, OthersAt DEF SameFiles, IsOpen

\* O_EXCL on the index file lets one CREATE INDEX of the name through.
LEMMA CreateIndexFileKeeps ==
  ASSUME Shape, NEW t \in Threads, CreateIndexFile(t), NEW n \in Names, n = job[t].n, NameInv(n)
  PROVE  NameInv(n)'
  <1> DEFINE k == job[t].i
             x == <<n, job[t].i>>
  <1>1. job[t] /= Idle /\ job[t].op = "index" /\ job[t].step = "file" /\ JobsOK /\ Alive(t) /\ k \in IndexNames
    BY JobOf DEF Shape, CreateIndexFile, Building, At
  <1>2. FilesPart(n) /\ IndexPart(n) /\ Complete(n)
    BY NameParts
  <1>3. UNCHANGED <<meta, tmp, data, opened_tables, rows, cut, missed>>
    BY DEF CreateIndexFile
  <1>4. \/ Ends(t) /\ UNCHANGED <<indexFiles, buffer_pools, entries, spoilt>>
        \/ /\ x \notin indexFiles /\ indexFiles' = indexFiles \cup {x}
           /\ \/ /\ MovesTo(t, "build", job[t].left)
                 /\ buffer_pools' = buffer_pools \cup {x} /\ entries' = [entries EXCEPT ![x] = {}]
                 /\ UNCHANGED spoilt
              \/ Ends(t) /\ spoilt' = spoilt \cup {x} /\ UNCHANGED <<buffer_pools, entries>>
    BY <1>1, JobSteps DEF CreateIndexFile, Index, Spoil, Steps
  <1>5. OthersStay(t)
    BY <1>1, <1>4, Others
  <1>6. SameFiles(n)
    BY <1>1, <1>3, <1>4, <1>5, IndexSameFiles
  <1>7. FilesPart(n)'
    BY <1>2, <1>6, FilesFrame
  <1>8. ~Builder(t, n) /\ ~Rewriter(t, n) /\ ~Rewriter(t, n)'
    BY <1>1, <1>4 DEF Builder, Rewriter, Doing, MovesTo, Ends
  <1>9. /\ \A u \in Threads : /\ Fells(u, n)' <=> Fells(u, n)
                              /\ Rewriter(u, n)' <=> Rewriter(u, n)
                              /\ Fells(u, n) \/ Rewriter(u, n) => job'[u] = job[u]
        /\ \A u \in Threads : Fells(u, n) \/ Rewriter(u, n) => (Alive(u)' <=> Alive(u))
        /\ \A u \in Threads \ {t} : Builder(u, n) => (Alive(u)' <=> Alive(u))
    <2>1. /\ \A u \in Threads : /\ Fells(u, n)' <=> Fells(u, n)
                                /\ Rewriter(u, n)' <=> Rewriter(u, n)
                                /\ Fells(u, n) \/ Rewriter(u, n) => job'[u] = job[u]
      BY <1>1, <1>5, <1>8, OthersAt
    <2> QED
      BY <1>3, <1>5, <2>1, OthersAt DEF Alive
  <1>10. CASE Ends(t) /\ UNCHANGED <<indexFiles, buffer_pools, entries, spoilt>>
    <2>1. SameIndexes(n) /\ SameRows(n)
      BY <1>3, <1>5, <1>8, <1>9, <1>10, OthersAt, NoLonger DEF SameIndexes, SameRows
    <2> QED
      BY <1>2, <1>7, <2>1, IndexFrame, RowsFrame, NameParts DEF NameInv, FilesPart, IndexPart
  <1>11. CASE x \notin indexFiles /\ indexFiles' = indexFiles \cup {x}
    <2>1. Indexed(n)' <=> Indexed(n)
      BY <1>3, <1>9 DEF Indexed, IsOpen
    <2>2. Indexed(n) /\ Tracked(n, k) =>
            k \notin opened_tables[n].indexes /\ \A u \in Threads : ~(Builder(u, n) /\ job[u].i = k /\ Alive(u))
      BY <1>1, <1>2, <1>11 DEF IndexPart, Owned
    <2>3. \A i \in IndexNames : Tracked(n, i)' => Tracked(n, i)
      BY <1>3, <1>4 DEF Tracked
    <2>4. /\ \A i \in IndexNames \ {k} : /\ <<n, i>> \in indexFiles' <=> <<n, i>> \in indexFiles
                                         /\ <<n, i>> \in buffer_pools' <=> <<n, i>> \in buffer_pools
                                         /\ <<n, i>> \in spoilt' <=> <<n, i>> \in spoilt
                                         /\ entries'[<<n, i>>] = entries[<<n, i>>]
      <3>1. \A i \in IndexNames : <<n, i>> \in Indexes /\ (i /= k => <<n, i>> /= x)
        BY DEF Indexes
      <3>2. \A i \in IndexNames \ {k} : entries'[<<n, i>>] = entries[<<n, i>>]
        BY <1>4, <3>1 DEF Shape, TablesOK
      <3> QED
        BY <1>4, <3>1, <3>2
    <2>5. \/ MovesTo(t, "build", job[t].left) /\ x \in buffer_pools' /\ Builder(t, n)' /\ job'[t].i = k /\ spoilt' = spoilt
          \/ ~Builder(t, n)' /\ x \in spoilt'
      BY <1>1, <1>4, <1>11, NoLonger DEF MovesTo, Builder, Doing
    <2>6. Lists(n)'
      BY <1>2, <1>3, <1>9 DEF IndexPart, Lists, IsOpen
    <2>7. Owned(n)'
      <3> SUFFICES ASSUME Indexed(n), NEW i \in IndexNames, Tracked(n, i)
                   PROVE  /\ i \in opened_tables[n].indexes => <<n, i>> \in indexFiles' /\ <<n, i>> \in buffer_pools'
                          /\ \A u \in Threads : Builder(u, n)' /\ job'[u].i = i /\ Alive(u)' =>
                               /\ <<n, i>> \in indexFiles' /\ <<n, i>> \in buffer_pools' /\ i \notin opened_tables[n].indexes
                               /\ \A v \in Threads : Builder(v, n)' /\ job'[v].i = i /\ Alive(v)' => v = u
        BY <1>3, <2>1, <2>3 DEF Owned
      <3>1. CASE i = k
        <4>1. \A u \in Threads : Builder(u, n)' /\ job'[u].i = i /\ Alive(u)' => u = t
          BY <1>5, <1>9, <2>2, <3>1, OthersAt
        <4> QED
          BY <1>11, <2>2, <2>5, <3>1, <4>1
      <3>2. CASE i /= k
        <4>1. \A u \in Threads : Builder(u, n)' /\ job'[u].i = i /\ Alive(u)' =>
                                   Builder(u, n) /\ job[u].i = i /\ Alive(u)
          BY <1>5, <1>9, <2>5, <3>2, OthersAt
        <4> QED
          BY <1>2, <2>4, <3>2, <4>1 DEF IndexPart, Owned
      <3> QED
        BY <3>1, <3>2
    <2>8. Complete(n)'
      <3> SUFFICES ASSUME Indexed(n), NEW i \in IndexNames, i \in opened_tables[n].indexes, <<n, i>> \notin spoilt'
                   PROVE  Covers(n, i)'
        BY <1>3, <2>1 DEF Complete
      <3>1. CASE i = k
        BY <1>4, <2>2, <3>1 DEF Tracked
      <3>2. CASE i /= k
        <4>1. Covers(n, i)
          BY <1>2, <2>4, <3>2 DEF Complete
        <4> QED
          BY <1>3, <2>4, <3>2, <4>1 DEF Covers, Keyed
      <3> QED
        BY <3>1, <3>2
    <2>9. n \notin cut' => OneRewriter(n)'
      BY <1>2, <1>3, <1>9 DEF IndexPart, OneRewriter
    <2>10. n \notin cut' => Owners(n)'
      <3> SUFFICES ASSUME n \notin cut, NEW i \in IndexNames, <<n, i>> \in indexFiles', <<n, i>> \notin spoilt'
                   PROVE  \/ Indexed(n) /\ i \in opened_tables[n].indexes
                          \/ \E u \in Threads : Builder(u, n)' /\ job'[u].i = i
                          \/ \E u \in Threads : Fells(u, n)' /\ i \in job'[u].left
        BY <1>3, <2>1 DEF Owners
      <3>1. CASE i = k
        BY <2>5, <3>1
      <3>2. CASE i /= k
        <4>1. \A u \in Threads : Builder(u, n) => Builder(u, n)' /\ job'[u] = job[u]
          BY <1>5, <1>8, OthersAt
        <4>2. <<n, i>> \in indexFiles /\ <<n, i>> \notin spoilt
          BY <2>4, <3>2
        <4> QED
          BY <1>2, <1>9, <4>1, <4>2 DEF IndexPart, Owners
      <3> QED
        BY <3>1, <3>2
    <2>11. n \notin cut' => Pending(n)'
      <3>1. \A i \in IndexNames : <<n, i>> \in spoilt => <<n, i>> \in spoilt'
        BY <1>4
      <3> QED
        BY <1>2, <1>3, <1>9, <2>1, <3>1 DEF IndexPart, Pending
    <2> QED
      BY <1>7, <2>6, <2>7, <2>8, <2>9, <2>10, <2>11 DEF NameInv, FilesPart
  <1> QED
    BY <1>4, <1>10, <1>11

\* The index takes the visible records; it is not used by anyone yet.
LEMMA BuildIndexKeeps ==
  ASSUME Shape, NEW t \in Threads, BuildIndex(t), NEW n \in Names, n = job[t].n, NameInv(n)
  PROVE  NameInv(n)'
  <1> DEFINE k == job[t].i
             x == <<n, job[t].i>>
  <1>1. job[t] /= Idle /\ job[t].op = "index" /\ job[t].step = "build" /\ JobsOK /\ Alive(t) /\ k \in IndexNames
    BY JobOf DEF Shape, BuildIndex, Building, At
  <1>2. FilesPart(n) /\ IndexPart(n) /\ Complete(n)
    BY NameParts
  <1>3. UNCHANGED <<meta, tmp, data, indexFiles, opened_tables, buffer_pools, rows, cut>>
    BY DEF BuildIndex, disk
  <1>4. /\ \/ MovesTo(t, "push", job[t].left) /\ UNCHANGED spoilt
           \/ Ends(t) /\ spoilt' = spoilt \cup {x}
        /\ \E s : entries' = [entries EXCEPT ![x] = s]
        /\ UNCHANGED missed
    BY <1>1, JobSteps DEF BuildIndex, Index, Spoil, Steps
  <1>5. OthersStay(t)
    BY <1>1, <1>4, Others
  <1>6. FilesPart(n)'
    BY <1>1, <1>2, <1>3, <1>5, IndexSameFiles, FilesFrame
  <1>7. Builder(t, n) /\ ~Rewriter(t, n) /\ ~Rewriter(t, n)' /\ (Builder(t, n)' => job'[t].i = k)
        /\ (Builder(t, n)' \/ (x \in spoilt' /\ ~Builder(t, n)'))
    BY <1>1, <1>4 DEF Builder, Rewriter, Doing, MovesTo, Ends
  <1>8. /\ \A u \in Threads : /\ Fells(u, n)' <=> Fells(u, n)
                              /\ Rewriter(u, n)' <=> Rewriter(u, n)
                              /\ Fells(u, n) \/ Rewriter(u, n) => job'[u] = job[u]
                              /\ Builder(u, n)' => Builder(u, n) /\ job'[u].i = job[u].i
    BY <1>1, <1>5, <1>7, OthersAt
  <1>9. \A u \in Threads : Fells(u, n) \/ Rewriter(u, n) \/ Builder(u, n)' => (Alive(u)' <=> Alive(u))
    <2>1. \A u \in Threads \ {t} : job'[u] = job[u]
      BY <1>5, OthersAt
    <2>2. Builder(t, n)' => (Alive(t)' <=> Alive(t))
      BY <1>3, <1>4 DEF Alive, MovesTo, Ends, Builder, Doing
    <2> QED
      BY <1>3, <1>7, <1>8, <2>1, <2>2 DEF Alive
  <1>10. Indexed(n)' <=> Indexed(n)
    BY <1>3, <1>8 DEF Indexed, IsOpen
  <1>11. spoilt \subseteq spoilt' /\ \A i \in IndexNames : Tracked(n, i)' => Tracked(n, i)
    BY <1>3, <1>4 DEF Tracked
  <1>12. Lists(n)'
    BY <1>2, <1>3, <1>8, <1>9 DEF IndexPart, Lists, IsOpen
  <1>13. Owned(n)'
    BY <1>2, <1>3, <1>8, <1>9, <1>10, <1>11 DEF IndexPart, Owned
  <1>14. Complete(n)'
    <2> SUFFICES ASSUME Indexed(n), NEW i \in IndexNames, i \in opened_tables[n].indexes, <<n, i>> \notin spoilt'
                 PROVE  Covers(n, i)'
      BY <1>3, <1>10 DEF Complete
    <2>1. CASE i = k
      <3>1. Tracked(n, k)
        BY <1>11, <2>1 DEF Tracked
      <3> QED
        BY <1>1, <1>2, <1>7, <2>1, <3>1 DEF IndexPart, Owned
    <2>2. CASE i /= k
      <3>1. <<n, i>> \in Indexes /\ <<n, i>> /= x
        BY <2>2 DEF Indexes
      <3>2. entries'[<<n, i>>] = entries[<<n, i>>]
        BY <1>4, <3>1 DEF Shape, TablesOK
      <3>3. Covers(n, i)
        BY <1>2, <1>11 DEF Complete
      <3> QED
        BY <1>3, <1>4, <3>2, <3>3 DEF Covers, Keyed
    <2> QED
      BY <2>1, <2>2
  <1>15. n \notin cut' => OneRewriter(n)'
    BY <1>2, <1>3, <1>8, <1>9 DEF IndexPart, OneRewriter
  <1>16. n \notin cut' => Owners(n)'
    <2> SUFFICES ASSUME n \notin cut, NEW i \in IndexNames, <<n, i>> \in indexFiles, <<n, i>> \notin spoilt'
                 PROVE  \/ Indexed(n) /\ i \in opened_tables[n].indexes
                        \/ \E u \in Threads : Builder(u, n)' /\ job'[u].i = i
                        \/ \E u \in Threads : Fells(u, n)' /\ i \in job'[u].left
      BY <1>3, <1>10 DEF Owners
    <2>1. \A u \in Threads : Builder(u, n) /\ job[u].i = i => Builder(u, n)' /\ job'[u].i = i
      BY <1>5, <1>7, OthersAt
    <2> QED
      BY <1>2, <1>8, <1>11, <2>1 DEF IndexPart, Owners
  <1>17. n \notin cut' => Pending(n)'
    BY <1>2, <1>3, <1>8, <1>9, <1>10, <1>11 DEF IndexPart, Pending
  <1> QED
    BY <1>6, <1>12, <1>13, <1>14, <1>15, <1>16, <1>17 DEF NameInv, FilesPart

\* The index is entered into indexes_: the records it does not have are missed, and
\* a second rewriter of the meta data cuts the name short.
LEMMA PushIndexKeeps ==
  ASSUME Shape, NEW t \in Threads, PushIndex(t), mode' /= "wild", NEW n \in Names, n = job[t].n, NameInv(n)
  PROVE  NameInv(n)'
  <1> DEFINE k == job[t].i
             x == <<n, job[t].i>>
             T == opened_tables[n]
  <1>1. job[t] /= Idle /\ job[t].op = "index" /\ job[t].step = "push" /\ JobsOK /\ Alive(t) /\ k \in IndexNames
    BY JobOf DEF Shape, PushIndex, Building, At
  <1>2. FilesPart(n) /\ IndexPart(n) /\ Complete(n)
    BY NameParts
  <1>3. UNCHANGED <<meta, tmp, data, indexFiles, buffer_pools, rows, entries>>
    BY DEF PushIndex, disk
  <1>4. /\ Running("drop", n, {"indexes"}) = {}
        /\ opened_tables' = [opened_tables EXCEPT ![n].indexes = @ \cup {k}]
        /\ missed' = missed \cup {<<x, r>> : r \in rows[n] \ entries[x]}
        /\ \/ Rewriting(n) = {} /\ UNCHANGED <<cut, spoilt>>
           \/ cut' = cut \cup {n} /\ spoilt' = spoilt \cup {y \in Indexes : y[1] = n}
        /\ Goto(t, "tmp")
    BY DEF PushIndex, Index
  <1>5. MovesTo(t, "tmp", job[t].left) /\ OthersStay(t)
    BY <1>1, <1>4, JobSteps, Others DEF Steps
  <1>6. IsOpen(n) /\ T \in Table
    BY <1>1 DEF Alive, IsOpen, Shape, TablesOK
  <1>7. /\ IsOpen(n)' /\ opened_tables'[n].indexes = T.indexes \cup {k} /\ opened_tables'[n].listed = T.listed
        /\ opened_tables'[n].id = T.id /\ opened_tables'[n].ser = T.ser
    <2>1. opened_tables'[n] = [T EXCEPT !.indexes = T.indexes \cup {k}]
      BY <1>4 DEF Shape, TablesOK
    <2>2. /\ [T EXCEPT !.indexes = T.indexes \cup {k}] \in Table
          /\ [T EXCEPT !.indexes = T.indexes \cup {k}].indexes = T.indexes \cup {k}
          /\ [T EXCEPT !.indexes = T.indexes \cup {k}].listed = T.listed
          /\ [T EXCEPT !.indexes = T.indexes \cup {k}].id = T.id
          /\ [T EXCEPT !.indexes = T.indexes \cup {k}].ser = T.ser
      BY <1>1, <1>6 DEF Table
    <2> QED
      BY <2>1, <2>2, ValuesAssumption DEF IsOpen
  <1>8. FilesPart(n)'
    <2>1. SameFiles(n)
      BY <1>1, <1>3, <1>4, <1>5, <1>6, <1>7, IndexSameFiles
    <2> QED
      BY <1>2, <2>1, FilesFrame
  <1>9. \A u \in Threads : ~Fells(u, n) /\ ~Fells(u, n)'
    <2>1. \A u \in Threads : ~Fells(u, n)
      BY <1>4 DEF Running, Fells, Doing
    <2> QED
      BY <1>1, <1>5, <2>1, OthersAt
  <1>10. Indexed(n) /\ Indexed(n)'
    BY <1>6, <1>7, <1>9 DEF Indexed
  <1>11. Builder(t, n) /\ ~Rewriter(t, n) /\ ~Builder(t, n)' /\ Rewriter(t, n)' /\ job'[t].i = k /\ job'[t].step = "tmp" /\ Alive(t)'
    BY <1>1, <1>5, <1>7 DEF Builder, Rewriter, Doing, MovesTo, Alive, IsOpen
  <1>12. \A u \in Threads \ {t} : Builder(u, n) \/ Rewriter(u, n) => (Alive(u)' <=> Alive(u))
    BY <1>5, <1>6, <1>7, OthersAt DEF Alive, IsOpen, Builder, Rewriter, Doing
  <1>13. \A i \in IndexNames : (Tracked(n, i)' => Tracked(n, i)) /\ (<<n, i>> \in spoilt => <<n, i>> \in spoilt')
    BY <1>4 DEF Tracked
  <1>14. Lists(n)'
    <2> SUFFICES ASSUME NEW u \in Threads, Rewriter(u, n)', Alive(u)'
                 PROVE  /\ job'[u].i \in T.indexes \cup {k}
                        /\ job'[u].step /= "tmp" => job'[u].left \subseteq T.indexes \cup {k}
      BY <1>2, <1>6, <1>7, <1>9 DEF IndexPart, Lists
    <2> QED
      BY <1>2, <1>5, <1>11, <1>12, OthersAt DEF IndexPart, Lists
  <1>15. Owned(n)'
    <2> SUFFICES ASSUME NEW i \in IndexNames, Tracked(n, i)
                 PROVE  /\ i \in T.indexes \cup {k} => <<n, i>> \in indexFiles /\ <<n, i>> \in buffer_pools
                        /\ \A u \in Threads : Builder(u, n)' /\ job'[u].i = i /\ Alive(u)' =>
                             /\ <<n, i>> \in indexFiles /\ <<n, i>> \in buffer_pools /\ i \notin T.indexes \cup {k}
                             /\ \A v \in Threads : Builder(v, n)' /\ job'[v].i = i /\ Alive(v)' => v = u
      BY <1>3, <1>7, <1>13 DEF Owned
    <2>1. \A u \in Threads : Builder(u, n)' /\ Alive(u)' => u /= t /\ Builder(u, n) /\ job'[u].i = job[u].i /\ Alive(u)
      BY <1>5, <1>11, <1>12, OthersAt
    <2> QED
      BY <1>1, <1>2, <1>10, <1>11, <2>1 DEF IndexPart, Owned
  <1>16. Complete(n)'
    <2> SUFFICES ASSUME NEW i \in IndexNames, i \in T.indexes \cup {k}, <<n, i>> \notin spoilt'
                 PROVE  Covers(n, i)'
      BY <1>3, <1>7 DEF Complete
    <2>1. CASE i = k
      BY <1>3, <1>4, <2>1 DEF Covers, Keyed
    <2>2. CASE i /= k
      <3>1. Covers(n, i)
        BY <1>2, <1>10, <1>13, <2>2 DEF Complete
      <3> QED
        BY <1>3, <1>4, <3>1 DEF Covers, Keyed
    <2> QED
      BY <2>1, <2>2
  <1>17. n \notin cut' => OneRewriter(n)' /\ Owners(n)' /\ Pending(n)'
    <2> SUFFICES ASSUME n \notin cut' PROVE OneRewriter(n)' /\ Owners(n)' /\ Pending(n)'
      OBVIOUS
    <2>1. Rewriting(n) = {} /\ UNCHANGED <<cut, spoilt>> /\ n \notin cut
      BY <1>4
    <2>2. \A u \in Threads : ~Rewriter(u, n) /\ (Rewriter(u, n)' <=> u = t)
      <3>1. \A u \in Threads : ~Rewriter(u, n)
        BY <2>1 DEF Rewriting, Running, Rewriter, Doing
      <3> QED
        BY <1>5, <1>11, <3>1, OthersAt
    <2>3. OneRewriter(n)'
      BY <1>11, <2>2 DEF OneRewriter
    <2>4. Owners(n)'
      <3> SUFFICES ASSUME NEW i \in IndexNames, <<n, i>> \in indexFiles, <<n, i>> \notin spoilt
                   PROVE  i \in T.indexes \cup {k} \/ \E u \in Threads : Builder(u, n)' /\ job'[u].i = i
        BY <1>3, <1>7, <1>10, <2>1 DEF Owners
      <3>1. \A u \in Threads \ {t} : Builder(u, n) => Builder(u, n)' /\ job'[u] = job[u]
        BY <1>5, OthersAt
      <3> QED
        BY <1>2, <1>9, <2>1, <3>1 DEF IndexPart, Owners
    <2>5. Pending(n)'
      <3> SUFFICES ASSUME NEW i \in IndexNames, i \in T.indexes \cup {k}, <<n, i>> \notin spoilt, i /= k
                   PROVE  i \in T.listed
        BY <1>7, <1>11, <2>1 DEF Pending
      <3> QED
        BY <1>2, <1>10, <2>1, <2>2 DEF IndexPart, Pending
    <2> QED
      BY <2>3, <2>4, <2>5
  <1> QED
    BY <1>8, <1>14, <1>15, <1>16, <1>17 DEF NameInv, FilesPart

\* The new meta data is taken from table_meta_ and the temporary file emptied.
LEMMA OpenTmpKeeps ==
  ASSUME Shape, NEW t \in Threads, OpenTmp(t), NEW n \in Names, n = job[t].n, NameInv(n)
  PROVE  NameInv(n)'
  <1> DEFINE k == job[t].i
             x == <<n, job[t].i>>
             T == opened_tables[n]
  <1>1. job[t] /= Idle /\ job[t].op = "index" /\ job[t].step = "tmp" /\ JobsOK /\ Alive(t) /\ k \in IndexNames
    BY JobOf DEF Shape, OpenTmp, Building, At
  <1>2. FilesPart(n) /\ IndexPart(n) /\ Complete(n)
    BY NameParts
  <1>3. UNCHANGED <<meta, data, indexFiles, opened_tables, buffer_pools, rows, entries, cut, missed>>
    BY DEF OpenTmp, tables
  <1>4. \/ tmp'[n] = Empty /\ MovesTo(t, "write", T.listed \cup {k}) /\ UNCHANGED spoilt
        \/ Ends(t) /\ spoilt' = spoilt \cup {x} /\ UNCHANGED tmp
    <2>1. T.listed \cup {k} \in SUBSET IndexNames
      <3>1. T \in Table
        BY <1>1 DEF Alive, Shape, TablesOK
      <3> QED
        BY <1>1, <3>1 DEF Table
    <2> QED
      BY <1>1, <2>1, JobSteps DEF OpenTmp, Index, Spoil, Steps, Shape, FilesOK
  <1>5. OthersStay(t)
    BY <1>1, <1>4, Others
  <1>6. FilesPart(n)'
    BY <1>1, <1>2, <1>3, <1>5, IndexSameFiles, FilesFrame
  <1>7. Rewriter(t, n) /\ ~Builder(t, n) /\ ~Builder(t, n)' /\ IsOpen(n)
    BY <1>1, <1>4 DEF Builder, Rewriter, Doing, MovesTo, Ends, Alive, IsOpen
  <1>8. \/ /\ tmp'[n] = Empty /\ Rewriter(t, n)' /\ job'[t].step = "write" /\ job'[t].i = k /\ Alive(t)'
           /\ job'[t].left = T.listed \cup {k} /\ UNCHANGED spoilt
        \/ ~Rewriter(t, n)' /\ spoilt' = spoilt \cup {x} /\ UNCHANGED tmp
    BY <1>1, <1>3, <1>4 DEF Rewriter, Doing, MovesTo, Ends, Alive
  <1>9. /\ \A u \in Threads : /\ Fells(u, n)' <=> Fells(u, n)
                              /\ Builder(u, n)' <=> Builder(u, n)
                              /\ Fells(u, n) \/ Builder(u, n) => job'[u] = job[u]
                              /\ Rewriter(u, n)' => Rewriter(u, n)
        /\ \A u \in Threads \ {t} : (Rewriter(u, n)' <=> Rewriter(u, n)) /\ job'[u] = job[u]
    BY <1>1, <1>5, <1>7, OthersAt
  <1>10. /\ \A u \in Threads : Fells(u, n) \/ Builder(u, n) => (Alive(u)' <=> Alive(u))
         /\ \A u \in Threads \ {t} : Alive(u)' <=> Alive(u)
    BY <1>3, <1>9 DEF Alive
  <1>11. Indexed(n)' <=> Indexed(n)
    BY <1>3, <1>9 DEF Indexed, IsOpen
  <1>12. spoilt \subseteq spoilt' /\ \A i \in IndexNames : Tracked(n, i)' => Tracked(n, i)
    BY <1>3, <1>4 DEF Tracked
  <1>13. Lists(n)'
    <2>1. k \in T.indexes /\ T.listed \subseteq T.indexes
      BY <1>1, <1>2, <1>7 DEF IndexPart, Lists
    <2> QED
      BY <1>2, <1>3, <1>8, <1>9, <1>10, <2>1 DEF IndexPart, Lists, IsOpen
  <1>14. Owned(n)'
    BY <1>2, <1>3, <1>9, <1>10, <1>11, <1>12 DEF IndexPart, Owned
  <1>15. Complete(n)'
    BY <1>2, <1>3, <1>11, <1>12, CoversStill DEF Complete
  <1>16. n \notin cut' => OneRewriter(n)'
    <2>1. n \notin cut => \A u \in Threads : Rewriter(u, n) => u = t
      BY <1>2, <1>7 DEF IndexPart, OneRewriter
    <2>2. n \notin cut => \A u \in Threads : Rewriter(u, n)' => u = t
      BY <1>9, <2>1
    <2> QED
      BY <1>3, <1>8, <2>2 DEF OneRewriter
  <1>17. n \notin cut' => Owners(n)'
    BY <1>2, <1>3, <1>9, <1>11, <1>12 DEF IndexPart, Owners
  <1>18. n \notin cut' => Pending(n)'
    <2> SUFFICES ASSUME n \notin cut, Indexed(n), NEW i \in IndexNames, i \in T.indexes, <<n, i>> \notin spoilt'
                 PROVE  i \in T.listed \/ \E u \in Threads : Rewriter(u, n)' /\ Alive(u)' /\ job'[u].i = i
      BY <1>3, <1>11 DEF Pending
    <2>1. \A u \in Threads : Rewriter(u, n) /\ Alive(u) /\ job[u].i = i => Rewriter(u, n)' /\ Alive(u)' /\ job'[u].i = i
      BY <1>8, <1>9, <1>10
    <2> QED
      BY <1>2, <1>12, <2>1 DEF IndexPart, Pending
  <1> QED
    BY <1>6, <1>13, <1>14, <1>15, <1>16, <1>17, <1>18 DEF NameInv, FilesPart

\* A meta file that is rewritten is still there.
LEMMA MetaRewritten ==
  ASSUME NEW t \in Threads, OthersStay(t), job[t].op = "index", NEW n \in Names, Control(n),
         IsOpen(n)' <=> IsOpen(n), IsOpen(n) => opened_tables'[n].ser = opened_tables[n].ser,
         buffer_pools' = buffer_pools, meta[n] /= NoFile => meta'[n] /= NoFile
  PROVE  Control(n)'
  <1>1. \A u \in Threads : /\ Maker(u, n)' <=> Maker(u, n)
                           /\ Dropper(u, n)' <=> Dropper(u, n)
                           /\ Doing(u, "drop", n, {"data", "meta"})' <=> Doing(u, "drop", n, {"data", "meta"})
                           /\ Dropper(u, n) \/ Doing(u, "drop", n, {"data", "meta"}) => job'[u] = job[u] /\ job[u].n = n
    <2>1. \A u \in Threads : Dropper(u, n) \/ Doing(u, "drop", n, {"data", "meta"}) => job[u].n = n
      BY DEF Dropper, Doing
    <2> QED
      BY <2>1, OthersAt
  <1>2. \A u \in Threads : Dropper(u, n) \/ Doing(u, "drop", n, {"data", "meta"}) => (Alive(u)' <=> Alive(u))
    BY <1>1 DEF Alive, IsOpen
  <1>3. Held(n)' <=> Held(n)
    BY <1>1 DEF Held
  <1> QED
    BY <1>1, <1>2, <1>3 DEF Control

\* The temporary file is written, or the meta file that it has become.
LEMMA WriteTmpKeeps ==
  ASSUME Shape, NEW t \in Threads, WriteTmp(t), NEW n \in Names, n = job[t].n, NameInv(n)
  PROVE  NameInv(n)'
  <1> DEFINE k == job[t].i
             x == <<n, job[t].i>>
             T == opened_tables[n]
             new == [id |-> T.id, ser |-> job[t].ser, indexes |-> job[t].left]
  <1>1. job[t] /= Idle /\ job[t].op = "index" /\ job[t].step = "write" /\ JobsOK /\ Alive(t) /\ k \in IndexNames
    BY JobOf DEF Shape, WriteTmp, Building, At
  <1>2. FilesPart(n) /\ IndexPart(n) /\ Complete(n)
    BY NameParts
  <1>3. UNCHANGED <<data, indexFiles, opened_tables, buffer_pools, rows, entries, missed>>
    BY DEF WriteTmp, tables
  <1>4. \/ MovesTo(t, "rename", job[t].left) /\ Written(t) /\ UNCHANGED <<cut, spoilt>>
        \/ Ends(t) /\ spoilt' = spoilt \cup {x} /\ UNCHANGED <<meta, tmp, cut>>
        \/ MovesTo(t, "rename", job[t].left) /\ cut' = cut \cup {n} /\ UNCHANGED <<meta, tmp, spoilt>>
    BY <1>1, JobSteps DEF WriteTmp, Index, Spoil, Steps
  <1>5. OthersStay(t)
    BY <1>1, <1>4, Others
  <1>6. Rewriter(t, n) /\ ~Builder(t, n) /\ ~Builder(t, n)' /\ IsOpen(n)
    BY <1>1, <1>4 DEF Builder, Rewriter, Doing, MovesTo, Ends, Alive, IsOpen
  <1>7. new \in MetaData /\ new /= NoFile
    <2>1. T \in Table
      BY <1>1 DEF Alive, Shape, TablesOK
    <2>2. new \in MetaData
      BY <1>1, <2>1, JobOf DEF Table, MetaData
    <2> QED
      BY <2>2, ValuesAssumption
  <1>8. Written(t) =>
          IF tmp[n] /= NoFile THEN tmp'[n] = new /\ meta' = meta
          ELSE tmp' = tmp /\ (meta'[n] = new \/ meta' = meta)
    BY DEF Written, Shape, FilesOK
  <1> HIDE DEF new
  <1>9. /\ \A u \in Threads : /\ Fells(u, n)' <=> Fells(u, n)
                              /\ Builder(u, n)' <=> Builder(u, n)
                              /\ Fells(u, n) \/ Builder(u, n) => job'[u] = job[u]
                              /\ Rewriter(u, n)' => Rewriter(u, n)
        /\ \A u \in Threads \ {t} : (Rewriter(u, n)' <=> Rewriter(u, n)) /\ job'[u] = job[u]
    BY <1>1, <1>5, <1>6, OthersAt
  <1>10. /\ \A u \in Threads : Fells(u, n) \/ Builder(u, n) => (Alive(u)' <=> Alive(u))
         /\ \A u \in Threads \ {t} : Alive(u)' <=> Alive(u)
    BY <1>3, <1>9 DEF Alive
  <1>11. \/ /\ Rewriter(t, n)' /\ job'[t].step = "rename" /\ job'[t].i = k /\ Alive(t)'
            /\ job'[t].left = job[t].left /\ job'[t].ser = job[t].ser
         \/ ~Rewriter(t, n)' /\ spoilt' = spoilt \cup {x}
    BY <1>1, <1>3, <1>4 DEF Rewriter, Doing, MovesTo, Ends, Alive
  <1>12. /\ Indexed(n)' <=> Indexed(n)
         /\ spoilt \subseteq spoilt' /\ cut \subseteq cut' /\ \A i \in IndexNames : Tracked(n, i)' => Tracked(n, i)
    <2>1. spoilt \subseteq spoilt' /\ cut \subseteq cut'
      BY <1>4
    <2> QED
      BY <1>3, <1>9, <2>1 DEF Indexed, IsOpen, Tracked
  <1>13. n \notin cut' =>
           /\ meta' = meta /\ cut' = cut /\ job[t].left = T.listed \cup {k}
           /\ \A u \in Threads : Rewriter(u, n) => u = t
           /\ MovesTo(t, "rename", job[t].left) => tmp'[n] = new
    <2> SUFFICES ASSUME n \notin cut'
                 PROVE  /\ meta' = meta /\ cut' = cut /\ job[t].left = T.listed \cup {k}
                        /\ \A u \in Threads : Rewriter(u, n) => u = t
                        /\ MovesTo(t, "rename", job[t].left) => tmp'[n] = new
      OBVIOUS
    <2>1. OneRewriter(n)
      BY <1>2, <1>12 DEF IndexPart
    <2>2. tmp[n] = Empty /\ job[t].left = T.listed \cup {k} /\ \A u \in Threads : Rewriter(u, n) => u = t
      BY <1>1, <1>6, <2>1 DEF OneRewriter
    <2>3. ~(MovesTo(t, "rename", job[t].left) /\ Ends(t))
      BY DEF MovesTo, Ends
    <2>4. tmp[n] /= NoFile
      BY <2>2, ValuesAssumption
    <2> QED
      BY <1>4, <1>8, <2>2, <2>3, <2>4
  <1>14. FilesPart(n)'
    <2>1. Control(n)'
      <3>1. meta[n] /= NoFile => meta'[n] /= NoFile
        BY <1>4, <1>7, <1>8
      <3> QED
        BY <1>1, <1>2, <1>3, <1>5, <3>1, MetaRewritten DEF FilesPart, IsOpen
    <2>2. ASSUME n \notin cut' PROVE FilesPart(n)'
      <3>1. SameFiles(n)
        BY <1>1, <1>3, <1>5, <1>12, <1>13, <2>2, IndexSameFiles
      <3> QED
        BY <1>2, <3>1, FilesFrame
    <2> QED
      BY <2>1, <2>2 DEF FilesPart
  <1>15. Lists(n)'
    <2>1. /\ k \in T.indexes /\ job[t].left \subseteq T.indexes
      BY <1>1, <1>2, <1>6 DEF IndexPart, Lists
    <2> QED
      BY <1>2, <1>3, <1>9, <1>10, <1>11, <2>1 DEF IndexPart, Lists, IsOpen
  <1>16. Owned(n)'
    BY <1>2, <1>3, <1>9, <1>10, <1>12 DEF IndexPart, Owned
  <1>17. Complete(n)'
    BY <1>2, <1>3, <1>12, CoversStill DEF Complete
  <1>18. n \notin cut' => OneRewriter(n)'
    <2> SUFFICES ASSUME n \notin cut' PROVE OneRewriter(n)'
      OBVIOUS
    <2>1. \A u \in Threads : Rewriter(u, n)' => u = t
      BY <1>9, <1>13
    <2>2. Rewriter(t, n)' => tmp'[n] = new /\ job'[t].step = "rename" /\ job'[t].left = T.listed \cup {k} /\ job'[t].i = k
                              /\ job'[t].ser = job[t].ser /\ job'[t].left = job[t].left
      <3>1. ~Rewriter(t, n)' \/ MovesTo(t, "rename", job[t].left)
        BY <1>4, NoLonger
      <3> QED
        BY <1>11, <1>13, <3>1 DEF MovesTo
    <2>3. Rewriter(t, n)' => tmp'[n] = [id |-> T.id, ser |-> job'[t].ser, indexes |-> job'[t].left]
      BY <2>2 DEF new
    <2> QED
      BY <1>3, <2>1, <2>2, <2>3 DEF OneRewriter
  <1>19. n \notin cut' => Owners(n)'
    BY <1>2, <1>3, <1>9, <1>12 DEF IndexPart, Owners
  <1>20. n \notin cut' => Pending(n)'
    <2> SUFFICES ASSUME n \notin cut', Indexed(n), NEW i \in IndexNames, i \in T.indexes, <<n, i>> \notin spoilt'
                 PROVE  i \in T.listed \/ \E u \in Threads : Rewriter(u, n)' /\ Alive(u)' /\ job'[u].i = i
      BY <1>3, <1>12 DEF Pending
    <2>1. \A u \in Threads : Rewriter(u, n) /\ Alive(u) /\ job[u].i = i => Rewriter(u, n)' /\ Alive(u)' /\ job'[u].i = i
      BY <1>9, <1>10, <1>11
    <2> QED
      BY <1>2, <1>12, <2>1 DEF IndexPart, Pending
  <1> QED
    BY <1>14, <1>15, <1>16, <1>17, <1>18, <1>19, <1>20 DEF NameInv, FilesPart

\* The temporary file takes the place of the meta file.
LEMMA RenameTmpKeeps ==
  ASSUME Shape, NEW t \in Threads, RenameTmp(t), NEW n \in Names, n = job[t].n, NameInv(n)
  PROVE  NameInv(n)'
  <1> DEFINE k == job[t].i
             x == <<n, job[t].i>>
             T == opened_tables[n]
  <1>1. /\ job[t] /= Idle /\ job[t].op = "index" /\ job[t].step = "rename" /\ JobsOK /\ Alive(t) /\ k \in IndexNames
        /\ job[t].left \in SUBSET IndexNames
    BY JobOf DEF Shape, RenameTmp, Building, At
  <1>2. FilesPart(n) /\ IndexPart(n) /\ Complete(n)
    BY NameParts
  <1>3. UNCHANGED <<data, indexFiles, buffer_pools, rows, entries, missed>>
    BY DEF RenameTmp
  <1>4. Ends(t) /\ OthersStay(t)
    BY <1>1, JobSteps, Others DEF RenameTmp
  <1>5. Rewriter(t, n) /\ ~Builder(t, n) /\ ~Builder(t, n)' /\ ~Rewriter(t, n)' /\ IsOpen(n) /\ T \in Table
    BY <1>1, <1>4 DEF Builder, Rewriter, Doing, Ends, Alive, IsOpen, Shape, TablesOK
  <1>6. /\ \A u \in Threads : /\ Fells(u, n)' <=> Fells(u, n)
                              /\ Builder(u, n)' <=> Builder(u, n)
                              /\ Fells(u, n) \/ Builder(u, n) => job'[u] = job[u]
                              /\ Rewriter(u, n)' <=> Rewriter(u, n) /\ u /= t
                              /\ u /= t => job'[u] = job[u]
    BY <1>1, <1>4, <1>5, OthersAt
  <1>7. CASE UNCHANGED <<meta, tmp, opened_tables, cut>> /\ spoilt' = spoilt \cup {x}
    <2>1. FilesPart(n)'
      BY <1>1, <1>2, <1>3, <1>4, <1>7, IndexSameFiles, FilesFrame
    <2>2. \A u \in Threads : Fells(u, n) \/ Builder(u, n) \/ Rewriter(u, n)' => (Alive(u)' <=> Alive(u))
      BY <1>6, <1>7 DEF Alive
    <2>3. Indexed(n)' <=> Indexed(n)
      BY <1>6, <1>7 DEF Indexed, IsOpen
    <2>4. spoilt \subseteq spoilt' /\ \A i \in IndexNames : Tracked(n, i)' => Tracked(n, i)
      BY <1>7 DEF Tracked
    <2>5. Lists(n)'
      BY <1>2, <1>6, <1>7, <2>2 DEF IndexPart, Lists, IsOpen
    <2>6. Owned(n)'
      BY <1>2, <1>3, <1>6, <1>7, <2>2, <2>3, <2>4 DEF IndexPart, Owned
    <2>7. Complete(n)'
      BY <1>2, <1>3, <1>7, <2>3, <2>4, CoversStill DEF Complete
    <2>8. n \notin cut' => OneRewriter(n)' /\ Owners(n)'
      BY <1>2, <1>3, <1>6, <1>7, <2>2, <2>3, <2>4 DEF IndexPart, OneRewriter, Owners
    <2>9. n \notin cut' => Pending(n)'
      <3> SUFFICES ASSUME n \notin cut, Indexed(n), NEW i \in IndexNames, i \in T.indexes, <<n, i>> \notin spoilt'
                   PROVE  i \in T.listed \/ \E u \in Threads : Rewriter(u, n)' /\ Alive(u)' /\ job'[u].i = i
        BY <1>7, <2>3 DEF Pending
      <3>1. i /= k /\ <<n, i>> \notin spoilt
        BY <1>7
      <3>2. \A u \in Threads : Rewriter(u, n) /\ Alive(u) /\ job[u].i = i => Rewriter(u, n)' /\ Alive(u)' /\ job'[u].i = i
        BY <1>6, <2>2, <3>1
      <3> QED
        BY <1>2, <3>1, <3>2 DEF IndexPart, Pending
    <2> QED
      BY <2>1, <2>5, <2>6, <2>7, <2>8, <2>9 DEF NameInv, FilesPart
  <1>8. CASE /\ tmp[n] /= NoFile /\ meta' = [meta EXCEPT ![n] = tmp[n]]
             /\ opened_tables' = [opened_tables EXCEPT ![n].listed = job[t].left]
             /\ cut' = IF Running("drop", n, {"data", "meta", "indexes"}) = {} THEN cut ELSE cut \cup {n}
             /\ UNCHANGED spoilt
    <2>1. meta'[n] = tmp[n] /\ meta'[n] /= NoFile
      BY <1>8 DEF Shape, FilesOK
    <2>2. /\ IsOpen(n)' /\ opened_tables'[n].indexes = T.indexes /\ opened_tables'[n].listed = job[t].left
          /\ opened_tables'[n].id = T.id /\ opened_tables'[n].ser = T.ser
      <3>1. opened_tables'[n] = [T EXCEPT !.listed = job[t].left]
        BY <1>8 DEF Shape, TablesOK
      <3>2. /\ [T EXCEPT !.listed = job[t].left] \in Table
            /\ [T EXCEPT !.listed = job[t].left].indexes = T.indexes
            /\ [T EXCEPT !.listed = job[t].left].listed = job[t].left
            /\ [T EXCEPT !.listed = job[t].left].id = T.id
            /\ [T EXCEPT !.listed = job[t].left].ser = T.ser
        BY <1>1, <1>5 DEF Table
      <3> QED
        BY <3>1, <3>2, ValuesAssumption DEF IsOpen
    <2>3. \A u \in Threads : Fells(u, n) \/ Builder(u, n) \/ Rewriter(u, n)' => (Alive(u)' <=> Alive(u))
      BY <1>5, <1>6, <2>2 DEF Alive, IsOpen, Fells, Builder, Rewriter, Doing
    <2>4. (Indexed(n)' <=> Indexed(n)) /\ cut \subseteq cut' /\ \A i \in IndexNames : Tracked(n, i)' => Tracked(n, i)
      BY <1>5, <1>6, <1>8, <2>2 DEF Indexed, Tracked
    <2>5. Control(n)'
      BY <1>1, <1>2, <1>3, <1>4, <1>5, <2>1, <2>2, MetaRewritten DEF FilesPart
    <2>6. Lists(n)'
      <3>1. job[t].left \subseteq T.indexes
        BY <1>1, <1>2, <1>5 DEF IndexPart, Lists
      <3> QED
        BY <1>2, <1>5, <1>6, <2>2, <2>3, <3>1 DEF IndexPart, Lists
    <2>7. Owned(n)'
      BY <1>2, <1>3, <1>6, <2>2, <2>3, <2>4 DEF IndexPart, Owned
    <2>8. Complete(n)'
      BY <1>2, <1>3, <1>8, <2>2, <2>4, CoversStill DEF Complete
    <2>9. ASSUME n \notin cut' PROVE Content(n)' /\ OneRewriter(n)' /\ Owners(n)' /\ Pending(n)'
      <3>1. /\ n \notin cut /\ Content(n) /\ OneRewriter(n) /\ Owners(n) /\ Pending(n) /\ Control(n)
            /\ \A u \in Threads : ~Dropper(u, n)
        <4>1. Running("drop", n, {"data", "meta", "indexes"}) = {}
          BY <1>8, <2>9
        <4>2. \A u \in Threads : ~Dropper(u, n)
          BY <4>1 DEF Running, Dropper, Doing
        <4> QED
          BY <1>2, <2>4, <2>9, <4>2 DEF FilesPart, IndexPart
      <3>2. \A u \in Threads : /\ ~Fells(u, n) /\ ~Doing(u, "drop", n, {"data", "meta"}) /\ ~Doing(u, "drop", n, {"meta"})
                               /\ ~Fells(u, n)' /\ ~Doing(u, "drop", n, {"meta"})'
        <4>1. \A u \in Threads : ~Fells(u, n) /\ ~Doing(u, "drop", n, {"data", "meta"}) /\ ~Doing(u, "drop", n, {"meta"})
          BY <3>1 DEF Fells, Dropper, Doing
        <4> QED
          BY <1>1, <1>4, <4>1, OthersAt
      <3>3. Standing(n) /\ Standing(n)'
        BY <1>5, <2>2, <3>2 DEF Standing
      <3>4. /\ job[t].left = T.listed \cup {k} /\ tmp[n] = [id |-> T.id, ser |-> job[t].ser, indexes |-> job[t].left]
            /\ \A u \in Threads : ~Rewriter(u, n)'
        BY <1>1, <1>5, <1>6, <3>1 DEF OneRewriter
      <3>5. meta'[n] = MetaOf(n)'
        <4>1. T.ser = job[t].ser
          BY <1>1 DEF Alive
        <4> QED
          BY <2>1, <2>2, <3>4, <4>1 DEF MetaOf
      <3>6. DataFile(n) \in buffer_pools /\ data[n] = "ok" /\ Held(n)' /\ \A u \in Threads : ~Maker(u, n)'
        <4>1. Held(n) /\ data[n] = "ok"
          BY <3>1, <3>2, <3>3 DEF Content
        <4>2. DataFile(n) \in buffer_pools /\ \A u \in Threads : ~Maker(u, n)
          BY <3>1, <3>2, <4>1 DEF Held, Control
        <4> QED
          BY <1>1, <1>3, <1>4, <4>1, <4>2, OthersAt DEF Held
      <3>7. Content(n)'
        BY <1>3, <3>2, <3>3, <3>5, <3>6 DEF Content
      <3>8. OneRewriter(n)'
        BY <3>4 DEF OneRewriter
      <3>9. Owners(n)'
        BY <1>3, <1>6, <1>8, <2>2, <2>4, <3>1 DEF Owners
      <3>10. Pending(n)'
        <4> SUFFICES ASSUME Indexed(n), NEW i \in IndexNames, i \in T.indexes, <<n, i>> \notin spoilt
                     PROVE  i \in job[t].left
          BY <1>8, <2>2, <2>4 DEF Pending
        <4>1. \A u \in Threads : Rewriter(u, n) => u = t
          BY <1>5, <3>1 DEF OneRewriter
        <4> QED
          BY <3>1, <3>4, <4>1 DEF Pending
      <3> QED
        BY <3>7, <3>8, <3>9, <3>10
    <2> QED
      BY <2>5, <2>6, <2>7, <2>8, <2>9 DEF NameInv
  <1> QED
    BY <1>7, <1>8 DEF RenameTmp, Spoil, Index

\* INSERT enters its record into the table and into every index it has.
LEMMA InsertStepKeeps ==
  ASSUME Shape, NEW t \in Threads, InsertStep(t), NEW n \in Names, n = job[t].n, NameInv(n)
  PROVE  NameInv(n)'
  <1>1. job[t] /= Idle /\ job[t].op = "insert" /\ JobsOK
    BY DEF Shape, InsertStep, InsertRecord, Commit, At
  <1>2. FilesPart(n) /\ IndexPart(n) /\ Complete(n)
    BY NameParts
  <1>3. OthersStay(t)
    BY <1>1, JobSteps, Others DEF InsertStep, InsertRecord, Commit, Steps
  <1>4. UNCHANGED <<meta, tmp, data, indexFiles, opened_tables, buffer_pools, cut, spoilt, missed>>
    BY DEF InsertStep, InsertRecord, Commit, tables, history
  <1>5. SameFiles(n)
    BY <1>1, <1>3, <1>4, OthersAt DEF SameFiles, IsOpen
  <1>6. SameIndexes(n)
    BY <1>1, <1>3, <1>4, OthersAt DEF SameIndexes
  <1>7. Complete(n)'
    <2>1. CASE Commit(t)
      <3>1. SameRows(n)
        BY <1>1, <1>3, <1>4, <2>1, OthersAt DEF Commit, tables, SameRows
      <3> QED
        BY <1>2, <3>1, RowsFrame
    <2>2. CASE InsertRecord(t)
      <3>1. rows'[n] = rows[n] \cup {job[t].row}
        BY <2>2 DEF InsertRecord, Shape, TablesOK
      <3>2. \A i \in IndexNames : i \in opened_tables[n].indexes => entries'[<<n, i>>] = entries[<<n, i>>] \cup Keyed({job[t].row}, i)
        BY <2>2 DEF InsertRecord, Indexes
      <3>3. Indexed(n)' <=> Indexed(n)
        BY <1>1, <1>3, <1>4, OthersAt DEF Indexed, IsOpen
      <3>4. ASSUME NEW i \in IndexNames, i \in opened_tables[n].indexes, Covers(n, i) PROVE Covers(n, i)'
        <4>1. entries'[<<n, i>>] = entries[<<n, i>>] \cup Keyed({job[t].row}, i)
          BY <3>2, <3>4
        <4> QED
          BY <1>4, <3>1, <3>4, <4>1 DEF Covers, Keyed
      <3> QED
        BY <1>2, <1>4, <3>3, <3>4 DEF Complete
    <2> QED
      BY <2>1, <2>2 DEF InsertStep
  <1> QED
    BY <1>2, <1>5, <1>6, <1>7, FilesFrame, IndexFrame, NameParts DEF NameInv, FilesPart, IndexPart

-----------------------------------------------------------------------------
(* Beginning, ending and starting.                                         *)

\* The invariant: in every state the shape, and one of NameInv and Disk.
UpInv == mode = "up" => \A n \in Names : NameInv(n)
DownInv == mode = "down" => \A n \in Names \ cut : Disk(n)
FInv == Shape /\ UpInv /\ DownInv

\* A statement that begins has not touched anything yet.
LEMMA BeginNames ==
  ASSUME Shape, TypeOK, NEW t \in Threads, NEW op, NEW step, NEW m \in Names, NEW i \in IndexNames \cup {Idle}, NEW ser \in Nat,
         <<op, step>> \in {<<"create", "store_id">>, <<"drop", "close">>, <<"index", "file">>, <<"insert", "write">>},
         op = "index" => i \in IndexNames, Begin(t, op, step, m, i, ser), UNCHANGED <<cut, spoilt, missed>>
  PROVE  /\ mode = "up" /\ mode' = "up" /\ Shape'
         /\ \A o \in Names : NameInv(o) => NameInv(o)'
  <1> DEFINE J == [op |-> op, step |-> step, n |-> m, i |-> i, ser |-> ser,
                   id |-> next_table_id, row |-> statements, left |-> {}]
  <1>1. /\ mode = "up" /\ mode' = "up" /\ job[t] = Idle /\ job' = [job EXCEPT ![t] = J]
        /\ UNCHANGED <<meta, tmp, data, indexFiles, opened_tables, buffer_pools, rows, entries>>
    BY DEF Begin, disk, tables
  <1>2. J \in Job /\ J /= Idle
    <2>1. /\ op \in {"create", "drop", "index", "insert"} /\ step \in Steps
      BY DEF Steps
    <2>2. next_table_id \in Nat /\ statements \in Nat
      BY DEF TypeOK
    <2>3. J \in Job
      BY <2>1, <2>2 DEF Job
    <2> QED
      BY <2>3, ValuesAssumption
  <1>3. J.op = op /\ J.step = step /\ J.i = i
    OBVIOUS
  <1> HIDE DEF J
  <1>4. job'[t] = J /\ \A u \in Threads \ {t} : job'[u] = job[u]
    BY <1>1 DEF Shape, JobsOK
  <1>5. Shape'
    <2>1. job' \in [Threads -> Job \cup {Idle}]
      BY <1>1, <1>2 DEF Shape, JobsOK
    <2>2. JobsOK'
      BY <1>3, <1>4, <2>1 DEF Shape, JobsOK
    <2> QED
      BY <1>1, <2>2 DEF Shape, FilesOK, TablesOK
  <1>6. ASSUME NEW o \in Names, NameInv(o) PROVE NameInv(o)'
    <2>1. /\ ~Maker(t, o) /\ ~Dropper(t, o) /\ ~Builder(t, o) /\ ~Rewriter(t, o) /\ ~Fells(t, o)
      BY <1>1 DEF Maker, Dropper, Builder, Rewriter, Fells, Doing
    <2>2. /\ ~Maker(t, o)' /\ ~Dropper(t, o)' /\ ~Builder(t, o)' /\ ~Rewriter(t, o)' /\ ~Fells(t, o)'
      BY <1>3, <1>4 DEF Maker, Dropper, Builder, Rewriter, Fells, Doing
    <2>3. \A u \in Threads \ {t} : /\ Maker(u, o)' <=> Maker(u, o)
                                   /\ Dropper(u, o)' <=> Dropper(u, o)
                                   /\ Builder(u, o)' <=> Builder(u, o)
                                   /\ Rewriter(u, o)' <=> Rewriter(u, o)
                                   /\ Fells(u, o)' <=> Fells(u, o)
      BY <1>4 DEF Maker, Dropper, Builder, Rewriter, Fells, Doing
    <2>4. SameFiles(o)
      BY <1>1, <1>4, <2>1, <2>2, <2>3 DEF SameFiles, IsOpen
    <2>5. SameIndexes(o)
      BY <1>1, <1>4, <2>1, <2>2, <2>3 DEF SameIndexes
    <2>6. SameRows(o)
      BY <1>1, <2>1, <2>3 DEF SameRows
    <2> QED
      BY <1>6, <2>4, <2>5, <2>6, FilesFrame, IndexFrame, RowsFrame, NameParts DEF NameInv, FilesPart, IndexPart
  <1> QED
    BY <1>1, <1>5, <1>6

\* CREATE TABLE, DROP TABLE, CREATE INDEX and INSERT begin.
LEMMA StatementNames ==
  ASSUME Shape, TypeOK, NEW t \in Threads, Statement(t)
  PROVE  /\ mode = "up" /\ mode' = "up" /\ Shape'
         /\ \A o \in Names : NameInv(o) => NameInv(o)'
  <1>1. \A n \in Names : opened_tables[n] /= NoTable => opened_tables[n].ser \in Nat
    BY DEF Shape, TablesOK, Table
  <1>2. ASSUME NEW n \in Names, CreateTable(t, n) \/ DropTable(t, n) \/ Insert(t, n)
        PROVE  /\ mode = "up" /\ mode' = "up" /\ Shape'
               /\ \A o \in Names : NameInv(o) => NameInv(o)'
    <2>1. CASE CreateTable(t, n)
      BY <2>1, BeginNames DEF CreateTable, TypeOK
    <2>2. CASE DropTable(t, n)
      BY <1>1, <2>2, BeginNames DEF DropTable, history
    <2>3. CASE Insert(t, n)
      BY <1>1, <2>3, BeginNames DEF Insert, history
    <2> QED
      BY <1>2, <2>1, <2>2, <2>3
  <1>3. ASSUME NEW n \in Names, NEW i \in IndexNames, CreateIndex(t, n, i)
        PROVE  /\ mode = "up" /\ mode' = "up" /\ Shape'
               /\ \A o \in Names : NameInv(o) => NameInv(o)'
    BY <1>1, <1>3, BeginNames DEF CreateIndex, history
  <1> QED
    BY <1>2, <1>3 DEF Statement

\* The process ends: what the files of a name say then.
LEMMA FilesLeft ==
  ASSUME Shape, NEW n \in Names, n \notin cut, NameInv(n), UNCHANGED <<meta, data, indexFiles>>,
         \A u \in Threads : Maker(u, n) => job[u].step = "open",
         \A u \in Threads : ~Doing(u, "drop", n, {"meta"}),
         \A u \in Threads : Fells(u, n) => \A i \in IndexNames : <<n, i>> \in spoilt',
         \A u \in Threads : Builder(u, n) \/ Rewriter(u, n) => <<n, job[u].i>> \in spoilt',
         spoilt \subseteq spoilt'
  PROVE  Disk(n)'
  <1>1. Content(n) /\ Control(n) /\ Lists(n) /\ Owned(n) /\ Owners(n) /\ Pending(n)
    BY DEF NameInv
  <1>2. Standing(n) => /\ meta[n] = MetaOf(n) /\ meta[n] /= NoFile /\ meta[n] /= Empty /\ data[n] = "ok"
                       /\ meta[n].indexes = opened_tables[n].listed /\ opened_tables[n].indexes \subseteq IndexNames
    <2> SUFFICES ASSUME Standing(n)
                 PROVE  /\ meta[n] = MetaOf(n) /\ meta[n] /= NoFile /\ meta[n] /= Empty /\ data[n] = "ok"
                        /\ meta[n].indexes = opened_tables[n].listed /\ opened_tables[n].indexes \subseteq IndexNames
      OBVIOUS
    <2>1. opened_tables[n] \in Table
      BY DEF Standing, IsOpen, Shape, TablesOK
    <2>2. MetaOf(n) \in MetaData /\ MetaOf(n).indexes = opened_tables[n].listed
      BY <2>1 DEF MetaOf, MetaData, Table
    <2>3. meta[n] = MetaOf(n) /\ data[n] = "ok"
      BY <1>1 DEF Content
    <2> QED
      BY <2>1, <2>2, <2>3, ValuesAssumption DEF Table
  <1>3. Indexed(n) => Standing(n)
    BY DEF Indexed, Standing
  <1>4. IF meta[n] = NoFile THEN data[n] = "none"
        ELSE /\ meta[n] /= Empty /\ data[n] = "ok"
             /\ \A i \in meta[n].indexes : <<n, i>> \in indexFiles
    <2>1. CASE Standing(n)
      <3>1. \A i \in opened_tables[n].listed : <<n, i>> \in indexFiles
        <4>1. opened_tables[n].listed \subseteq opened_tables[n].indexes
          BY <1>1, <2>1 DEF Lists, Standing
        <4>2. CASE Indexed(n)
          BY <1>1, <1>2, <2>1, <4>1, <4>2 DEF Owned, Tracked
        <4>3. CASE ~Indexed(n)
          BY <1>1, <2>1, <4>1, <4>3 DEF Indexed, Standing, Lists
        <4> QED
          BY <4>2, <4>3
      <3> QED
        BY <1>2, <2>1, <3>1
    <2>2. ASSUME NEW u \in Threads, Maker(u, n)
          PROVE  meta[n] /= NoFile /\ meta[n] /= Empty /\ data[n] = "ok" /\ \A i \in meta[n].indexes : <<n, i>> \in indexFiles
      <3>1. meta[n] = NewMeta(u) /\ data[n] = "ok"
        BY <1>1, <2>2 DEF Content
      <3>2. job[u] /= Idle /\ job[u].id \in Nat /\ job[u].ser \in Nat
        BY <2>2, JobOf DEF Maker, Doing, Shape
      <3>3. NewMeta(u) \in MetaData /\ NewMeta(u).indexes = {}
        BY <3>2 DEF NewMeta, MetaData
      <3> QED
        BY <3>1, <3>3, ValuesAssumption
    <2>3. CASE ~Standing(n) /\ \A u \in Threads : ~Maker(u, n)
      BY <1>1, <2>3 DEF Content
    <2> QED
      BY <2>1, <2>2, <2>3
  <1>5. ASSUME NEW i \in IndexNames, <<n, i>> \in indexFiles, <<n, i>> \notin spoilt'
        PROVE  meta[n] /= NoFile /\ i \in meta[n].indexes
    <2>1. Indexed(n) /\ i \in opened_tables[n].indexes
      BY <1>1, <1>5 DEF Owners
    <2>2. i \in opened_tables[n].listed
      BY <1>1, <1>5, <2>1 DEF Pending
    <2> QED
      BY <1>2, <1>3, <2>1, <2>2
  <1> QED
    BY <1>4, <1>5 DEF Disk

\* The process ends; the files stay.
LEMMA EndShape ==
  ASSUME Shape, Ended
  PROVE  Shape' /\ mode' = "down" /\ UNCHANGED <<meta, data, indexFiles>>
  <1>1. JobsOK'
    BY DEF Ended, JobsOK
  <1>2. FilesOK' /\ TablesOK'
    BY DEF Ended, Shape, FilesOK, TablesOK
  <1> QED
    BY <1>1, <1>2 DEF Ended, Shape

\* A crash: the names and indexes on which a statement stopped are recorded as
\* cut short or spoilt; the files of the others fit together.
LEMMA CrashNames ==
  ASSUME FInv, Crash
  PROVE  FInv'
  <1>1. Shape' /\ mode = "up" /\ mode' = "down" /\ UNCHANGED <<meta, data, indexFiles>>
    BY EndShape DEF FInv, Crash
  <1>2. ASSUME NEW n \in Names \ cut' PROVE Disk(n)'
    <2>1. /\ n \notin cut /\ n \notin Stopped("create", {"serialize", "data", "header"}) /\ n \notin Stopped("drop", {"meta"})
      BY <1>2 DEF Crash
    <2>2. /\ \A u \in Threads : Maker(u, n) => job[u].step = "open"
          /\ \A u \in Threads : ~Doing(u, "drop", n, {"meta"})
      BY <2>1 DEF Stopped, Maker, Doing
    <2>3. spoilt' = spoilt \cup {Index(t) : t \in {u \in Threads : job[u] /= Idle /\ job[u].op = "index"
                                                                   /\ job[u].step /= "file"}}
                           \cup {x \in Indexes : x[1] \in Stopped("drop", {"indexes"})}
      BY DEF Crash
    <2>4. \A u \in Threads : Builder(u, n) \/ Rewriter(u, n) => <<n, job[u].i>> \in spoilt'
      BY <2>3 DEF Builder, Rewriter, Doing, Index
    <2>5. ASSUME NEW u \in Threads, Fells(u, n), NEW i \in IndexNames PROVE <<n, i>> \in spoilt'
      <3>1. n \in Stopped("drop", {"indexes"})
        BY <2>5 DEF Stopped, Fells, Doing
      <3>2. <<n, i>> \in {x \in Indexes : x[1] \in Stopped("drop", {"indexes"})}
        BY <3>1 DEF Indexes
      <3> QED
        BY <2>3, <3>2
    <2>6. NameInv(n) /\ Shape
      BY <1>1 DEF FInv, UpInv
    <2>7. spoilt \subseteq spoilt'
      BY <2>3
    <2> QED
      BY <1>1, <2>1, <2>2, <2>4, <2>5, <2>6, <2>7, FilesLeft
  <1> QED
    BY <1>1, <1>2 DEF FInv, UpInv, DownInv

\* An orderly shutdown happens between statements.
LEMMA ShutdownNames ==
  ASSUME FInv, Shutdown
  PROVE  FInv'
  <1>1. Shape' /\ mode = "up" /\ mode' = "down" /\ UNCHANGED <<meta, data, indexFiles>>
    BY EndShape DEF FInv, Shutdown
  <1>2. ASSUME NEW n \in Names \ cut' PROVE Disk(n)'
    <2>1. n \notin cut /\ spoilt' = spoilt /\ \A u \in Threads : job[u] = Idle
      BY <1>2 DEF Shutdown
    <2>2. \A u \in Threads : ~Maker(u, n) /\ ~Doing(u, "drop", n, {"meta"}) /\ ~Fells(u, n) /\ ~Builder(u, n) /\ ~Rewriter(u, n)
      BY <2>1 DEF Maker, Fells, Builder, Rewriter, Doing
    <2>3. NameInv(n) /\ Shape
      BY <1>1 DEF FInv, UpInv
    <2> QED
      BY <1>1, <2>1, <2>2, <2>3, FilesLeft
  <1> QED
    BY <1>1, <1>2 DEF FInv, UpInv, DownInv

\* A step of a statement: its own name by the lemma of the step, every other
\* name because the step does not reach it.
LEMMA StepOwnName ==
  ASSUME Shape, Serials, NEW t \in Threads, NEW n \in Names, n = job[t].n, NameInv(n),
         StoreId(t) \/ CreateStep(t) \/ DropStep(t) \/ IndexStep(t) \/ InsertStep(t)
  PROVE  NameInv(n)'
  <1>1. CASE StoreId(t) \/ (CreateStep(t) /\ ~Publish(t))
    <2>1. FilesPart(n) /\ IndexPart(n) /\ Complete(n)
      BY NameParts
    <2>2. job[t] /= Idle /\ job[t].op = "create"
      BY <1>1, CreateApart
    <2>3. OthersStay(t)
      <3>1. Return(t) \/ (\E s \in Steps : Goto(t, s))
        BY <1>1 DEF StoreId, CreateStep, CreateMeta, SerializeMeta, CreateFile, WriteHeader, Steps
      <3>2. Ends(t) \/ \E s, l : MovesTo(t, s, l)
        BY <2>2, <3>1, JobSteps DEF Shape
      <3> QED
        BY <2>2, <3>2, Others
    <2>4. SameIndexes(n) /\ SameRows(n)
      BY <1>1, <2>2, <2>3, CreateIndexes
    <2>5. FilesPart(n)' /\ IndexPart(n)' /\ Complete(n)'
      BY <1>1, <2>1, <2>4, CreateFiles, IndexFrame, RowsFrame
    <2> QED
      BY <2>5 DEF NameInv, FilesPart, IndexPart
  <1>2. CASE Publish(t)
    BY <1>2, PublishKeeps
  <1>3. CASE DropStep(t)
    BY <1>3, DropCloseKeeps, DropDataKeeps, DropMetaKeeps, DropIndexKeeps, DropEraseKeeps DEF DropStep
  <1>4. CASE IndexStep(t)
    BY <1>4, CreateIndexFileKeeps, BuildIndexKeeps, PushIndexKeeps, OpenTmpKeeps, WriteTmpKeeps, RenameTmpKeeps
       DEF IndexStep
  <1>5. CASE InsertStep(t)
    BY <1>5, InsertStepKeeps
  <1> QED
    BY <1>1, <1>2, <1>3, <1>4, <1>5

\* FInv is kept when nothing that it speaks of changes.
LEMMA StillNames ==
  ASSUME FInv, mode' = mode \/ mode' = "wild",
         UNCHANGED <<meta, tmp, data, indexFiles, opened_tables, buffer_pools, rows, entries, job, cut, spoilt, missed>>
  PROVE  FInv'
  <1>1. Shape'
    BY SMTT(60) DEF FInv, Shape, JobsOK, FilesOK, TablesOK
  <1>2. ASSUME NEW n \in Names PROVE (NameInv(n)' <=> NameInv(n)) /\ (Disk(n)' <=> Disk(n))
    BY CoversStill DEF NameInv, Disk, Control, Lists, Owned, Complete, Content, OneRewriter, Owners, Pending, Standing, Indexed,
         Held, Tracked, MetaOf, NewMeta, Maker, Dropper, Fells, Builder, Rewriter, Doing, Alive, IsOpen
  <1> QED
    BY <1>1, <1>2 DEF FInv, UpInv, DownInv

\* A statement goes on.
LEMMA StepNames ==
  ASSUME FInv, IInv, NEW t \in Threads, Step(t)
  PROVE  FInv'
  <1>1. Shape /\ Serials
    BY DEF FInv, IInv
  <1>2. CASE StoreId(t) \/ CreateStep(t) \/ DropStep(t) \/ IndexStep(t) \/ InsertStep(t)
    <2>1. mode = "up" /\ job[t] /= Idle
      BY <1>2 DEF StoreId, CreateStep, CreateMeta, SerializeMeta, CreateFile, WriteHeader, Publish,
           DropStep, DropClose, DropData, DropMeta, DropIndex, DropErase, IndexStep, CreateIndexFile, BuildIndex,
           PushIndex, OpenTmp, WriteTmp, RenameTmp, InsertStep, InsertRecord, Commit, Building, At
    <2>2. \A n \in Names : NameInv(n) /\ Control(n)
      BY <2>1 DEF FInv, UpInv, NameInv
    <2>3. job[t].n \in Names
      BY <1>1, <2>1, JobOf DEF Shape
    <2>4. Apart(t) /\ mode' = "up"
      BY <1>1, <1>2, <2>2, <2>3, CreateApart, DropApart, IndexApart, InsertApart
    <2>5. Shape'
      BY <1>1, <1>2, <2>2, StepShape
    <2>6. ASSUME NEW n \in Names PROVE NameInv(n)'
      <3>1. CASE n = job[t].n
        BY <1>1, <1>2, <2>2, <3>1, StepOwnName
      <3>2. CASE n /= job[t].n
        BY <2>1, <2>2, <2>4, <3>2, ElsewhereKept
      <3> QED
        BY <3>1, <3>2
    <2> QED
      BY <2>4, <2>5, <2>6, SMTT(60) DEF FInv, UpInv, DownInv
  <1>3. CASE DropErase(t) /\ ~Alive(t)
    BY <1>3, StillNames DEF DropErase, disk, history
  <1>4. CASE PushIndex(t) /\ mode' = "wild"
    <2>1. mode = "up"
      BY <1>4 DEF PushIndex, Building, At
    <2>2. UNCHANGED <<meta, tmp, data, indexFiles, opened_tables, buffer_pools, rows, entries, job, cut, spoilt, missed>>
      BY <1>4, <2>1 DEF PushIndex, disk
    <2> QED
      BY <1>4, <2>2, StillNames
  <1>5. CASE UseAfterDelete(t, TRUE) \/ UseAfterDelete(t, FALSE)
    BY <1>5, StillNames DEF UseAfterDelete, disk, tables, history
  <1> QED
    BY <1>2, <1>3, <1>4, <1>5 DEF Step, CreateStep, DropStep, IndexStep, InsertStep

\* Db::init opens what the files say: each table with a meta file, its data
\* file and its indexes.
LEMMA StartNames ==
  ASSUME FInv, IInv, Start
  PROVE  FInv'
  <1>1. mode = "down" /\ UNCHANGED <<meta, tmp, data, indexFiles, job, cut, spoilt>>
    BY DEF Start, disk
  <1>2. \A u \in Threads : job'[u] = Idle
    BY <1>1 DEF IInv, TypeOK
  <1>3. Shape /\ \A n \in Names \ cut : Disk(n)
    BY <1>1 DEF FInv, DownInv
  <1>4. JobsOK' /\ FilesOK'
    BY <1>1, <1>3 DEF Shape, JobsOK, FilesOK
  <1>5. CASE ~CanOpen
    <2>1. mode' = "failed" /\ UNCHANGED <<opened_tables, rows, entries>>
      BY <1>5 DEF Start, tables
    <2>2. TablesOK'
      BY <1>3, <2>1 DEF Shape, TablesOK
    <2> QED
      BY <1>4, <2>1, <2>2 DEF FInv, UpInv, DownInv, Shape
  <1>6. CASE CanOpen
    <2> DEFINE ids == {meta[n].id : n \in MetaFiles}
    <2>1. PICK home \in FoundBy(ids) :
            \/ /\ mode' = "up"
               /\ rows' = [n \in Names |-> Redone(home, n)]
               /\ entries' = [x \in Indexes |->
                     saved[x] \cup IF x[1] \in MetaFiles /\ x[2] \in meta[x[1]].indexes
                                   THEN Keyed(Redone(home, x[1]), x[2]) ELSE {}]
            \/ mode' = "failed" /\ UNCHANGED <<rows, entries>>
      BY <1>6 DEF Start
    <2>2. opened_tables' = [n \in Names |->
             IF n \in MetaFiles
             THEN [id |-> meta[n].id, ser |-> meta[n].ser,
                   indexes |-> meta[n].indexes, listed |-> meta[n].indexes]
             ELSE NoTable]
      BY <1>6 DEF Start
    <2>3. buffer_pools' = {DataFile(n) : n \in MetaFiles}
             \cup {x \in Indexes : x[1] \in MetaFiles /\ x[2] \in meta[x[1]].indexes}
      BY <1>6 DEF Start
    <2> HIDE DEF ids
    <2>4. ASSUME NEW n \in MetaFiles
          PROVE  n \in Names /\ meta[n] \in MetaData /\ data[n] = "ok" /\ \A i \in meta[n].indexes : <<n, i>> \in indexFiles
      BY <1>3, <1>6 DEF CanOpen, Deserializes, OpensFile, OpensIndex, MetaFiles, Shape, FilesOK
    <2>5. ASSUME NEW n \in MetaFiles
          PROVE  /\ opened_tables'[n] \in Table
                 /\ opened_tables'[n].id = meta[n].id /\ opened_tables'[n].ser = meta[n].ser
                 /\ opened_tables'[n].indexes = meta[n].indexes /\ opened_tables'[n].listed = meta[n].indexes
      <3>1. meta[n].id \in Nat /\ meta[n].ser \in Nat /\ meta[n].indexes \in SUBSET IndexNames
        BY <2>4 DEF MetaData
      <3>2. opened_tables'[n] = [id |-> meta[n].id, ser |-> meta[n].ser,
                                 indexes |-> meta[n].indexes, listed |-> meta[n].indexes]
        BY <2>2, <2>4
      <3> QED
        BY <3>1, <3>2 DEF Table
    <2>6. \A n \in Names : IsOpen(n)' <=> n \in MetaFiles
      BY <2>2, <2>5, ValuesAssumption DEF IsOpen
    <2>7. TablesOK'
      <3>1. opened_tables' \in [Names -> Table \cup {NoTable}]
        <4>1. \A n \in Names : opened_tables'[n] \in Table \cup {NoTable}
          BY <2>2, <2>5
        <4>2. opened_tables' = [n \in Names |-> opened_tables'[n]]
          BY <2>2
        <4> QED
          BY <4>1, <4>2
      <3>2. DOMAIN rows' = Names /\ DOMAIN entries' = Indexes
        BY <1>3, <2>1 DEF Shape, TablesOK
      <3> QED
        BY <3>1, <3>2 DEF TablesOK
    <2>8. ASSUME mode' = "up", NEW n \in Names PROVE NameInv(n)'
      <3>1. \A u \in Threads : ~Maker(u, n)' /\ ~Dropper(u, n)' /\ ~Fells(u, n)' /\ ~Builder(u, n)' /\ ~Rewriter(u, n)'
                               /\ ~Doing(u, "drop", n, {"data", "meta"})' /\ ~Doing(u, "drop", n, {"meta"})'
        BY <1>2 DEF Maker, Dropper, Fells, Builder, Rewriter, Doing
      <3>2. (Standing(n)' <=> n \in MetaFiles) /\ (Indexed(n)' <=> n \in MetaFiles)
        BY <2>6, <3>1 DEF Standing, Indexed
      <3>3. DataFile(n) \in buffer_pools' <=> n \in MetaFiles
        <4>1. DataFile(n)[1] = n
          BY DEF DataFile
        <4>2. \A m \in Names : DataFile(m) = DataFile(n) => m = n
          BY DEF DataFile
        <4> QED
          BY <2>3, <2>4, <4>1, <4>2
      <3>4. (Held(n)' <=> n \in MetaFiles) /\ (n \in MetaFiles <=> meta'[n] /= NoFile)
        BY <1>1, <3>1, <3>3 DEF Held, MetaFiles, DataFile
      <3>5. Control(n)'
        BY <2>6, <3>1, <3>3, <3>4 DEF Control, DataFile
      <3>6. Lists(n)'
        BY <2>5, <2>6, <3>1 DEF Lists
      <3>7. Owned(n)'
        <4>1. ASSUME n \in MetaFiles, NEW i \in IndexNames, i \in meta[n].indexes
              PROVE  <<n, i>> \in indexFiles /\ <<n, i>> \in buffer_pools'
          <5>1. <<n, i>> \in {x \in Indexes : x[1] \in MetaFiles /\ x[2] \in meta[x[1]].indexes}
            BY <4>1 DEF Indexes
          <5> QED
            BY <2>3, <2>4, <4>1, <5>1
        <4> QED
          BY <1>1, <2>5, <3>1, <3>2, <4>1 DEF Owned
      <3>8. Complete(n)'
        <4> SUFFICES ASSUME n \in MetaFiles, NEW i \in IndexNames, i \in meta[n].indexes
                     PROVE  Covers(n, i)'
          BY <2>5, <3>2 DEF Complete
        <4>1. rows'[n] = Redone(home, n)
          BY <2>1, <2>8
        <4>2. entries'[<<n, i>>] = saved[<<n, i>>] \cup Keyed(Redone(home, n), i)
          <5> DEFINE x == <<n, i>>
          <5>1. x \in Indexes /\ x[1] = n /\ x[2] = i
            BY DEF Indexes
          <5>2. entries'[x] = saved[x] \cup IF x[1] \in MetaFiles /\ x[2] \in meta[x[1]].indexes
                                            THEN Keyed(Redone(home, x[1]), x[2]) ELSE {}
            BY <2>1, <2>8, <5>1
          <5> QED
            BY <5>1, <5>2
        <4> QED
          BY <4>1, <4>2 DEF Covers, Keyed
      <3>9. ASSUME n \notin cut' PROVE Content(n)' /\ OneRewriter(n)' /\ Owners(n)' /\ Pending(n)'
        <4>1. Disk(n)
          BY <1>1, <1>3, <3>9
        <4>2. n \in MetaFiles => MetaOf(n)' = meta[n] /\ meta'[n] = meta[n] /\ data'[n] = "ok"
          <5> SUFFICES ASSUME n \in MetaFiles PROVE MetaOf(n)' = meta[n] /\ meta'[n] = meta[n] /\ data'[n] = "ok"
            OBVIOUS
          <5>1. meta[n] = [id |-> meta[n].id, ser |-> meta[n].ser, indexes |-> meta[n].indexes]
            BY <2>4 DEF MetaData
          <5>2. MetaOf(n)' = [id |-> meta[n].id, ser |-> meta[n].ser, indexes |-> meta[n].indexes]
            BY <2>5 DEF MetaOf
          <5> QED
            BY <1>1, <2>4, <5>1, <5>2
        <4>3. n \notin MetaFiles => meta'[n] = NoFile /\ data'[n] = "none"
          BY <1>1, <4>1 DEF Disk, MetaFiles
        <4>4. Content(n)'
          BY <3>1, <3>2, <3>4, <4>2, <4>3 DEF Content
        <4>5. OneRewriter(n)'
          BY <3>1 DEF OneRewriter
        <4>6. Owners(n)' /\ Pending(n)'
          BY <1>1, <2>5, <3>2, <4>1 DEF Owners, Pending, Disk, MetaFiles
        <4> QED
          BY <4>4, <4>5, <4>6
      <3> QED
        BY <3>5, <3>6, <3>7, <3>8, <3>9 DEF NameInv
    <2>9. mode' /= "down"
      BY <2>1
    <2> QED
      BY <1>4, <2>7, <2>8, <2>9 DEF FInv, UpInv, DownInv, Shape
  <1> QED
    BY <1>5, <1>6

-----------------------------------------------------------------------------
(* The files and the opened tables.                                        *)

\* The files and the opened tables of every name, in every state.
THEOREM FilesInvariance == Spec => []FInv
  <1>1. Init => FInv
    <2> SUFFICES ASSUME Init PROVE FInv
      OBVIOUS
    <2>1. JobsOK /\ FilesOK /\ TablesOK
      BY DEF Init, JobsOK, FilesOK, TablesOK
    <2>2. mode = "down" /\ \A n \in Names : Disk(n)
      BY DEF Init, Disk
    <2> QED
      BY <2>1, <2>2 DEF FInv, Shape, UpInv, DownInv
  <1>2. IInv /\ FInv /\ [Next]_vars => FInv'
    <2> SUFFICES ASSUME IInv, FInv, [Next]_vars PROVE FInv'
      OBVIOUS
    <2>1. ASSUME NEW t \in Threads, Statement(t) PROVE FInv'
      BY <2>1, StatementNames DEF FInv, UpInv, DownInv, IInv
    <2>2. ASSUME NEW t \in Threads, Step(t) PROVE FInv'
      BY <2>2, StepNames
    <2>3. CASE Crash
      BY <2>3, CrashNames
    <2>4. CASE Shutdown
      BY <2>4, ShutdownNames
    <2>5. CASE Start
      BY <2>5, StartNames
    <2>6. CASE UNCHANGED vars
      BY <2>6, StillNames DEF vars, disk, tables, history
    <2> QED
      BY <2>1, <2>2, <2>3, <2>4, <2>5, <2>6 DEF Next
  <1> QED
    BY <1>1, <1>2, Invariance, PTL DEF Spec

\* Every index a query may use has an entry for every record of its table with
\* no NULL in the index's fields, for any number of threads, tables, indexes,
\* statements, failures and restarts, unless CREATE INDEX did not see the record
\* and there was no restart since, or the index was cut short.
THEOREM IndexesComplete == Spec => []IndexComplete
  <1>1. FInv => IndexComplete
    <2> SUFFICES ASSUME FInv, mode = "up", NEW n \in Names, IsOpen(n), Running("drop", n, {"indexes"}) = {},
                        NEW i \in opened_tables[n].listed, <<n, i>> \notin spoilt
                 PROVE  Covers(n, i)
      BY DEF IndexComplete, IsOpen, Covers
    <2>1. Lists(n) /\ Complete(n)
      BY DEF FInv, UpInv, NameInv
    <2>2. Indexed(n)
      BY DEF Indexed, Fells, Doing, Running
    <2>3. i \in opened_tables[n].indexes /\ i \in IndexNames
      <3>1. opened_tables[n] \in Table
        BY DEF FInv, Shape, TablesOK, IsOpen
      <3> QED
        BY <2>1, <3>1 DEF Lists, Table
    <2> QED
      BY <2>1, <2>2, <2>3 DEF Complete
  <1> QED
    BY <1>1, FilesInvariance, PTL

\* While no statement works on a name, the opened table agrees with the meta
\* file, the data file, the index files and the buffer pools of that name: no
\* interleaving of CREATE TABLE, DROP TABLE, CREATE INDEX and INSERT, and no
\* crash, leaves a file without its table or a table without its file, unless a
\* statement was cut short there.
THEOREM CatalogueAgrees == Spec => []CatalogueMatchesFiles
  <1>1. FInv => CatalogueMatchesFiles
    <2> SUFFICES ASSUME FInv, mode = "up", NEW n \in Names, n \notin cut,
                        \A t \in Threads : job[t] = Idle \/ job[t].n /= n
                 PROVE  /\ IF opened_tables[n] = NoTable THEN meta[n] = NoFile /\ data[n] = "none"
                           ELSE /\ meta[n] = MetaOf(n)
                                /\ data[n] = "ok" /\ DataFile(n) \in buffer_pools
                        /\ \A i \in IndexNames : <<n, i>> \notin spoilt =>
                             /\ (opened_tables[n] /= NoTable /\ i \in opened_tables[n].indexes) <=> <<n, i>> \in indexFiles
                             /\ (opened_tables[n] /= NoTable /\ i \in opened_tables[n].indexes) =>
                                   i \in opened_tables[n].listed /\ <<n, i>> \in buffer_pools
      BY DEF CatalogueMatchesFiles, MetaOf
    <2>1. Content(n) /\ Owned(n) /\ Owners(n) /\ Pending(n)
      BY DEF FInv, UpInv, NameInv
    <2>2. \A u \in Threads : /\ ~Maker(u, n) /\ ~Fells(u, n) /\ ~Builder(u, n) /\ ~Rewriter(u, n)
                             /\ ~Doing(u, "drop", n, {"data", "meta"}) /\ ~Doing(u, "drop", n, {"meta"})
      BY DEF Maker, Fells, Builder, Rewriter, Doing
    <2>3. (Standing(n) <=> opened_tables[n] /= NoTable) /\ (Indexed(n) <=> opened_tables[n] /= NoTable)
      BY <2>2 DEF Standing, Indexed, IsOpen
    <2>4. IF opened_tables[n] = NoTable THEN meta[n] = NoFile /\ data[n] = "none"
          ELSE meta[n] = MetaOf(n) /\ data[n] = "ok" /\ DataFile(n) \in buffer_pools
      BY <2>1, <2>2, <2>3 DEF Content, Held
    <2>5. ASSUME NEW i \in IndexNames, <<n, i>> \notin spoilt
          PROVE  /\ (opened_tables[n] /= NoTable /\ i \in opened_tables[n].indexes) <=> <<n, i>> \in indexFiles
                 /\ (opened_tables[n] /= NoTable /\ i \in opened_tables[n].indexes) =>
                      i \in opened_tables[n].listed /\ <<n, i>> \in buffer_pools
      BY <2>1, <2>2, <2>3, <2>5 DEF Owned, Tracked, Owners, Pending
    <2> QED
      BY <2>4, <2>5
  <1> QED
    BY <1>1, FilesInvariance, PTL

-----------------------------------------------------------------------------
(* A table has one id.                                                     *)

\* A serial number has one id, in the tables, the meta files, the CREATE TABLEs
\* under way and the log; one that CREATE TABLE has not drawn an id for is new.
SerIds ==
  /\ \A e \in log : e.ser < statements
  /\ \A c, d \in Drawn : c[2] = d[2] => c[1] = d[1]
  /\ \A c \in Drawn, e \in log : c[2] = e.ser => c[1] = e.id
  /\ \A t \in Threads : Drawing(t) => /\ \A c \in Drawn : c[2] /= job[t].ser
                                      /\ \A e \in log : e.ser /= job[t].ser

\* Steps that bring no serial number into use keep SerIds.
LEMMA SerialsKept ==
  ASSUME IInv, SerIds, Drawn' \subseteq Drawn, statements' = statements,
         \A u \in Threads : Drawing(u)' => Drawing(u) /\ job'[u].ser = job[u].ser,
         \A e \in log' : \/ \E f \in log : e.id = f.id /\ e.ser = f.ser
                         \/ \E n \in Names : <<e.id, e.ser, n>> \in Drawn
  PROVE  SerIds'
  <1>1. \A c \in Drawn : c[2] < statements
    BY DEF IInv, Given
  <1>2. ASSUME NEW e \in log'
        PROVE  /\ e.ser < statements
               /\ \A c \in Drawn : c[2] = e.ser => c[1] = e.id
               /\ \A t \in Threads : Drawing(t) => e.ser /= job[t].ser
    <2>1. CASE \E f \in log : e.id = f.id /\ e.ser = f.ser
      BY <2>1 DEF SerIds
    <2>2. ASSUME NEW n \in Names, <<e.id, e.ser, n>> \in Drawn
          PROVE  /\ e.ser < statements
                 /\ \A c \in Drawn : c[2] = e.ser => c[1] = e.id
                 /\ \A t \in Threads : Drawing(t) => e.ser /= job[t].ser
      <3> DEFINE d == <<e.id, e.ser, n>>
      <3>1. d \in Drawn /\ d[1] = e.id /\ d[2] = e.ser
        BY <2>2
      <3> HIDE DEF d
      <3> QED
        BY <1>1, <3>1 DEF SerIds
    <2> QED
      BY <2>1, <2>2
  <1>3. \A c, d \in Drawn' : c[2] = d[2] => c[1] = d[1]
    BY DEF SerIds
  <1>4. \A t \in Threads : Drawing(t)' => /\ \A c \in Drawn' : c[2] /= job'[t].ser
                                          /\ \A e \in log' : e.ser /= job'[t].ser
    BY <1>2 DEF SerIds
  <1> QED
    BY <1>2, <1>3, <1>4 DEF SerIds

\* A statement that begins: CREATE TABLE takes a serial number above all others.
LEMMA BeginSerials ==
  ASSUME IInv, SerIds, NEW t \in Threads, NEW op, NEW step, NEW n \in Names, NEW ser \in Nat,
         Begun(t, op, step, n, ser), op = "create" => step = "store_id" /\ ser = statements
  PROVE  SerIds'
  <1>1. /\ job[t] = Idle /\ statements' = statements + 1 /\ statements \in Nat
        /\ \A u \in Threads \ {t} : job'[u] = job[u]
        /\ job'[t].op = op /\ job'[t].step = step /\ job'[t].ser = ser
        /\ UNCHANGED <<meta, log, opened_tables>>
    BY DEF Begun, IInv, TypeOK
  <1>2. Drawn' = Drawn
    <2>1. \A u \in Threads : (Drew(u)' <=> Drew(u)) /\ (Drew(u) => job'[u] = job[u])
      BY <1>1 DEF Drew, Creates
    <2>2. \A m \in Names : (IsOpen(m)' <=> IsOpen(m)) /\ (HasMeta(m)' <=> HasMeta(m))
      BY <1>1 DEF IsOpen, HasMeta
    <2> QED
      BY <1>1, <2>1, <2>2 DEF Drawn
  <1>3. /\ \A c \in Drawn : c[2] \in Nat /\ c[2] < statements
        /\ \A e \in log : e.ser \in Nat /\ e.ser < statements
    BY DEF IInv, Given, SerIds, TypeOK, LogT
  <1>4. \A e \in log' : e.ser < statements'
    BY <1>1, <1>3
  <1>5. ASSUME NEW u \in Threads, Drawing(u)'
        PROVE  /\ \A c \in Drawn' : c[2] /= job'[u].ser
               /\ \A e \in log' : e.ser /= job'[u].ser
    <2>1. CASE u = t
      <3>1. job'[u].ser = statements
        BY <1>1, <1>5, <2>1 DEF Drawing, Creates
      <3> QED
        BY <1>1, <1>2, <1>3, <3>1
    <2>2. CASE u /= t
      <3>1. Drawing(u) /\ job'[u] = job[u]
        BY <1>1, <1>5, <2>2 DEF Drawing, Creates
      <3> QED
        BY <1>1, <1>2, <3>1 DEF SerIds
    <2> QED
      BY <2>1, <2>2
  <1> QED
    BY <1>1, <1>2, <1>4, <1>5 DEF SerIds

\* The step that brings a serial number and its id into use.
LEMMA StoreIdSerials ==
  ASSUME IInv, SerIds, NEW t \in Threads, StoreId(t)
  PROVE  SerIds'
  <1> DEFINE c == <<job[t].id, job[t].ser, job[t].n>>
  <1>1. /\ Creates(t) /\ Drawing(t) /\ job[t] /= Idle /\ Goto(t, "meta")
        /\ UNCHANGED <<meta, log, opened_tables, statements>>
    BY DEF StoreId, At, Same, disk, Creates, Drawing
  <1>2. /\ \A u \in Threads \ {t} : job'[u] = job[u]
        /\ job'[t] /= Idle => SameJob(job[t], job'[t])
        /\ job'[t].step = "meta"
    BY <1>1, ThreadMoves DEF IInv, JobMoves
  <1>3. \A d \in Drawn' : d \in Drawn \/ d = c
    <2> SUFFICES ASSUME NEW d \in Drawn' PROVE d \in Drawn \/ d = c
      OBVIOUS
    <2>1. CASE \E n \in Names : IsOpen(n)' /\ d = <<opened_tables'[n].id, opened_tables'[n].ser, n>>
      BY <1>1, <2>1, InDrawn DEF IsOpen
    <2>2. CASE \E n \in Names : HasMeta(n)' /\ d = <<meta'[n].id, meta'[n].ser, n>>
      BY <1>1, <2>2, InDrawn DEF HasMeta
    <2>3. ASSUME NEW u \in Threads, Drew(u)', d = <<job'[u].id, job'[u].ser, job'[u].n>> PROVE d \in Drawn \/ d = c
      <3>1. CASE u = t
        BY <1>2, <2>3, <3>1 DEF Drew, Creates, SameJob
      <3>2. CASE u /= t
        <4>1. job'[u] = job[u] /\ Drew(u)
          BY <1>2, <2>3, <3>2 DEF Drew, Creates
        <4> QED
          BY <2>3, <4>1, InDrawn
      <3> QED
        BY <3>1, <3>2
    <2> QED
      BY <2>1, <2>2, <2>3 DEF Drawn
  <1>4. c[1] = job[t].id /\ c[2] = job[t].ser
    OBVIOUS
  <1> HIDE DEF c
  <1>5. (\A d \in Drawn : d[2] /= c[2]) /\ \A e \in log : e.ser /= c[2]
    BY <1>1, <1>4 DEF SerIds
  <1>6. ASSUME NEW u \in Threads, Drawing(u)'
        PROVE  Drawing(u) /\ job'[u].ser = job[u].ser /\ job[u].ser /= c[2]
    <2>1. u /= t
      BY <1>2, <1>6 DEF Drawing
    <2>2. job'[u] = job[u] /\ Drawing(u)
      BY <1>2, <1>6, <2>1 DEF Drawing, Creates
    <2>3. job[u].ser /= job[t].ser
      BY <1>1, <2>1, <2>2 DEF IInv, Serials, Drawing, Creates
    <2> QED
      BY <1>4, <2>2, <2>3
  <1> QED
    BY <1>1, <1>3, <1>5, <1>6 DEF SerIds

\* What Db::init reads brings nothing new.
LEMMA StartSerials ==
  ASSUME IInv, SerIds, Start
  PROVE  SerIds'
  <1>1. mode = "down" /\ UNCHANGED <<meta, log, job, statements>>
    BY DEF Start, disk
  <1>2. \A u \in Threads : ~Drawing(u)' /\ ~Drew(u)'
    BY <1>1 DEF IInv, TypeOK, Drawing, Drew, Creates
  <1>3. \A n \in Names : IsOpen(n)' =>
          <<opened_tables'[n].id, opened_tables'[n].ser, n>> \in Drawn
    <2>1. CASE CanOpen
      <3>1. opened_tables' = [n \in Names |->
               IF n \in MetaFiles
               THEN [id |-> meta[n].id, ser |-> meta[n].ser,
                     indexes |-> meta[n].indexes, listed |-> meta[n].indexes]
               ELSE NoTable]
        BY <2>1 DEF Start
      <3>2. \A n \in MetaFiles : n \in Names /\ HasMeta(n)
        BY <2>1 DEF CanOpen, Deserializes, MetaFiles, HasMeta
      <3>3. \A n \in Names : IsOpen(n)' => /\ n \in MetaFiles
                                           /\ opened_tables'[n].id = meta[n].id /\ opened_tables'[n].ser = meta[n].ser
        BY <3>1 DEF IsOpen
      <3> QED
        BY <3>2, <3>3, InDrawn
    <2>2. CASE ~CanOpen
      BY <2>2, InDrawn DEF Start, tables, IsOpen
    <2> QED
      BY <2>1, <2>2
  <1>4. Drawn' \subseteq Drawn
    <2> SUFFICES ASSUME NEW c \in Drawn' PROVE c \in Drawn
      OBVIOUS
    <2>1. CASE \E n \in Names : IsOpen(n)' /\ c = <<opened_tables'[n].id, opened_tables'[n].ser, n>>
      BY <1>3, <2>1
    <2>2. CASE \E n \in Names : HasMeta(n)' /\ c = <<meta'[n].id, meta'[n].ser, n>>
      BY <1>1, <2>2, InDrawn DEF HasMeta
    <2> QED
      BY <1>2, <2>1, <2>2 DEF Drawn
  <1> QED
    BY <1>1, <1>2, <1>4, SerialsKept

\* The files outlive the process.
LEMMA EndSerials ==
  ASSUME IInv, SerIds, Ended, log' \subseteq log
  PROVE  SerIds'
  <1>1. \A n \in Names : ~IsOpen(n)' /\ (HasMeta(n)' <=> HasMeta(n)) /\ meta' = meta
    BY DEF Ended, IsOpen, HasMeta
  <1>2. \A t \in Threads : ~Drew(t)' /\ ~Drawing(t)'
    BY DEF Ended, Drew, Drawing, Creates
  <1>3. Drawn' \subseteq Drawn
    <2> SUFFICES ASSUME NEW c \in Drawn' PROVE c \in Drawn
      OBVIOUS
    <2>1. PICK n \in Names : HasMeta(n)' /\ c = <<meta'[n].id, meta'[n].ser, n>>
      BY <1>1, <1>2 DEF Drawn
    <2> QED
      BY <1>1, <2>1, InDrawn
  <1> QED
    BY <1>2, <1>3, SerialsKept DEF Ended

\* Nothing that SerIds speaks of changes.
LEMMA StillSerials ==
  ASSUME IInv, SerIds, UNCHANGED <<meta, log, opened_tables, job, statements>>
  PROVE  SerIds'
  BY DEF SerIds, Drawn, IsOpen, HasMeta, Drew, Drawing, Creates

\* CREATE TABLE, DROP TABLE, CREATE INDEX and INSERT begin.
LEMMA StatementSerials ==
  ASSUME IInv, SerIds, NEW t \in Threads, Statement(t)
  PROVE  SerIds'
  <1>1. TypeOK /\ statements \in Nat /\ \A n \in Names : opened_tables[n] /= NoTable => opened_tables[n].ser \in Nat
    BY DEF IInv, TypeOK, IsTable
  <1>2. ASSUME NEW n \in Names, CreateTable(t, n) PROVE SerIds'
    <2>1. Begun(t, "create", "store_id", n, statements)
      BY <1>1, <1>2, BeginJob DEF CreateTable
    <2> QED
      BY <1>1, <2>1, BeginSerials
  <1>3. ASSUME NEW n \in Names, NEW op, NEW step, NEW i, opened_tables[n] /= NoTable, op /= "create",
               Begin(t, op, step, n, i, opened_tables[n].ser)
        PROVE  SerIds'
    <2>1. Begun(t, op, step, n, opened_tables[n].ser)
      BY <1>1, <1>3, BeginJob
    <2> QED
      BY <1>1, <1>3, <2>1, BeginSerials
  <1>4. ASSUME NEW n \in Names, DropTable(t, n) \/ Insert(t, n) PROVE SerIds'
    BY <1>3, <1>4 DEF DropTable, Insert
  <1>5. ASSUME NEW n \in Names, NEW i \in IndexNames, CreateIndex(t, n, i) PROVE SerIds'
    BY <1>3, <1>5 DEF CreateIndex
  <1> QED
    BY <1>2, <1>4, <1>5 DEF Statement

\* A statement goes on.
LEMMA StepSerials ==
  ASSUME IInv, SerIds, NEW t \in Threads, Step(t)
  PROVE  SerIds'
  <1>1. TypeOK /\ TmpMatches
    BY DEF IInv
  <1>2. CASE StoreId(t)
    BY <1>2, StoreIdSerials
  <1>3. CASE CreateStep(t) \/ DropStep(t) \/ IndexStep(t) \/ InsertStep(t)
    <2>1. Moves(t)
      BY <1>1, <1>3, CreateMoves, DropMoves, IndexMoves, InsertMoves
    <2>2. /\ Drawn' \subseteq Drawn
          /\ \A u \in Threads : Drawing(u)' => Drawing(u) /\ job'[u].ser = job[u].ser
      <3>1. \A u \in Threads : Drawing(u)' => Creates(u)'
        BY DEF Drawing
      <3> QED
        BY <1>1, <2>1, <3>1, MoveDraws
    <2> QED
      BY <2>1, <2>2, SerialsKept DEF Moves, GoesOn, LogKept
  <1>4. CASE DropErase(t) /\ ~Alive(t)
    BY <1>4, StillSerials DEF DropErase, disk
  <1>5. CASE PushIndex(t) /\ mode' = "wild"
    <2>1. mode = "up"
      BY <1>5 DEF PushIndex, Building, At
    <2>2. UNCHANGED <<meta, log, opened_tables, job, statements>>
      BY <1>5, <2>1 DEF PushIndex, disk
    <2> QED
      BY <2>2, StillSerials
  <1>6. CASE UseAfterDelete(t, TRUE) \/ UseAfterDelete(t, FALSE)
    BY <1>6, StillSerials DEF UseAfterDelete, disk, tables
  <1> QED
    BY <1>2, <1>3, <1>4, <1>5, <1>6 DEF Step, CreateStep, DropStep, IndexStep, InsertStep

\* Whatever is written down of a table agrees on its id.
THEOREM SerialsInvariance == Spec => []SerIds
  <1>1. Init => SerIds
    <2> SUFFICES ASSUME Init PROVE SerIds
      OBVIOUS
    <2>1. Drawn = {} /\ log = {} /\ \A t \in Threads : ~Drawing(t)
      BY DEF Init, Drawn, IsOpen, HasMeta, Drew, Drawing, Creates
    <2> QED
      BY <2>1 DEF SerIds
  <1>2. IInv /\ SerIds /\ [Next]_vars => SerIds'
    <2> SUFFICES ASSUME IInv, SerIds, [Next]_vars PROVE SerIds'
      OBVIOUS
    <2>1. ASSUME NEW t \in Threads, Statement(t) \/ Step(t) PROVE SerIds'
      BY <2>1, StatementSerials, StepSerials
    <2>2. CASE Crash \/ Shutdown
      <3>1. Ended /\ log' \subseteq log
        BY <2>2 DEF Crash, Shutdown
      <3> QED
        BY <3>1, EndSerials
    <2>3. CASE Start
      BY <2>3, StartSerials
    <2>4. CASE UNCHANGED vars
      BY <2>4, StillSerials DEF vars, disk, tables
    <2> QED
      BY <2>1, <2>2, <2>3, <2>4 DEF Next
  <1> QED
    BY <1>1, <1>2, Invariance, PTL DEF Spec

-----------------------------------------------------------------------------
(* Db::init.                                                               *)

\* Db::init on files that no statement was cut short on, with a log that recover()
\* can read and all of whose tables are there, and without saved index entries,
\* opens the tables and replays the log.
LEMMA StartSucceeds ==
  ASSUME FInv, SerIds, Start, cut = {},
         \A e \in log : \E n \in MetaFiles : meta[n] /= Empty /\ meta[n].ser = e.ser,
         \A x \in Indexes : saved[x] = {}, ~refusable
  PROVE  mode' = "up"
  <1>1. mode = "down"
    BY DEF Start
  <1>2. Shape /\ \A n \in Names : Disk(n)
    BY <1>1 DEF FInv, DownInv
  <1>3. CanOpen
    BY <1>2 DEF CanOpen, MetaFiles, Deserializes, OpensFile, OpensIndex, Disk
  <1> DEFINE ids == {meta[n].id : n \in MetaFiles}
  <1>4. ASSUME NEW home \in FoundBy(ids) PROVE CanRedo(home)
    <2> SUFFICES ASSUME NEW e \in log
                 PROVE  /\ e.id \in DOMAIN home
                        /\ \A i \in meta[home[e.id]].indexes : Keyed({e.row}, i) \cap saved[<<home[e.id], i>>] = {}
      BY DEF CanRedo
    <2>1. PICK n \in MetaFiles : meta[n] /= Empty /\ meta[n].ser = e.ser
      OBVIOUS
    <2>2. n \in Names /\ HasMeta(n)
      BY <2>1 DEF MetaFiles, HasMeta
    <2>3. meta[n].id = e.id
      <3> DEFINE c == <<meta[n].id, meta[n].ser, n>>
      <3>1. c \in Drawn /\ c[1] = meta[n].id /\ c[2] = meta[n].ser
        BY <2>2, InDrawn
      <3> HIDE DEF c
      <3> QED
        BY <2>1, <3>1 DEF SerIds
    <2>4. e.id \in ids
      BY <2>1, <2>3
    <2> HIDE DEF ids
    <2>5. home \in [ids -> MetaFiles]
      BY <1>4 DEF FoundBy
    <2>6. e.id \in DOMAIN home /\ home[e.id] \in MetaFiles
      BY <2>4, <2>5
    <2>7. ASSUME NEW i \in meta[home[e.id]].indexes PROVE Keyed({e.row}, i) \cap saved[<<home[e.id], i>>] = {}
      <3>1. home[e.id] \in Names /\ meta[home[e.id]] \in MetaData
        BY <1>2, <1>3, <2>6 DEF MetaFiles, CanOpen, Deserializes, Shape, FilesOK
      <3>2. <<home[e.id], i>> \in Indexes
        BY <2>7, <3>1 DEF Indexes, MetaData
      <3> QED
        BY <3>2
    <2> QED
      BY <2>6, <2>7
  <1> HIDE DEF ids
  <1>5. PICK home \in FoundBy(ids) : CanRedo(home) => mode' = "up"
    BY <1>3 DEF Start, ids
  <1> QED
    BY <1>4, <1>5

\* Db::init gives up only after a CREATE or DROP TABLE or a rewrite of the meta
\* data was cut short, when a table with records in the log has been dropped,
\* when a shutdown has saved index entries, or on a log that recover() gives up on
\* by itself: for any number of threads, names, indexes, statements, failures and
\* restarts.
THEOREM StartRefusalsExplained == Spec => []StartFailsOnlyAfter
  <1>1. Init => StartFailsOnlyAfter
    BY DEF Init, StartFailsOnlyAfter
  <1>2. FInv /\ SerIds /\ StartFailsOnlyAfter /\ [Next]_vars => StartFailsOnlyAfter'
    <2> SUFFICES ASSUME FInv, SerIds, StartFailsOnlyAfter, [Next]_vars, mode' = "failed"
                 PROVE  StartFailsOnlyAfter'
      BY DEF StartFailsOnlyAfter
    <2>1. ASSUME NEW t \in Threads, Statement(t) PROVE FALSE
      BY <2>1 DEF Statement, CreateTable, DropTable, CreateIndex, Insert, Begin
    <2>2. ASSUME NEW t \in Threads, Step(t) PROVE FALSE
      <3>1. mode = "up"
        BY <2>2 DEF Step, StoreId, CreateMeta, SerializeMeta, CreateFile, WriteHeader, Publish,
           DropClose, DropData, DropMeta, DropIndex, DropErase, CreateIndexFile, BuildIndex,
           PushIndex, OpenTmp, WriteTmp, RenameTmp, InsertRecord, Commit, Building, At
      <3>2. mode' = "up" \/ mode' = "wild"
        BY <2>2, <3>1 DEF Step, StoreId, CreateMeta, SerializeMeta, CreateFile, WriteHeader, Publish,
           DropClose, DropData, DropMeta, DropIndex, DropErase, CreateIndexFile, BuildIndex,
           PushIndex, OpenTmp, WriteTmp, RenameTmp, InsertRecord, Commit, Same, Fault, UseAfterDelete
      <3> QED
        BY <3>2, SMTT(60)
    <2>3. CASE Crash \/ Shutdown
      BY <2>3 DEF Crash, Shutdown, Ended
    <2>4. CASE Start
      <3>1. UNCHANGED <<meta, log, saved, cut, refusable>>
        BY <2>4 DEF Start, disk
      <3> SUFFICES ASSUME cut = {},
                          \A e \in log : \E n \in MetaFiles : ~(meta[n] = Empty \/ meta[n].ser /= e.ser),
                          \A x \in Indexes : saved[x] = {}, ~refusable
                   PROVE  FALSE
        BY <3>1 DEF StartFailsOnlyAfter, MetaFiles
      <3> QED
        BY <2>4, StartSucceeds
    <2>5. CASE UNCHANGED vars
      BY <2>5 DEF StartFailsOnlyAfter, MetaFiles, vars, disk, history
    <2> QED
      BY <2>1, <2>2, <2>3, <2>4, <2>5 DEF Next
  <1> QED
    BY <1>1, <1>2, FilesInvariance, SerialsInvariance, PTL DEF Spec
=============================================================================
