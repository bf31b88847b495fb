---------------------------- MODULE OutputBuffer ----------------------------
(***************************************************************************)
(* The bytes on their way to a client: RingBuffer (a vector, the amount of *)
(* data in it and the write position) and the integer encoding of the      *)
(* MySQL protocol.  A "byte" is any value.                                 *)
(***************************************************************************)
EXTENDS Naturals, Integers, Sequences, FiniteSetsExt

CONSTANTS Capacity,   \* capacity() of a ring buffer
          NoByte      \* what an unused place of the vector holds

ASSUME CapacityAssumption == Capacity \in Nat \ {0}

EmptyRing == [cells |-> [i \in 0 .. Capacity - 1 |-> NoByte], size |-> 0, pos |-> 0]

Remain(r)  == Capacity - r.size
ReadPos(r) == (r.pos - r.size + Capacity) % Capacity

\* RingBuffer::buffer: the data that lie side by side at the read position.
Span(r) ==
  LET from == ReadPos(r)
      n    == IF r.size = 0 THEN 0 ELSE IF from < r.pos THEN r.pos - from ELSE Capacity - from
  IN [i \in 1 .. n |-> r.cells[from + i - 1]]

(* RingBuffer::forward: n places have been read (what they still hold is    *)
(* never read again).                                                      *)
Forward(r, n) ==
  IF n \notin 1 .. r.size THEN r
  ELSE [r EXCEPT !.size = @ - n,
                 !.cells = [i \in DOMAIN @ |-> IF i \in ReadPos(r) .. ReadPos(r) + n - 1 THEN NoByte ELSE @[i]]]

\* All of it: two spans when the data wrap around.
Content(r) == Span(r) \o Span(Forward(r, Len(Span(r))))

\* The free places that lie side by side at the write position.
Room(r) == IF ReadPos(r) <= r.pos THEN Capacity - r.pos ELSE ReadPos(r) - r.pos

\* One pass of the loop of RingBuffer::write: how much is copied, and the ring after it.
PutSize(r, data) == IF r.size = Capacity THEN 0 ELSE Min({Len(data), Room(r)})

PutSome(r, data) ==
  LET n == PutSize(r, data) IN
  [cells |-> [i \in 0 .. Capacity - 1 |->
                IF i \in r.pos .. r.pos + n - 1 THEN data[i - r.pos + 1] ELSE r.cells[i]],
   size  |-> r.size + n,
   pos   |-> (r.pos + n) % Capacity]

-----------------------------------------------------------------------------
(* The n low bytes of v, least significant first (a memcpy on a little       *)
(* endian machine); a length has 31 bits.                                  *)
LowBytes(v, n) == [i \in 1 .. n |-> IF i > 4 THEN 0 ELSE (v \div (256 ^ (i - 1))) % 256]

\* Mutant of store_lenenc_int: the first byte also takes the value that means null.
store_lenenc_int_null(v) ==
  IF v < 252 THEN <<v>>
  ELSE IF v < 2 * 2^16 THEN <<252>> \o LowBytes(v, 2)
  ELSE IF v < 2 * 2^24 THEN <<253>> \o LowBytes(v, 3)
  ELSE <<254>> \o LowBytes(v, 8)

store_lenenc_int(v) ==
  IF v < 251 THEN <<v>>
  ELSE IF v < 2 * 2^16 THEN <<252>> \o LowBytes(v, 2)
  ELSE IF v < 2 * 2^24 THEN <<253>> \o LowBytes(v, 3)
  ELSE <<254>> \o LowBytes(v, 8)

\* What a client makes of it (the protocol's definition): 251 stands for null.
ReadLenenc(b) ==
  LET value(n) == MapThenSumSet(LAMBDA i : b[i + 1] * 256 ^ (i - 1), 1 .. n) IN
  CASE b[1] < 251 -> b[1]
    [] b[1] = 251 -> -1
    [] b[1] = 252 -> value(2)
    [] b[1] = 253 -> value(3)
    [] b[1] = 254 -> value(4)
=============================================================================
