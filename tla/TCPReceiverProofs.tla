-------------------------- MODULE TCPReceiverProofs --------------------------
(***************************************************************************)
(* The StreamReassembler, for every capacity, every stream and every order *)
(* of arrival: what it writes out is a prefix of the stream, what it keeps *)
(* is the stream's own bytes at their own places and within the capacity,  *)
(* and the output ends exactly when the whole stream has been written.     *)
(* Each part of push_substring() is a function from a record to a record,  *)
(* so each gets a lemma about records: if Core holds before it, it holds   *)
(* after it.                                                               *)
(*                                                                         *)
(* The TCPReceiver, for every ISN, every capacity of less than half the    *)
(* 32-bit space, and whatever segments of the stream arrive in whatever    *)
(* order: what it gives the application is the peer's stream, it           *)
(* acknowledges only what has arrived, and its window never shrinks.       *)
(* UnwrapWrap gives the index that a segment's 32-bit number stands for,   *)
(* the lemmas about the reassembler say what becomes of its payload.       *)
(***************************************************************************)
EXTENDS TCPReceiverSpec, ReassemblerSpec, WrappingIntegersProofs,
        FiniteSetTheorems, SequenceTheorems, WellFoundedInduction

\* The positions of the window that hold a byte.
Marked(r) == {k \in 0..(Capacity - 1) : r.bitmap[k]}

\* The output holds the next bytes of Source and has room for them.
OutputGood(o) ==
    /\ o.capacity = Capacity
    /\ o.read_bytes <= o.written_bytes
    /\ o.written_bytes <= N
    /\ o.written_bytes <= o.read_bytes + Capacity
    /\ Len(o.buffer) = o.written_bytes - o.read_bytes
    /\ \A i \in 1..Len(o.buffer) : o.buffer[i] = Source[o.read_bytes + i]

\* Every marked position holds the byte of Source that belongs there.
WindowGood(r) ==
    \A k \in Marked(r) :
        /\ r.output.written_bytes + k < N
        /\ r.output.written_bytes + k < r.output.read_bytes + Capacity
        /\ r.buffer[k] = Source[r.output.written_bytes + k + 1]

\* What holds before and after every part of push_substring().
Core(r) ==
    /\ r \in ReassemblerType(Byte, Capacity)
    /\ OutputGood(r.output)
    /\ WindowGood(r)
    /\ r.unassembled_bytes = Cardinality(Marked(r))
    /\ r.eof_flag => r.eof_index = N
    /\ r.output.end_write => r.eof_flag /\ r.output.written_bytes = N

\* What holds between two calls.
Good(r) ==
    /\ Core(r)
    /\ ~r.bitmap[0]
    /\ r.eof_flag /\ r.output.written_bytes = N => r.output.end_write

-----------------------------------------------------------------------------
\* Arithmetic and sets.

\* A sum that fits in the width is not wrapped.
LEMMA AddFits ==
    ASSUME NEW a \in Nat, NEW b \in Nat, a + b < AbsMod
    PROVE  add64(a, b) = a + b
<1>1. a + b \in 0..(AbsMod - 1) /\ AbsMod \in Nat \ {0}
  BY AbsModAssumption
<1>2. a + b = AbsMod * 0 + (a + b)
  BY <1>1
<1> QED
  BY <1>1, <1>2 DEF add64

\* A non-empty set of natural numbers has a least element.
LEMMA Least ==
    ASSUME NEW T \in SUBSET Nat, T # {}
    PROVE  \E x \in T : \A y \in T : x <= y
<1>1. \E x \in T : \A y \in T : ~ (<<y, x>> \in OpToRel(<, Nat))
  BY NatLessThanWellFounded, WFMin, Zenon
<1>2. PICK x \in T : \A y \in T : ~ (<<y, x>> \in OpToRel(<, Nat))
  BY <1>1
<1>3. ASSUME NEW y \in T PROVE x <= y
  <2>1. <<y, x>> \notin OpToRel(<, Nat)
    BY <1>2
  <2>2. ~(y < x)
    BY <2>1 DEF OpToRel
  <2> QED
    BY <2>2
<1> QED
  BY <1>3

\* Moving a finite set of numbers by n keeps its size.
LEMMA ShiftedSize ==
    ASSUME NEW S \in SUBSET Nat, NEW T \in SUBSET Nat, NEW n \in Nat, IsFiniteSet(S),
           \A k \in Nat : k \in S <=> k + n \in T,
           \A m \in T : m >= n
    PROVE  IsFiniteSet(T) /\ Cardinality(T) = Cardinality(S)
<1> DEFINE f == [k \in S |-> k + n]
<1>1. f \in [S -> T]
  OBVIOUS
<1>2. \A a, b \in S : f[a] = f[b] => a = b
  OBVIOUS
<1>3. \A m \in T : \E k \in S : f[k] = m
  <2>1. ASSUME NEW m \in T PROVE m - n \in S /\ f[m - n] = m
    OBVIOUS
  <2> QED
    BY <2>1
<1>4. f \in Bijection(S, T)
  BY <1>1, <1>2, <1>3 DEF Bijection, Injection, Surjection, IsInjective
<1>5. ExistsBijection(S, T)
  BY <1>4 DEF ExistsBijection
<1> QED
  BY <1>5, FS_Bijection

\* The positions of the window form a finite set.
LEMMA MarkedFinite ==
    ASSUME NEW r
    PROVE  IsFiniteSet(Marked(r)) /\ Cardinality(Marked(r)) \in Nat
<1>1. 0 \in Int /\ Capacity - 1 \in Int
  BY ReassemblerAssumption
<1>2. IsFiniteSet(0..(Capacity - 1))
  BY <1>1, FS_Interval
<1>3. Marked(r) \in SUBSET (0..(Capacity - 1))
  BY DEF Marked
<1> QED
  BY <1>2, <1>3, FS_Subset, FS_CardinalityType

-----------------------------------------------------------------------------
\* The parts of push_substring().

\* The fields a well-typed reassembler and its output have.
LEMMA Fields ==
    ASSUME NEW r \in ReassemblerType(Byte, Capacity)
    PROVE  /\ r.buffer \in [0..(Capacity - 1) -> Byte \cup {NUL}]
           /\ r.bitmap \in [0..(Capacity - 1) -> BOOLEAN]
           /\ r.eof_flag \in BOOLEAN /\ r.eof_index \in 0..(AbsMod - 1)
           /\ r.unassembled_bytes \in Nat /\ r.capacity = Capacity
           /\ r.output \in ByteStreamType(Byte)
           /\ r.output.buffer \in Seq(Byte) /\ Len(r.output.buffer) \in Nat
           /\ r.output.capacity \in Nat /\ r.output.end_write \in BOOLEAN
           /\ r.output.written_bytes \in Nat /\ r.output.read_bytes \in Nat
BY DEF ReassemblerType, ByteStreamType

\* Recording the end of the stream keeps Core and touches nothing else.
LEMMA MarkEofKeeps ==
    ASSUME NEW r, Core(r), NEW end, NEW is_eof \in BOOLEAN, is_eof => end = N
    PROVE  LET q == mark_eof(r, end, is_eof)
           IN  Core(q) /\ q.bitmap = r.bitmap /\ q.output = r.output
<1> DEFINE q == mark_eof(r, end, is_eof)
<1>1. r \in ReassemblerType(Byte, Capacity)
  BY DEF Core
<1>2. N \in 0..(AbsMod - 1)
  BY ReassemblerAssumption, AbsModAssumption DEF N
<1>3. CASE ~is_eof
  BY <1>3 DEF mark_eof
<1>4. CASE is_eof
  <2>1. q = [r EXCEPT !.eof_flag = TRUE, !.eof_index = N]
    BY <1>4 DEF mark_eof
  <2>2. /\ q \in ReassemblerType(Byte, Capacity)
        /\ q.bitmap = r.bitmap /\ q.output = r.output /\ q.buffer = r.buffer
        /\ q.unassembled_bytes = r.unassembled_bytes
        /\ q.eof_flag = TRUE /\ q.eof_index = N
    BY <1>1, <1>2, <2>1 DEF ReassemblerType
  <2> HIDE DEF q
  <2>3. Core(q)
    BY <2>2 DEF Core, WindowGood, Marked
  <2> USE DEF q
  <2> QED
    BY <2>2, <2>3
<1> QED
  BY <1>3, <1>4

\* The end test keeps Core, and ends the output if all of the stream is there.
LEMMA EndAtEofKeeps ==
    ASSUME NEW r, Core(r)
    PROVE  LET q == end_at_eof(r)
           IN  /\ Core(q) /\ q.bitmap = r.bitmap
               /\ q.output.written_bytes = r.output.written_bytes
               /\ q.output.read_bytes = r.output.read_bytes
               /\ q.eof_flag /\ q.output.written_bytes = N => q.output.end_write
<1> DEFINE q == end_at_eof(r)
<1>1. r \in ReassemblerType(Byte, Capacity) /\ (r.eof_flag => r.eof_index = N)
  BY DEF Core
<1>2. CASE ~(r.eof_flag /\ r.eof_index = r.output.written_bytes)
  BY <1>1, <1>2 DEF end_at_eof, bytes_written
<1>3. CASE r.eof_flag /\ r.eof_index = r.output.written_bytes
  <2> DEFINE o == [r.output EXCEPT !.end_write = TRUE]
  <2>1. q = [r EXCEPT !.output = o]
    BY <1>3 DEF end_at_eof, bytes_written, end_input
  <2>2. /\ o \in ByteStreamType(Byte)
        /\ o.buffer = r.output.buffer /\ o.capacity = r.output.capacity
        /\ o.written_bytes = r.output.written_bytes
        /\ o.read_bytes = r.output.read_bytes /\ o.end_write = TRUE
    BY <1>1, Fields DEF ByteStreamType
  <2> HIDE DEF o
  <2>3. /\ q \in ReassemblerType(Byte, Capacity)
        /\ q.bitmap = r.bitmap /\ q.output = o /\ q.buffer = r.buffer
        /\ q.unassembled_bytes = r.unassembled_bytes
        /\ q.eof_flag = r.eof_flag /\ q.eof_index = r.eof_index
    BY <1>1, <2>1, <2>2 DEF ReassemblerType
  <2> HIDE DEF q
  <2>4. Core(q)
    BY <1>1, <1>3, <2>2, <2>3 DEF Core, OutputGood, WindowGood, Marked
  <2> USE DEF q
  <2> QED
    BY <2>2, <2>3, <2>4
<1> QED
  BY <1>2, <1>3

\* Reading from the output keeps Good, whether the read is refused or not.
LEMMA ReadKeepsGood ==
    ASSUME NEW r, Good(r), NEW len \in Nat
    PROVE  Good([r EXCEPT !.output = read(@, len)])
<1> DEFINE o == read(r.output, len)
           q == [r EXCEPT !.output = o]
           b == r.output.buffer
<1>1. r \in ReassemblerType(Byte, Capacity) /\ Core(r) /\ OutputGood(r.output)
  BY DEF Good, Core
<1>2. CASE len > Len(b)
  <2>1. o = [r.output EXCEPT !.error = TRUE]
    BY <1>2 DEF read, pop_output, set_error
  <2>2. /\ o \in ByteStreamType(Byte)
        /\ o.buffer = r.output.buffer /\ o.capacity = r.output.capacity
        /\ o.written_bytes = r.output.written_bytes
        /\ o.read_bytes = r.output.read_bytes /\ o.end_write = r.output.end_write
    BY <1>1, <2>1, Fields DEF ByteStreamType
  <2> HIDE DEF o
  <2>3. /\ q \in ReassemblerType(Byte, Capacity)
        /\ q.bitmap = r.bitmap /\ q.output = o /\ q.buffer = r.buffer
        /\ q.unassembled_bytes = r.unassembled_bytes
        /\ q.eof_flag = r.eof_flag /\ q.eof_index = r.eof_index
    BY <1>1, <2>2 DEF ReassemblerType
  <2> HIDE DEF q
  <2>4. Good(q)
    BY <1>1, <2>2, <2>3 DEF Good, Core, OutputGood, WindowGood, Marked
  <2> USE DEF o, q
  <2> QED
    BY <2>4
<1>3. CASE len <= Len(b)
  <2> DEFINE rest == SubSeq(b, len + 1, Len(b))
  <2>1. o = [r.output EXCEPT !.buffer = rest, !.read_bytes = r.output.read_bytes + len]
    BY <1>1, <1>3, Fields DEF read, pop_output
  <2>2. /\ rest \in Seq(Byte) /\ Len(rest) = Len(b) - len
        /\ \A i \in 1..Len(rest) : rest[i] = b[len + i]
    <3>1. b \in Seq(Byte) /\ Len(b) \in Nat
      BY <1>1, Fields
    <3> HIDE DEF b
    <3>2. \A i \in (len + 1)..Len(b) : b[i] \in Byte
      BY <3>1, ElementOfSeq
    <3>3. len + 1 \in Int /\ Len(b) \in Int
      BY <3>1
    <3>4. /\ rest \in Seq(Byte)
          /\ Len(rest) = IF len + 1 <= Len(b) THEN Len(b) - (len + 1) + 1 ELSE 0
          /\ \A i \in 1..(Len(b) - (len + 1) + 1) : rest[i] = b[(len + 1) + i - 1]
      BY <3>2, <3>3, SubSeqProperties
    <3>5. Len(rest) = Len(b) - len
      BY <1>3, <3>1, <3>4
    <3>6. ASSUME NEW i \in 1..Len(rest) PROVE rest[i] = b[len + i]
      <4>1. i \in 1..(Len(b) - (len + 1) + 1) /\ (len + 1) + i - 1 = len + i
        BY <3>1, <3>5
      <4> QED
        BY <3>4, <4>1
    <3> QED
      BY <3>4, <3>5, <3>6
  <2>3. r.output.read_bytes + len \in Nat
    BY <1>1, Fields
  <2> HIDE DEF rest
  <2>4. /\ o \in ByteStreamType(Byte)
        /\ o.buffer = rest /\ o.capacity = r.output.capacity
        /\ o.written_bytes = r.output.written_bytes
        /\ o.read_bytes = r.output.read_bytes + len /\ o.end_write = r.output.end_write
    BY <1>1, <2>1, <2>2, <2>3, Fields DEF ByteStreamType
  <2> HIDE DEF o
  <2>5. OutputGood(o)
    <3>1. ASSUME NEW i \in 1..Len(rest)
          PROVE  rest[i] = Source[(r.output.read_bytes + len) + i]
      <4>1. len + i \in 1..Len(b) /\ r.output.read_bytes + (len + i) = (r.output.read_bytes + len) + i
        BY <1>1, <1>3, <2>2, Fields
      <4>2. b[len + i] = Source[r.output.read_bytes + (len + i)]
        BY <1>1, <4>1 DEF OutputGood
      <4> QED
        BY <2>2, <4>1, <4>2
    <3>2. r.output.written_bytes <= (r.output.read_bytes + len) + Capacity
      BY <1>1, Fields, ReassemblerAssumption DEF OutputGood
    <3> QED
      BY <1>1, <1>3, <2>2, <2>4, <3>1, <3>2, Fields DEF OutputGood
  <2>6. /\ q \in ReassemblerType(Byte, Capacity)
        /\ q.bitmap = r.bitmap /\ q.output = o /\ q.buffer = r.buffer
        /\ q.unassembled_bytes = r.unassembled_bytes
        /\ q.eof_flag = r.eof_flag /\ q.eof_index = r.eof_index
    BY <1>1, <2>4 DEF ReassemblerType
  <2> HIDE DEF q
  <2>7. Marked(q) = Marked(r)
    BY <2>6 DEF Marked
  <2>8. WindowGood(q)
    <3>1. WindowGood(r) /\ Marked(r) \subseteq Nat
      BY <1>1 DEF Core, Marked
    <3>2. ASSUME NEW k \in Marked(r)
          PROVE  /\ o.written_bytes + k < N
                 /\ o.written_bytes + k < o.read_bytes + Capacity
                 /\ q.buffer[k] = Source[o.written_bytes + k + 1]
      <4>1. /\ r.output.written_bytes + k < N
            /\ r.output.written_bytes + k < r.output.read_bytes + Capacity
            /\ r.buffer[k] = Source[r.output.written_bytes + k + 1]
        BY <3>1 DEF WindowGood
      <4>2. k \in Nat /\ r.output.written_bytes \in Nat /\ r.output.read_bytes \in Nat
        BY <1>1, <3>1, Fields
      <4>3. o.written_bytes = r.output.written_bytes /\ o.read_bytes = r.output.read_bytes + len
        BY <2>4
      <4>4. q.buffer[k] = Source[o.written_bytes + k + 1]
        BY <2>6, <4>1, <4>3, Zenon
      <4>5. r.output.written_bytes + k < (r.output.read_bytes + len) + Capacity
        <5> DEFINE w == r.output.written_bytes
                   rd == r.output.read_bytes
        <5>1. w \in Nat /\ rd \in Nat /\ k \in Nat /\ len \in Nat /\ Capacity \in Nat
          BY <4>2, ReassemblerAssumption
        <5>2. w + k < rd + Capacity
          BY <4>1
        <5> HIDE DEF w, rd
        <5>3. w + k < (rd + len) + Capacity
          BY <5>1, <5>2
        <5> QED
          BY <5>3 DEF w, rd
      <4> QED
        BY <4>1, <4>3, <4>4, <4>5, Zenon
    <3> QED
      BY <2>6, <2>7, <3>2 DEF WindowGood
  <2>9. Good(q)
    BY <1>1, <2>4, <2>5, <2>6, <2>7, <2>8 DEF Good, Core
  <2> USE DEF o, q
  <2> QED
    BY <2>9
<1> QED
  <2>1. Len(b) \in Nat
    BY <1>1, Fields
  <2> QED
    BY <1>2, <1>3, <2>1


\* The positions that a segment covers are positions of the window.
LEMMA CoveredInWindow ==
    ASSUME NEW r, Core(r), NEW i \in 0..N, NEW j \in 0..N, NEW k \in covered(r, i, j)
    PROVE  /\ k \in 0..(Capacity - 1)
           /\ i <= r.output.written_bytes + k /\ r.output.written_bytes + k < j
           /\ r.output.written_bytes + k < r.output.read_bytes + Capacity
<1> DEFINE w == r.output.written_bytes
           u == r.output.read_bytes + Capacity
<1>1. /\ w \in Nat /\ u \in Nat /\ w >= r.output.read_bytes /\ r.output.read_bytes \in Nat
      /\ r.capacity = Capacity /\ Capacity \in Nat
  BY Fields, ReassemblerAssumption DEF Core, OutputGood
<1>2. N \in Nat
  BY ReassemblerAssumption DEF N
<1>3. k \in (max(i, w) - w)..(min(j, u) - w - 1)
  BY <1>1 DEF covered, bytes_written, bytes_read
<1>4. max(i, w) >= i /\ max(i, w) >= w /\ max(i, w) \in Nat
  BY <1>1, <1>2 DEF max
<1>5. min(j, u) <= j /\ min(j, u) <= u /\ min(j, u) \in Nat
  BY <1>1, <1>2 DEF min
<1> QED
  BY <1>1, <1>2, <1>3, <1>4, <1>5

\* Storing bytes i..j-1 of the stream keeps Core and touches only the window.
LEMMA StoreKeeps ==
    ASSUME NEW r, Core(r), NEW i \in 0..N, NEW j \in 0..N, i <= j
    PROVE  LET q == store(r, SubSeq(Source, i + 1, j), i, j)
           IN  Core(q) /\ q.output = r.output
<1> DEFINE w     == r.output.written_bytes
           data  == SubSeq(Source, i + 1, j)
           fresh == {k \in covered(r, i, j) : ~r.bitmap[k]}
           buf   == [k \in 0..(Capacity - 1) |->
                       IF k \in fresh THEN data[k + (w - i) + 1] ELSE r.buffer[k]]
           bits  == [k \in 0..(Capacity - 1) |-> r.bitmap[k] \/ k \in fresh]
           more  == r.unassembled_bytes + Cardinality(fresh)
           q     == store(r, data, i, j)
<1>1. /\ r \in ReassemblerType(Byte, Capacity) /\ OutputGood(r.output) /\ WindowGood(r)
      /\ r.unassembled_bytes = Cardinality(Marked(r))
  BY DEF Core
<1>2. /\ r.buffer \in [0..(Capacity - 1) -> Byte \cup {NUL}]
      /\ r.bitmap \in [0..(Capacity - 1) -> BOOLEAN]
      /\ w \in Nat /\ Capacity \in Nat
  BY <1>1, Fields, ReassemblerAssumption
<1>3. N \in Nat /\ N = Len(Source) /\ Source \in Seq(Byte)
  BY ReassemblerAssumption DEF N
<1>4. q = [r EXCEPT !.buffer = buf, !.bitmap = bits, !.unassembled_bytes = more]
  BY <1>2 DEF store, bytes_written
<1>5. \A m \in 1..(j - (i + 1) + 1) : data[m] = Source[(i + 1) + m - 1]
  <2>1. ASSUME NEW m \in (i + 1)..j PROVE Source[m] \in Byte
    <3>1. m \in 1..Len(Source)
      BY <1>3
    <3> QED
      BY <1>3, <3>1, ElementOfSeq
  <2>2. i + 1 \in Int /\ j \in Int
    BY <1>3
  <2> QED
    BY <2>1, <2>2, SubSeqProperties
<1>6. ASSUME NEW k \in fresh
       PROVE  /\ k \in 0..(Capacity - 1) /\ i <= w + k /\ w + k < j
              /\ w + k < r.output.read_bytes + Capacity
  BY CoveredInWindow
<1> HIDE DEF data, fresh, w
<1>7. ASSUME NEW k \in fresh
      PROVE  /\ k \in 0..(Capacity - 1)
             /\ w + k < N /\ w + k < r.output.read_bytes + Capacity
             /\ data[k + (w - i) + 1] = Source[w + k + 1]
             /\ Source[w + k + 1] \in Byte
  <2>1. k \in 0..(Capacity - 1) /\ i <= w + k /\ w + k < j /\ w + k < r.output.read_bytes + Capacity
    BY <1>6
  <2>2. w + k + 1 \in 1..Len(Source) /\ w + k < N
    BY <1>2, <1>3, <2>1
  <2>3. Source[w + k + 1] \in Byte
    BY <1>3, <2>2, ElementOfSeq
  <2>4. k + (w - i) + 1 \in 1..(j - (i + 1) + 1) /\ (i + 1) + (k + (w - i) + 1) - 1 = w + k + 1
    BY <1>2, <1>3, <2>1, SMTT(30)
  <2> QED
    BY <1>5, <2>1, <2>2, <2>3, <2>4
<1>8. IsFiniteSet(fresh) /\ Cardinality(fresh) \in Nat
  <2>1. fresh \in SUBSET (0..(Capacity - 1))
    BY <1>7
  <2>2. IsFiniteSet(0..(Capacity - 1))
    BY <1>2, FS_Interval
  <2> QED
    BY <2>1, <2>2, FS_Subset, FS_CardinalityType
<1>9. buf \in [0..(Capacity - 1) -> Byte \cup {NUL}]
  BY <1>2, <1>7
<1>10. bits \in [0..(Capacity - 1) -> BOOLEAN]
  BY <1>2
<1>11. more \in Nat
  BY <1>1, <1>8, Fields
<1> HIDE DEF buf, bits, more, q
<1>12. /\ q \in ReassemblerType(Byte, Capacity)
       /\ q.buffer = buf /\ q.bitmap = bits /\ q.unassembled_bytes = more
       /\ q.output = r.output /\ q.eof_flag = r.eof_flag /\ q.eof_index = r.eof_index
  BY <1>1, <1>4, <1>9, <1>10, <1>11 DEF ReassemblerType
<1>13. Marked(q) = Marked(r) \cup fresh
  BY <1>2, <1>7, <1>12 DEF Marked, bits
<1>14. more = Cardinality(Marked(q))
  <2>1. Marked(r) \cap fresh = {}
    BY DEF Marked, fresh
  <2>2. Cardinality(Marked(r) \cup fresh) =
            Cardinality(Marked(r)) + Cardinality(fresh) - Cardinality(Marked(r) \cap fresh)
    BY <1>8, MarkedFinite, FS_Union
  <2>3. Cardinality(Marked(r) \cap fresh) = 0
    BY <2>1, FS_EmptySet
  <2> QED
    BY <1>1, <1>8, <1>13, <2>2, <2>3, MarkedFinite DEF more
<1>15. WindowGood(q)
  <2>1. ASSUME NEW k \in Marked(q)
        PROVE  /\ w + k < N /\ w + k < r.output.read_bytes + Capacity
               /\ buf[k] = Source[w + k + 1]
    <3>1. CASE k \in fresh
      BY <1>7, <3>1 DEF buf
    <3>2. CASE k \notin fresh
      <4>1. k \in Marked(r) /\ k \in 0..(Capacity - 1)
        BY <1>13, <3>2 DEF Marked
      <4> QED
        BY <1>1, <3>2, <4>1 DEF WindowGood, buf, w
    <3> QED
      BY <3>1, <3>2
  <2> QED
    BY <1>12, <2>1 DEF WindowGood, w
<1>16. Core(q)
  BY <1>1, <1>12, <1>14, <1>15 DEF Core
<1> USE DEF q, data
<1> QED
  BY <1>12, <1>16


\* contiguous() is the number of marked positions before the first unmarked one.
LEMMA ContiguousIs ==
    ASSUME NEW r \in ReassemblerType(Byte, Capacity)
    PROVE  /\ contiguous(r) \in 0..Capacity
           /\ \A k \in 0..(contiguous(r) - 1) : r.bitmap[k]
           /\ contiguous(r) < Capacity => ~r.bitmap[contiguous(r)]
<1> DEFINE T == {n \in 0..Capacity : n = Capacity \/ ~r.bitmap[n]}
<1>1. r.capacity = Capacity /\ Capacity \in Nat
  BY Fields, ReassemblerAssumption
<1>2. T \in SUBSET Nat /\ Capacity \in T
  BY <1>1
<1>3. PICK n \in T : \A m \in T : n <= m
  BY <1>2, Least
<1>4. n \in 0..Capacity /\ (n < Capacity => ~r.bitmap[n])
  BY <1>1
<1>5. ASSUME NEW k \in 0..(n - 1) PROVE r.bitmap[k]
  <2>1. k \in 0..Capacity /\ ~(n <= k) /\ k # Capacity
    BY <1>1, <1>4
  <2>2. k \notin T
    BY <1>3, <2>1
  <2> QED
    BY <2>1, <2>2
<1>6. \E x \in 0..r.capacity : /\ \A k \in 0..(x - 1) : r.bitmap[k]
                               /\ x < r.capacity => ~r.bitmap[x]
  BY <1>1, <1>4, <1>5
<1>7. /\ contiguous(r) \in 0..r.capacity
      /\ \A k \in 0..(contiguous(r) - 1) : r.bitmap[k]
      /\ contiguous(r) < r.capacity => ~r.bitmap[contiguous(r)]
  BY <1>6 DEF contiguous
<1> QED
  BY <1>1, <1>7

\* Writing what fits appends all of it.
LEMMA WriteFits ==
    ASSUME NEW o \in ByteStreamType(Byte), OutputGood(o),
           NEW str \in Seq(Byte), Len(o.buffer) + Len(str) <= Capacity
    PROVE  /\ write(o, str) \in ByteStreamType(Byte)
           /\ write(o, str).buffer = o.buffer \o str
           /\ write(o, str).written_bytes = o.written_bytes + Len(str)
           /\ write(o, str).read_bytes = o.read_bytes
           /\ write(o, str).capacity = o.capacity
           /\ write(o, str).end_write = o.end_write
<1>1. /\ o.capacity = Capacity /\ o.buffer \in Seq(Byte)
      /\ Len(o.buffer) \in Nat /\ Len(str) \in Nat /\ Capacity \in Nat
      /\ o.written_bytes \in Nat
  BY ReassemblerAssumption DEF OutputGood, ByteStreamType
<1>2. realWrite(o, str) = Len(str)
  BY <1>1 DEF realWrite, min
<1>3. SubSeq(str, 1, Len(str)) = str
  BY SubSeqFull
<1> DEFINE b == o.buffer \o str
           n == o.written_bytes + Len(str)
           q == write(o, str)
<1>4. q = [o EXCEPT !.buffer = b, !.written_bytes = n]
  BY <1>2, <1>3 DEF write
<1>5. b \in Seq(Byte) /\ n \in Nat
  BY <1>1, ConcatProperties
<1> HIDE DEF b, n, q
<1>6. /\ q \in ByteStreamType(Byte)
      /\ q.buffer = b /\ q.written_bytes = n /\ q.read_bytes = o.read_bytes
      /\ q.capacity = o.capacity /\ q.end_write = o.end_write
  BY <1>4, <1>5 DEF ByteStreamType
<1> QED
  BY <1>6 DEF b, n, q


\* Passing on the contiguous bytes keeps Core and leaves no byte at the front.
LEMMA AssembleKeeps ==
    ASSUME NEW r, Core(r)
    PROVE  LET q == assemble(r)
           IN  /\ Core(q) /\ ~q.bitmap[0]
               /\ q.output.written_bytes = r.output.written_bytes + contiguous(r)
               /\ q.output.read_bytes = r.output.read_bytes
<1> DEFINE n    == contiguous(r)
           w    == r.output.written_bytes
           rd   == r.output.read_bytes
           str  == [i \in 1..n |-> r.buffer[i - 1]]
           o    == write(r.output, str)
           buf  == [k \in 0..(Capacity - 1) |->
                      IF k + n < Capacity THEN r.buffer[k + n] ELSE NUL]
           bits == [k \in 0..(Capacity - 1) |-> k + n < Capacity /\ r.bitmap[k + n]]
           less == r.unassembled_bytes - n
           q    == assemble(r)
<1>1. /\ r \in ReassemblerType(Byte, Capacity) /\ OutputGood(r.output) /\ WindowGood(r)
      /\ r.unassembled_bytes = Cardinality(Marked(r))
      /\ r.output.end_write => r.eof_flag /\ w = N
      /\ r.eof_flag => r.eof_index = N
  BY DEF Core
<1>2. /\ r.buffer \in [0..(Capacity - 1) -> Byte \cup {NUL}]
      /\ r.bitmap \in [0..(Capacity - 1) -> BOOLEAN]
      /\ w \in Nat /\ rd \in Nat /\ Capacity \in Nat \ {0} /\ r.capacity = Capacity
      /\ r.output \in ByteStreamType(Byte)
      /\ r.output.buffer \in Seq(Byte) /\ Len(r.output.buffer) \in Nat
  BY <1>1, Fields, ReassemblerAssumption
<1>3. N \in Nat /\ N = Len(Source) /\ Source \in Seq(Byte)
  BY ReassemblerAssumption DEF N
<1>4. n \in 0..Capacity /\ (\A k \in 0..(n - 1) : r.bitmap[k]) /\ (n < Capacity => ~r.bitmap[n])
  BY <1>1, ContiguousIs
<1>5. q = [r EXCEPT !.buffer = buf, !.bitmap = bits, !.output = o, !.unassembled_bytes = less]
  BY <1>2 DEF assemble
<1> HIDE DEF n, q
<1>6. n \in Nat /\ n <= Capacity /\ w \in Nat /\ N \in Nat /\ Capacity \in Nat \ {0}
  BY <1>2, <1>3, <1>4
<1>7. ASSUME NEW k \in 0..(n - 1)
      PROVE  /\ k \in Marked(r) /\ w + k < N /\ w + k < rd + Capacity
             /\ r.buffer[k] = Source[w + k + 1]
  <2>1. k \in Marked(r)
    BY <1>2, <1>4 DEF Marked
  <2> QED
    BY <1>1, <2>1 DEF WindowGood
<1>8. w + n <= N /\ w + n <= rd + Capacity
  <2>1. CASE n = 0
    BY <1>1, <1>2, <1>3, <2>1 DEF OutputGood
  <2>2. CASE n # 0
    <3>1. n - 1 \in 0..(n - 1)
      BY <1>2, <1>4, <2>2
    <3>2. w + (n - 1) < N /\ w + (n - 1) < rd + Capacity
      BY <1>7, <3>1
    <3>3. rd \in Nat
      BY <1>2, <1>3
    <3> QED
      BY <1>6, <3>2, <3>3, SMT
  <2> QED
    BY <2>1, <2>2
<1>9. /\ str \in Seq(Byte) /\ Len(str) = n
      /\ \A i \in 1..n : str[i] = Source[w + i]
  <2>1. ASSUME NEW i \in 1..n PROVE r.buffer[i - 1] = Source[w + i] /\ Source[w + i] \in Byte
    <3>1. i - 1 \in 0..(n - 1) /\ w + (i - 1) + 1 = w + i
      BY <1>2, <1>4
    <3>2. w + i \in 1..Len(Source)
      BY <1>3, <1>8, <1>6
    <3>3. r.buffer[i - 1] = Source[w + i]
      BY <1>7, <3>1
    <3> QED
      BY <1>3, <3>2, <3>3, ElementOfSeq
  <2>2. str \in [1..n -> Byte] /\ n \in Nat
    BY <1>6, <2>1, Zenon
  <2>3. str \in Seq(Byte) /\ Len(str) = n
    <3> HIDE DEF str
    <3>1. str \in Seq(Byte)
      BY <2>2, SeqDef, Zenon
    <3>2. DOMAIN str = 1..n /\ DOMAIN str = 1..Len(str) /\ Len(str) \in Nat
      BY <2>2, <3>1, LenProperties, Zenon
    <3> QED
      BY <2>2, <3>1, <3>2, SMT
  <2> QED
    BY <2>1, <2>3, Zenon
<1> HIDE DEF str
<1>10. /\ o \in ByteStreamType(Byte) /\ o.buffer = r.output.buffer \o str
      /\ o.written_bytes = w + n /\ o.read_bytes = rd /\ o.capacity = Capacity
      /\ o.end_write = r.output.end_write
  <2>1. Len(r.output.buffer) + Len(str) <= Capacity
    <3>1. Len(r.output.buffer) = w - rd /\ Len(str) = n
      BY <1>1, <1>9, Zenon DEF OutputGood
    <3>2. w \in Nat /\ rd \in Nat /\ n \in Nat /\ Capacity \in Nat
      BY <1>2, <1>6
    <3> HIDE DEF w, rd
    <3>3. (w - rd) + n <= Capacity
      BY <1>8, <3>2, SMT
    <3> QED
      BY <3>1, <3>3, Zenon
  <2> QED
    BY <1>1, <1>2, <1>9, <2>1, WriteFits, Zenon DEF OutputGood
<1>11. OutputGood(o)
  <2> DEFINE b == r.output.buffer
  <2>1. /\ b \in Seq(Byte) /\ Len(b) = w - rd /\ rd <= w
        /\ \A i \in 1..Len(b) : b[i] = Source[rd + i]
    BY <1>1, <1>2 DEF OutputGood
  <2> HIDE DEF b, w, rd
  <2>2. /\ Len(b \o str) = Len(b) + n
        /\ \A i \in 1..(Len(b) + n) : (b \o str)[i] = IF i <= Len(b) THEN b[i] ELSE str[i - Len(b)]
    BY <1>9, <2>1, ConcatProperties
  <2>3. ASSUME NEW i \in 1..(Len(b) + n) PROVE (b \o str)[i] = Source[rd + i]
    <3>1. CASE i <= Len(b)
      BY <1>2, <1>4, <2>1, <2>2, <3>1
    <3>2. CASE ~(i <= Len(b))
      <4>1. i - Len(b) \in 1..n /\ w + (i - Len(b)) = rd + i
        <5>1. Len(b) \in Nat /\ n \in Nat /\ w \in Nat /\ rd \in Nat
          BY <1>2, <1>6, <2>1
        <5>2. Len(b) = w - rd
          BY <2>1
        <5> QED
          BY <3>2, <5>1, <5>2
      <4>2. (b \o str)[i] = str[i - Len(b)]
        BY <2>2, <3>2
      <4>3. str[i - Len(b)] = Source[w + (i - Len(b))]
        BY <1>9, <4>1
      <4> QED
        BY <4>1, <4>2, <4>3
    <3> QED
      BY <3>1, <3>2
  <2>4. o.buffer = b \o str
    BY <1>10 DEF b
  <2>5. rd <= w + n /\ Len(b) + n = (w + n) - rd
    BY <1>2, <1>4, <2>1
  <2> QED
    BY <1>8, <1>10, <2>2, <2>3, <2>4, <2>5 DEF OutputGood, w, rd
<1> HIDE DEF o
<1>12. buf \in [0..(Capacity - 1) -> Byte \cup {NUL}]
  <2>1. ASSUME NEW k \in 0..(Capacity - 1), k + n < Capacity PROVE k + n \in 0..(Capacity - 1)
    BY <1>2, <1>4, <2>1
  <2> QED
    BY <1>2, <2>1
<1>13. bits \in [0..(Capacity - 1) -> BOOLEAN]
  OBVIOUS
<1> DEFINE later == Marked(r) \ (0..(n - 1))
<1> DEFINE moved == {k \in 0..(Capacity - 1) : bits[k]}
<1>14. \A k \in 0..(Capacity - 1) : bits[k] <=> k + n < Capacity /\ r.bitmap[k + n]
  OBVIOUS
<1> HIDE DEF bits
<1>15. ASSUME NEW k \in Nat PROVE k \in moved <=> k + n \in later
  <2>1. k \in moved <=> k \in 0..(Capacity - 1) /\ k + n < Capacity /\ r.bitmap[k + n]
    BY <1>14
  <2>2. k + n \in later <=> k + n \in 0..(Capacity - 1) /\ r.bitmap[k + n] /\ k + n \notin 0..(n - 1)
    BY DEF Marked
  <2>3. /\ k + n \in 0..(Capacity - 1) <=> k + n < Capacity
        /\ k + n < Capacity => k \in 0..(Capacity - 1)
        /\ k + n \notin 0..(n - 1)
    BY <1>6
  <2> QED
    BY <2>1, <2>2, <2>3
<1>16. /\ less \in Nat /\ less = Cardinality(moved)
  <2>1. moved \in SUBSET Nat /\ later \in SUBSET Nat /\ (\A m \in later : m >= n) /\ n \in Nat
    BY <1>2, <1>4 DEF Marked
  <2>2. IsFiniteSet(moved)
    <3>1. moved \in SUBSET (0..(Capacity - 1))
      OBVIOUS
    <3>2. IsFiniteSet(0..(Capacity - 1))
      BY <1>6, FS_Interval, 0 \in Int, Capacity - 1 \in Int
    <3> QED
      BY <3>1, <3>2, FS_Subset
  <2> HIDE DEF moved, later
  <2>3. IsFiniteSet(later) /\ Cardinality(later) = Cardinality(moved)
    BY <1>15, <2>1, <2>2, ShiftedSize
  <2>4. IsFiniteSet(0..(n - 1)) /\ Cardinality(0..(n - 1)) = n
    BY <2>1, FS_Interval
  <2>5. Marked(r) = later \cup (0..(n - 1)) /\ later \cap (0..(n - 1)) = {}
    BY <1>7 DEF later
  <2>6. Cardinality(later \cup (0..(n - 1))) =
            Cardinality(later) + Cardinality(0..(n - 1)) - Cardinality(later \cap (0..(n - 1)))
    BY <2>3, <2>4, FS_Union
  <2>7. Cardinality(later) \in Nat /\ Cardinality(later \cap (0..(n - 1))) = 0
    BY <2>3, <2>5, FS_CardinalityType, FS_EmptySet
  <2>8. r.unassembled_bytes = Cardinality(moved) + n
    BY <1>1, <2>1, <2>3, <2>4, <2>5, <2>6, <2>7
  <2> QED
    BY <2>1, <2>3, <2>7, <2>8
<1> HIDE DEF buf, less
<1>17. /\ q \in ReassemblerType(Byte, Capacity)
       /\ q.buffer = buf /\ q.bitmap = bits /\ q.output = o /\ q.unassembled_bytes = less
       /\ q.eof_flag = r.eof_flag /\ q.eof_index = r.eof_index
  BY <1>1, <1>5, <1>10, <1>12, <1>13, <1>16 DEF ReassemblerType
<1>18. Marked(q) = moved
  BY <1>17 DEF Marked
<1>19. WindowGood(q)
  <2>1. ASSUME NEW k \in moved
        PROVE  /\ (w + n) + k < N /\ (w + n) + k < rd + Capacity
               /\ buf[k] = Source[(w + n) + k + 1]
    <3>1. k \in 0..(Capacity - 1) /\ k + n < Capacity
      BY <1>14
    <3>2. k + n \in Marked(r)
      BY <1>15, <1>6, <3>1
    <3>3. /\ w + (k + n) < N /\ w + (k + n) < rd + Capacity
          /\ r.buffer[k + n] = Source[w + (k + n) + 1]
      BY <1>1, <3>2 DEF WindowGood
    <3>4. w + (k + n) = (w + n) + k
      BY <1>2, <1>4, <3>1
    <3> QED
      BY <3>1, <3>3, <3>4 DEF buf
  <2> QED
    BY <1>10, <1>17, <1>18, <2>1 DEF WindowGood
<1>20. o.end_write => o.written_bytes = N /\ r.eof_flag
  BY <1>1, <1>2, <1>3, <1>4, <1>8, <1>10
<1>21. Core(q)
  BY <1>1, <1>11, <1>16, <1>17, <1>18, <1>19, <1>20 DEF Core
<1>22. ~q.bitmap[0]
  <2>1. 0 \in 0..(Capacity - 1) /\ 0 + n = n
    BY <1>6
  <2> QED
    BY <1>4, <1>17, <1>14, <2>1
<1> USE DEF q, n
<1> QED
  BY <1>10, <1>17, <1>21, <1>22

\* The end of bytes i..j-1 of the stream, as push_substring() computes it.
LEMMA EndOfData ==
    ASSUME NEW i \in 0..N, NEW j \in 0..N, i <= j
    PROVE  add64(i, Len(SubSeq(Source, i + 1, j))) = j
<1> DEFINE data == SubSeq(Source, i + 1, j)
<1>1. N \in Nat /\ N = Len(Source) /\ Source \in Seq(Byte) /\ Len(Source) < AbsMod
  BY ReassemblerAssumption DEF N
<1>2. Len(data) = j - i
  <2>1. \A m \in (i + 1)..j : Source[m] \in Byte
    <3>1. ASSUME NEW m \in (i + 1)..j PROVE Source[m] \in Byte
      <4>1. m \in 1..Len(Source)
        BY <1>1
      <4> QED
        BY <1>1, <4>1, ElementOfSeq
    <3> QED
      BY <3>1
  <2>2. i + 1 \in Int /\ j \in Int
    BY <1>1
  <2>3. Len(data) = IF i + 1 <= j THEN j - (i + 1) + 1 ELSE 0
    BY <2>1, <2>2, SubSeqProperties
  <2> QED
    BY <1>1, <2>3
<1>3. add64(i, Len(data)) = j
  <2>1. i \in Nat /\ Len(data) \in Nat /\ i + Len(data) = j /\ i + Len(data) < AbsMod
    BY <1>1, <1>2, AbsModAssumption
  <2> QED
    BY <2>1, AddFits
<1> QED
  BY <1>3

\* A whole call of push_substring() with bytes i..j-1 of the stream keeps Good.
LEMMA PushKeeps ==
    ASSUME NEW r, Good(r), NEW i \in 0..N, NEW j \in 0..N, i <= j,
           NEW is_eof \in BOOLEAN, is_eof => j = N
    PROVE  Good(push_substring(r, SubSeq(Source, i + 1, j), i, is_eof))
<1> DEFINE data   == SubSeq(Source, i + 1, j)
           tagged == mark_eof(r, j, is_eof)
           marked == end_at_eof(tagged)
           stored == store(marked, data, i, j)
           joined == assemble(stored)
           q      == push_substring(r, data, i, is_eof)
<1>1. Core(r) /\ ~r.bitmap[0]
  BY DEF Good
<1>4. add64(i, Len(data)) = j
  BY EndOfData
<1>5. q = IF \/ j <= bytes_written(r.output)
             \/ i >= bytes_read(r.output) + r.capacity
          THEN marked
          ELSE end_at_eof(joined)
  BY <1>4 DEF push_substring
<1> HIDE DEF q, data
<1>6. Core(tagged) /\ tagged.bitmap = r.bitmap
  BY <1>1, MarkEofKeeps
<1>7. /\ Core(marked) /\ marked.bitmap = r.bitmap
      /\ marked.eof_flag /\ marked.output.written_bytes = N => marked.output.end_write
  <2> HIDE DEF tagged
  <2> QED
    BY <1>6, EndAtEofKeeps
<1>8. Core(stored)
  <2> HIDE DEF marked
  <2> QED
    BY <1>7, StoreKeeps DEF data
<1>9. Core(joined) /\ ~joined.bitmap[0]
  <2> HIDE DEF stored
  <2> QED
    BY <1>8, AssembleKeeps
<1>10. Good(end_at_eof(joined))
  <2> HIDE DEF joined
  <2> QED
    BY <1>9, EndAtEofKeeps DEF Good
<1>11. Good(marked)
  BY <1>1, <1>7 DEF Good
<1> HIDE DEF marked, joined
<1>12. Good(q)
  BY <1>5, <1>10, <1>11
<1> QED
  BY <1>12 DEF q, data

-----------------------------------------------------------------------------
\* Good says everything the invariants of ReassemblerSpec say.
LEMMA GoodImplies ==
    ASSUME Good(reas)
    PROVE  /\ ReasTypeOK /\ OutputIsPrefix /\ WindowHoldsSource
           /\ NothingLeftBehind /\ CapacityRespected /\ EndedExactly
<1> DEFINE r == reas
<1>1. /\ r \in ReassemblerType(Byte, Capacity) /\ OutputGood(r.output) /\ WindowGood(r)
      /\ r.unassembled_bytes = Cardinality(Marked(r)) /\ Core(r)
  BY DEF Good, Core
<1>2. ReasTypeOK
  BY <1>1 DEF ReasTypeOK
<1>3. OutputIsPrefix
  BY <1>1 DEF OutputGood, OutputIsPrefix, reas_out, stream_out, bytes_read, bytes_written, buffer_size
<1>4. WindowHoldsSource
  BY <1>1 DEF WindowGood, Marked, WindowHoldsSource, reas_out, stream_out, bytes_read, bytes_written
<1>5. NothingLeftBehind
  BY DEF Good, NothingLeftBehind
<1>6. CapacityRespected
  <2> DEFINE w    == r.output.written_bytes
             rd   == r.output.read_bytes
             free == rd + Capacity - w
             room == 0..(free - 1)
  <2>1. rd \in Nat /\ w \in Nat /\ Capacity \in Nat /\ Len(r.output.buffer) = w - rd
    BY <1>1, Fields, ReassemblerAssumption DEF OutputGood
  <2>2. \A k \in Marked(r) : k \in Nat /\ w + k < rd + Capacity
    BY <1>1 DEF WindowGood, Marked
  <2>3. w <= rd + Capacity
    BY <1>1 DEF OutputGood
  <2> HIDE DEF w, rd
  <2>4. free \in Nat /\ Len(r.output.buffer) = Capacity - free
    BY <2>1, <2>3
  <2>5. Marked(r) \in SUBSET room
    BY <2>1, <2>2
  <2> HIDE DEF free
  <2>6. IsFiniteSet(room) /\ Cardinality(room) = free
    <3>1. 0 \in Int /\ free - 1 \in Int
      BY <2>4
    <3>2. /\ IsFiniteSet(room)
          /\ Cardinality(room) = IF 0 > free - 1 THEN 0 ELSE (free - 1) - 0 + 1
      BY <3>1, FS_Interval, Zenon
    <3> QED
      BY <2>4, <3>2
  <2> HIDE DEF room
  <2>7. Cardinality(Marked(r)) <= free /\ Cardinality(Marked(r)) \in Nat
    <3>1. Cardinality(Marked(r)) <= Cardinality(room)
      BY <2>5, <2>6, FS_Subset
    <3> QED
      BY <2>6, <3>1, MarkedFinite
  <2>8. Len(r.output.buffer) + r.unassembled_bytes <= Capacity
    BY <1>1, <2>7, <2>4, ReassemblerAssumption
  <2> QED
    BY <1>1, <2>8 DEF CapacityRespected, Marked, unassembled_bytes, buffer_size, reas_out, stream_out
<1>7. EndedExactly
  <2>1. r.output.end_write \in BOOLEAN /\ r.eof_flag \in BOOLEAN
    BY <1>1, Fields
  <2>2. r.output.end_write <=> r.eof_flag /\ r.output.written_bytes = N
    BY <1>1, <2>1 DEF Good, Core
  <2> QED
    BY <2>2 DEF EndedExactly, input_ended, reas_out, stream_out, bytes_written
<1> QED
  BY <1>2, <1>3, <1>4, <1>5, <1>6, <1>7

\* The reassembler of the constructor is good.
LEMMA NewIsGood ==
    Good(NewStreamReassembler(Capacity))
<1> DEFINE r == NewStreamReassembler(Capacity)
<1>1. Capacity \in Nat \ {0} /\ AbsMod \in Nat \ {0} /\ N \in Nat
  BY ReassemblerAssumption, AbsModAssumption DEF N
<1>2. NewByteStream(Capacity) \in ByteStreamType(Byte)
  BY <1>1 DEF NewByteStream, ByteStreamType
<1>3. /\ r.buffer = [k \in 0..(Capacity - 1) |-> NUL]
      /\ r.bitmap = [k \in 0..(Capacity - 1) |-> FALSE]
      /\ r.eof_flag = FALSE /\ r.eof_index = 0 /\ r.unassembled_bytes = 0
      /\ r.output = NewByteStream(Capacity)
  BY DEF NewStreamReassembler
<1>4. r \in ReassemblerType(Byte, Capacity)
  BY <1>1, <1>2 DEF NewStreamReassembler, ReassemblerType
<1>5. /\ r.output.capacity = Capacity /\ r.output.buffer = <<>> /\ r.output.end_write = FALSE
      /\ r.output.read_bytes = 0 /\ r.output.written_bytes = 0
  BY <1>3 DEF NewByteStream
<1> HIDE DEF r
<1>6. Marked(r) = {}
  BY <1>3 DEF Marked
<1>7. OutputGood(r.output)
  BY <1>1, <1>5 DEF OutputGood
<1>8. Core(r)
  BY <1>3, <1>4, <1>5, <1>6, <1>7, FS_EmptySet DEF Core, WindowGood
<1>9. ~r.bitmap[0]
  BY <1>1, <1>3
<1>10. Good(r)
  BY <1>3, <1>8, <1>9 DEF Good
<1> QED
  BY <1>10 DEF r

\* Each step keeps Good.
LEMMA StepKeeps ==
    ASSUME Good(reas), [ReasNext]_reas
    PROVE  Good(reas)'
<1>1. ASSUME NEW i \in 0..N, NEW j \in 0..N, NEW is_eof \in BOOLEAN,
             PushSubstring(i, j, is_eof)
      PROVE  Good(reas)'
  BY <1>1, PushKeeps DEF PushSubstring
<1>2. ASSUME NEW len \in 1..(Capacity + 1), ReadOutput(len)
      PROVE  Good(reas)'
  <2>1. len \in Nat
    BY ReassemblerAssumption
  <2> QED
    BY <1>2, <2>1, ReadKeepsGood DEF ReadOutput
<1>3. CASE UNCHANGED reas
  BY <1>3
<1> QED
  BY <1>1, <1>2, <1>3 DEF ReasNext

\* In every behaviour of the reassembler, whatever substrings of the stream
\* arrive in whatever order and however slowly the output is read, all six
\* invariants hold: the output is a prefix of the stream, the window holds the
\* stream's bytes at their places, nothing that is due is left in the window,
\* what is buffered stays within the capacity, and the output is ended exactly
\* when all of the stream has been written and its end announced.
THEOREM ReassemblerCorrect ==
    ReasSpec => [](/\ ReasTypeOK /\ OutputIsPrefix /\ WindowHoldsSource
               /\ NothingLeftBehind /\ CapacityRespected /\ EndedExactly)
<1> DEFINE Inv == Good(reas)
<1>1. ReasInit => Inv
  BY NewIsGood DEF ReasInit
<1>2. Inv /\ [ReasNext]_reas => Inv'
  BY StepKeeps
<1>3. Inv => /\ ReasTypeOK /\ OutputIsPrefix /\ WindowHoldsSource
             /\ NothingLeftBehind /\ CapacityRespected /\ EndedExactly
  BY GoodImplies
<1> QED
  BY <1>1, <1>2, <1>3, PTL DEF ReasSpec

\* Some of it again, one by one, as the runs check it.
\* Bytes come out in the stream's order, none lost, repeated or misplaced.
THEOREM OutputAlwaysPrefix == ReasSpec => []OutputIsPrefix
BY ReassemblerCorrect, PTL

\* What is buffered stays within the capacity, each byte counted once.
THEOREM CapacityAlwaysRespected == ReasSpec => []CapacityRespected
BY ReassemblerCorrect, PTL

\* The output is ended exactly when it should be.
THEOREM EndsExactly == ReasSpec => []EndedExactly
BY ReassemblerCorrect, PTL

-----------------------------------------------------------------------------
(***************************************************************************)
(* The reassembler does what AbstractReassembler promises: it keeps the    *)
(* bytes that fit, passes on what has become contiguous at once, and ends  *)
(* the output when it should.  Good says what every state satisfies; here  *)
(* each call is shown to be one abstract step, or none.                    *)
(***************************************************************************)

\* Position k of the window holds a byte once bytes i..j-1 have been stored.
Kept(r, i, j, k) ==
    \/ r.bitmap[k]
    \/ /\ i <= r.output.written_bytes + k /\ r.output.written_bytes + k < j
       /\ r.output.written_bytes + k < r.output.read_bytes + Capacity

-----------------------------------------------------------------------------
\* What the parts of push_substring() do to what the abstraction sees.

LEMMA MarkIs ==
    ASSUME NEW r, Core(r), NEW end, NEW is_eof \in BOOLEAN, is_eof => end = N
    PROVE  LET q == end_at_eof(mark_eof(r, end, is_eof))
           IN  /\ Core(q) /\ q.bitmap = r.bitmap /\ q.eof_flag = (r.eof_flag \/ is_eof)
               /\ q.output.written_bytes = r.output.written_bytes
               /\ q.output.read_bytes = r.output.read_bytes
<1> DEFINE t == mark_eof(r, end, is_eof)
           q == end_at_eof(t)
<1>1. Core(t) /\ t.bitmap = r.bitmap /\ t.output = r.output
  BY MarkEofKeeps
<1>2. t.eof_flag = (r.eof_flag \/ is_eof)
  BY Fields DEF Core, mark_eof, ReassemblerType
<1> HIDE DEF t
<1>3. q.eof_flag = t.eof_flag
  BY <1>1 DEF end_at_eof, Core, ReassemblerType
<1>4. /\ Core(q) /\ q.bitmap = t.bitmap
      /\ q.output.written_bytes = t.output.written_bytes
      /\ q.output.read_bytes = t.output.read_bytes
  BY <1>1, EndAtEofKeeps
<1> HIDE DEF q
<1>5. /\ Core(q) /\ q.bitmap = r.bitmap /\ q.eof_flag = (r.eof_flag \/ is_eof)
      /\ q.output.written_bytes = r.output.written_bytes
      /\ q.output.read_bytes = r.output.read_bytes
  BY <1>1, <1>2, <1>3, <1>4
<1> QED
  BY <1>5 DEF q, t

LEMMA StoreIs ==
    ASSUME NEW r, Core(r), NEW i \in 0..N, NEW j \in 0..N, i <= j
    PROVE  LET q == store(r, SubSeq(Source, i + 1, j), i, j)
           IN  /\ Core(q) /\ q.output = r.output /\ q.eof_flag = r.eof_flag
               /\ \A k \in 0..(Capacity - 1) : q.bitmap[k] <=> Kept(r, i, j, k)
<1> DEFINE q     == store(r, SubSeq(Source, i + 1, j), i, j)
           w     == r.output.written_bytes
           u     == r.output.read_bytes + Capacity
           fresh == {k \in covered(r, i, j) : ~r.bitmap[k]}
<1>1. /\ r \in ReassemblerType(Byte, Capacity) /\ r.capacity = Capacity
      /\ r.bitmap \in [0..(Capacity - 1) -> BOOLEAN]
      /\ w \in Nat /\ u \in Nat /\ Capacity \in Nat /\ N \in Nat
  BY Fields, ReassemblerAssumption DEF Core, N
<1>2. q.eof_flag = r.eof_flag
  BY <1>1 DEF store, ReassemblerType
<1>3. q.bitmap = [k \in 0..(Capacity - 1) |-> r.bitmap[k] \/ k \in fresh]
  BY <1>1 DEF store, ReassemblerType
<1>4. covered(r, i, j) = (max(i, w) - w)..(min(j, u) - w - 1)
  BY <1>1 DEF covered, bytes_written, bytes_read
<1>5. ASSUME NEW k \in 0..(Capacity - 1)
      PROVE  k \in covered(r, i, j) <=> i <= w + k /\ w + k < j /\ w + k < u
  <2> HIDE DEF w, u
  <2> QED
    BY <1>1, <1>4 DEF max, min
<1>6. ASSUME NEW k \in 0..(Capacity - 1)
      PROVE  q.bitmap[k] <=> Kept(r, i, j, k)
  BY <1>3, <1>5 DEF Kept
<1>7. Core(q) /\ q.output = r.output
  BY StoreKeeps
<1> QED
  BY <1>2, <1>6, <1>7

LEMMA AssembleIs ==
    ASSUME NEW r, Core(r)
    PROVE  LET q == assemble(r)
               n == contiguous(r)
           IN  /\ Core(q) /\ ~q.bitmap[0] /\ q.eof_flag = r.eof_flag
               /\ q.output.written_bytes = r.output.written_bytes + n
               /\ q.output.read_bytes = r.output.read_bytes
               /\ \A k \in 0..(Capacity - 1) :
                      q.bitmap[k] <=> k + n < Capacity /\ r.bitmap[k + n]
<1> DEFINE n == contiguous(r)
           q == assemble(r)
<1>1. /\ r \in ReassemblerType(Byte, Capacity) /\ r.capacity = Capacity
      /\ r.bitmap \in [0..(Capacity - 1) -> BOOLEAN]
  BY Fields DEF Core
<1>2. q.eof_flag = r.eof_flag
  BY <1>1 DEF assemble, ReassemblerType
<1>3. q.bitmap = [k \in 0..(Capacity - 1) |-> k + n < Capacity /\ r.bitmap[k + n]]
  BY <1>1 DEF assemble, ReassemblerType
<1>4. /\ Core(q) /\ ~q.bitmap[0]
      /\ q.output.written_bytes = r.output.written_bytes + n
      /\ q.output.read_bytes = r.output.read_bytes
  BY AssembleKeeps
<1> QED
  BY <1>2, <1>3, <1>4

\* What the end test does not touch.
LEMMA EndIs ==
    ASSUME NEW r, Core(r)
    PROVE  LET q == end_at_eof(r)
           IN  /\ q.bitmap = r.bitmap /\ q.eof_flag = r.eof_flag
               /\ q.output.written_bytes = r.output.written_bytes
               /\ q.output.read_bytes = r.output.read_bytes
<1>1. end_at_eof(r).eof_flag = r.eof_flag
  BY DEF end_at_eof, Core, ReassemblerType
<1> QED
  BY <1>1, EndAtEofKeeps

\* What a call of push_substring() is, seen from outside: the n bytes at the
\* front of what is now kept go to the output.
Pushed(r, q, i, j, is_eof, n) ==
    /\ q.eof_flag = (r.eof_flag \/ is_eof)
    /\ q.output.written_bytes = r.output.written_bytes + n
    /\ q.output.read_bytes = r.output.read_bytes
    /\ \A k \in 0..(n - 1) : Kept(r, i, j, k)
    /\ n < Capacity => ~Kept(r, i, j, n)
    /\ \A k \in 0..(Capacity - 1) : q.bitmap[k] <=> k + n < Capacity /\ Kept(r, i, j, k + n)

LEMMA PushIs ==
    ASSUME NEW r, Good(r), NEW i \in 0..N, NEW j \in 0..N, i <= j,
           NEW is_eof \in BOOLEAN, is_eof => j = N
    PROVE  \E n \in 0..Capacity :
               Pushed(r, push_substring(r, SubSeq(Source, i + 1, j), i, is_eof), i, j, is_eof, n)
<1> DEFINE data   == SubSeq(Source, i + 1, j)
           marked == end_at_eof(mark_eof(r, j, is_eof))
           stored == store(marked, data, i, j)
           joined == assemble(stored)
           q      == push_substring(r, data, i, is_eof)
           w      == r.output.written_bytes
           rd     == r.output.read_bytes
<1>1. /\ Core(r) /\ ~r.bitmap[0] /\ r.bitmap \in [0..(Capacity - 1) -> BOOLEAN]
      /\ w \in Nat /\ rd \in Nat /\ r.capacity = Capacity /\ rd <= w
  BY Fields DEF Good, Core, OutputGood
<1>2. N \in Nat /\ Capacity \in Nat \ {0}
  BY ReassemblerAssumption DEF N
<1>3. q = IF j <= w \/ i >= rd + Capacity THEN marked ELSE end_at_eof(joined)
  BY <1>1, EndOfData DEF push_substring, bytes_written, bytes_read
<1>4. /\ Core(marked) /\ marked.bitmap = r.bitmap /\ marked.eof_flag = (r.eof_flag \/ is_eof)
      /\ marked.output.written_bytes = w /\ marked.output.read_bytes = rd
  BY <1>1, MarkIs
<1> HIDE DEF marked, q, w, rd
<1>5. CASE j <= w \/ i >= rd + Capacity
  <2>1. q = marked
    BY <1>3, <1>5
  <2>2. ASSUME NEW k \in 0..(Capacity - 1) PROVE Kept(r, i, j, k) <=> r.bitmap[k]
    BY <1>1, <1>2, <1>5 DEF Kept, w, rd
  <2>3. ~Kept(r, i, j, 0)
    BY <1>1, <1>2, <2>2
  <2>4. \A k \in 0..(Capacity - 1) : q.bitmap[k] <=> k + 0 < Capacity /\ Kept(r, i, j, k + 0)
    BY <1>2, <1>4, <2>1, <2>2
  <2>5. Pushed(r, q, i, j, is_eof, 0)
    BY <1>1, <1>2, <1>4, <2>1, <2>3, <2>4 DEF Pushed, w, rd
  <2>6. 0 \in 0..Capacity
    BY <1>2
  <2> QED
    BY <2>5, <2>6 DEF q
<1>6. CASE ~(j <= w \/ i >= rd + Capacity)
  <2> DEFINE n == contiguous(stored)
  <2>1. /\ Core(stored) /\ stored.output = marked.output /\ stored.eof_flag = marked.eof_flag
        /\ \A k \in 0..(Capacity - 1) : stored.bitmap[k] <=> Kept(marked, i, j, k)
    BY <1>4, StoreIs
  <2> HIDE DEF stored
  <2>2. \A k : Kept(marked, i, j, k) <=> Kept(r, i, j, k)
    BY <1>4 DEF Kept, w, rd
  <2>3. /\ Core(joined) /\ joined.eof_flag = stored.eof_flag
        /\ joined.output.written_bytes = stored.output.written_bytes + n
        /\ joined.output.read_bytes = stored.output.read_bytes
        /\ \A k \in 0..(Capacity - 1) :
               joined.bitmap[k] <=> k + n < Capacity /\ stored.bitmap[k + n]
    BY <2>1, AssembleIs
  <2>4. n \in 0..Capacity /\ (\A k \in 0..(n - 1) : stored.bitmap[k]) /\ (n < Capacity => ~stored.bitmap[n])
    BY <2>1, ContiguousIs DEF Core
  <2> HIDE DEF joined, n
  <2>5. /\ q.bitmap = joined.bitmap /\ q.eof_flag = joined.eof_flag
        /\ q.output.written_bytes = joined.output.written_bytes
        /\ q.output.read_bytes = joined.output.read_bytes
    BY <1>3, <1>6, <2>3, EndIs
  <2>6. \A k \in 0..(Capacity - 1) : stored.bitmap[k] <=> Kept(r, i, j, k)
    BY <2>1, <2>2
  <2>7. \A k \in 0..(Capacity - 1) : q.bitmap[k] <=> k + n < Capacity /\ Kept(r, i, j, k + n)
    BY <1>2, <2>3, <2>4, <2>5, <2>6
  <2>8. (\A k \in 0..(n - 1) : Kept(r, i, j, k)) /\ (n < Capacity => ~Kept(r, i, j, n))
    BY <1>2, <2>4, <2>6
  <2>9. Pushed(r, q, i, j, is_eof, n)
    BY <1>4, <2>1, <2>3, <2>5, <2>7, <2>8 DEF Pushed, w, rd
  <2> QED
    BY <2>4, <2>9 DEF q
<1> QED
  BY <1>5, <1>6

-----------------------------------------------------------------------------
\* A push is the arrival of the same bytes.
LEMMA PushReceives ==
    ASSUME Good(reas), Good(reas'), NEW i \in 0..N, NEW j \in 0..N,
           NEW is_eof \in BOOLEAN, PushSubstring(i, j, is_eof)
    PROVE  Abs!AbsReceive(i, j, is_eof)
<1> DEFINE r     == reas
           w     == r.output.written_bytes
           rd    == r.output.read_bytes
           held  == {w + k : k \in {k \in 0..(Capacity - 1) : r.bitmap[k]}}
           kept  == held \cup ((i..(j - 1)) \cap (w..(rd + Capacity - 1)))
<1>1. i <= j /\ (is_eof => j = N)
  BY DEF PushSubstring
<1>2. PICK n \in 0..Capacity : Pushed(r, r', i, j, is_eof, n)
  BY <1>1, PushIs DEF PushSubstring
<1>3. /\ w \in Nat /\ rd \in Nat /\ rd <= w /\ w' \in Nat /\ w' <= N
      /\ N \in Nat /\ Capacity \in Nat \ {0}
  BY Fields, ReassemblerAssumption DEF Good, Core, OutputGood, N
<1>4. w' = w + n /\ rd' = rd /\ r'.eof_flag = (r.eof_flag \/ is_eof)
  BY <1>2 DEF Pushed
<1>5. ASSUME NEW k \in 0..(Capacity - 1) PROVE w + k \in kept <=> Kept(r, i, j, k)
  BY <1>3 DEF Kept
<1>6. \A x \in kept : x \in w..(w + Capacity - 1)
  BY <1>3
<1> DEFINE Front(x) == x \notin kept /\ \A k \in w..(x - 1) : k \in kept
<1>7. Front(w + n)
  <2>1. w + n \notin kept
    <3> HIDE DEF kept, w, rd, held
    <3>1. CASE n = Capacity
      BY <1>3, <1>6, <3>1
    <3>2. CASE n < Capacity
      BY <1>2, <1>3, <1>5, <3>2 DEF Pushed
    <3> QED
      BY <1>3, <3>1, <3>2
  <2>2. ASSUME NEW x \in w..((w + n) - 1) PROVE x \in kept
    <3> HIDE DEF kept, w, rd, held
    <3>1. x - w \in 0..(n - 1) /\ x - w \in 0..(Capacity - 1) /\ w + (x - w) = x
      BY <1>3
    <3>2. Kept(r, i, j, x - w)
      BY <1>2, <3>1 DEF Pushed
    <3> QED
      BY <1>5, <3>1, <3>2
  <2> HIDE DEF kept, w
  <2> QED
    BY <2>1, <2>2, Zenon
<1>8. ASSUME NEW x \in w..N, Front(x) PROVE x = w + n
  <2> HIDE DEF kept, w, rd, held
  <2>1. CASE x < w + n
    BY <1>3, <1>7, <1>8, <2>1
  <2>2. CASE x > w + n
    BY <1>3, <1>7, <1>8, <2>2
  <2> QED
    BY <1>3, <2>1, <2>2
<1>9. w + n \in w..N
  BY <1>3, <1>4
<1>10. (CHOOSE x \in w..N : Front(x)) = w + n
  <2> HIDE DEF Front
  <2> QED
    BY <1>7, <1>8, <1>9
<1>11. held' = {x \in kept : x >= w + n}
  <2> HIDE DEF kept, w, rd
  <2>1. ASSUME NEW k \in 0..(Capacity - 1), r'.bitmap[k]
        PROVE  w' + k \in kept /\ w' + k >= w + n
    <3>1. k + n \in 0..(Capacity - 1) /\ Kept(r, i, j, k + n)
      BY <1>2, <1>3, <2>1 DEF Pushed
    <3> QED
      BY <1>3, <1>4, <1>5, <3>1
  <2>2. ASSUME NEW x \in kept, x >= w + n
        PROVE  \E k \in 0..(Capacity - 1) : r'.bitmap[k] /\ x = w' + k
    <3> DEFINE k == x - (w + n)
    <3>1. x \in w..(w + Capacity - 1)
      BY <1>6
    <3>2. /\ k \in 0..(Capacity - 1) /\ k + n < Capacity /\ x = w' + k
          /\ k + n \in 0..(Capacity - 1) /\ w + (k + n) = x
      BY <1>3, <1>4, <2>2, <3>1
    <3> HIDE DEF k
    <3>3. Kept(r, i, j, k + n)
      BY <1>5, <3>2
    <3>4. r'.bitmap[k]
      BY <1>2, <3>2, <3>3 DEF Pushed
    <3> QED
      BY <3>2, <3>4
  <2>3. \A x : x \in held' <=> \E k \in 0..(Capacity - 1) : r'.bitmap[k] /\ x = w' + k
    OBVIOUS
  <2> HIDE DEF held
  <2>4. \A x : x \in held' <=> x \in kept /\ x >= w + n
    BY <2>1, <2>2, <2>3
  <2> QED
    BY <2>4
<1>12. r'.output.end_write = (r'.eof_flag /\ w + n = N)
  <2>1. r'.output.end_write \in BOOLEAN /\ r'.eof_flag \in BOOLEAN
    BY Fields DEF Good, Core
  <2>2. r'.output.end_write <=> r'.eof_flag /\ r'.output.written_bytes = N
    BY <2>1 DEF Good, Core
  <2> QED
    BY <1>4, <2>1, <2>2
<1> QED
  BY <1>1, <1>4, <1>10, <1>11, <1>12
     DEF Abs!AbsReceive, reas_out, stream_out, bytes_read, bytes_written, input_ended

\* A read that is granted takes bytes that have been passed on; a refused one
\* changes nothing that the abstraction sees.
LEMMA ReadReads ==
    ASSUME Good(reas), NEW len \in 1..(Capacity + 1), ReadOutput(len)
    PROVE  (\E n \in 1..Capacity : Abs!AbsRead(n)) \/ UNCHANGED Abs!absVars
<1> DEFINE r == reas
           o == read(r.output, len)
<1>1. /\ r \in ReassemblerType(Byte, Capacity) /\ r.output \in ByteStreamType(Byte)
      /\ r.output.written_bytes \in Nat /\ r.output.read_bytes \in Nat
      /\ Len(r.output.buffer) = r.output.written_bytes - r.output.read_bytes
      /\ r.output.written_bytes <= r.output.read_bytes + Capacity
      /\ Capacity \in Nat
  BY Fields, ReassemblerAssumption DEF Good, Core, OutputGood
<1>2. r' = [r EXCEPT !.output = o]
  BY DEF ReadOutput
<1>3. r'.output = o /\ r'.bitmap = r.bitmap /\ r'.eof_flag = r.eof_flag
  BY <1>1, <1>2 DEF ReassemblerType
<1>4. CASE len > Len(r.output.buffer)
  <2>1. /\ o.written_bytes = r.output.written_bytes /\ o.read_bytes = r.output.read_bytes
        /\ o.end_write = r.output.end_write
    BY <1>1, <1>4 DEF read, pop_output, set_error, ByteStreamType
  <2> QED
    BY <1>3, <2>1 DEF Abs!absVars, reas_out, stream_out, bytes_read, bytes_written, input_ended
<1>5. CASE ~(len > Len(r.output.buffer))
  <2>1. /\ o.written_bytes = r.output.written_bytes /\ o.end_write = r.output.end_write
        /\ o.read_bytes = r.output.read_bytes + len
    BY <1>1, <1>5 DEF read, pop_output, ByteStreamType
  <2>2. len \in 1..Capacity /\ r.output.read_bytes + len <= r.output.written_bytes
    BY <1>1, <1>5
  <2>3. Abs!AbsRead(len)
    BY <1>3, <2>1, <2>2 DEF Abs!AbsRead, reas_out, stream_out, bytes_read, bytes_written, input_ended
  <2> QED
    BY <2>2, <2>3
<1> QED
  BY <1>4, <1>5

LEMMA AlwaysGood == ReasSpec => []Good(reas)
<1>1. ReasInit => Good(reas)
  BY NewIsGood DEF ReasInit
<1>2. Good(reas) /\ [ReasNext]_reas => Good(reas)'
  BY StepKeeps
<1> QED
  BY <1>1, <1>2, PTL DEF ReasSpec

\* The reassembler implements its abstract specification, whatever the
\* capacity and the stream: push_substring() keeps exactly the bytes that lie
\* within the capacity of the first unread one, passes on every byte all of
\* whose predecessors have been passed on, and ends the output when the end is
\* known and reached.
THEOREM ReassemblerImplements == ReasSpec => ImplementsAbstract
<1>1. ReasInit => Abs!AbsInit
  <2> SUFFICES ASSUME ReasInit PROVE Abs!AbsInit
    OBVIOUS
  <2>1. /\ reas.bitmap = [k \in 0..(Capacity - 1) |-> FALSE]
        /\ reas.eof_flag = FALSE
        /\ reas.output.read_bytes = 0 /\ reas.output.written_bytes = 0
        /\ reas.output.end_write = FALSE
    BY DEF ReasInit, NewStreamReassembler, NewByteStream
  <2> QED
    BY <2>1 DEF Abs!AbsInit, reas_out, stream_out, bytes_read, bytes_written, input_ended
<1>2. Good(reas) /\ Good(reas)' /\ [ReasNext]_reas
      => [Abs!AbsNext]_(Abs!absVars)
  <2> SUFFICES ASSUME Good(reas), Good(reas'), [ReasNext]_reas
               PROVE  Abs!AbsNext \/ UNCHANGED Abs!absVars
    OBVIOUS
  <2>1. ASSUME NEW i \in 0..N, NEW j \in 0..N, NEW is_eof \in BOOLEAN,
               PushSubstring(i, j, is_eof)
        PROVE  Abs!AbsNext
    BY <2>1, PushReceives DEF Abs!AbsNext
  <2>2. ASSUME NEW len \in 1..(Capacity + 1), ReadOutput(len)
        PROVE  Abs!AbsNext \/ UNCHANGED Abs!absVars
    BY <2>2, ReadReads DEF Abs!AbsNext
  <2>3. CASE UNCHANGED reas
    BY <2>3 DEF Abs!absVars, reas_out, stream_out, bytes_read, bytes_written, input_ended
  <2> QED
    BY <2>1, <2>2, <2>3 DEF ReasNext
<1> QED
  BY <1>1, <1>2, AlwaysGood, PTL DEF ReasSpec, ImplementsAbstract, Abs!AbsSpec

-----------------------------------------------------------------------------
\* The receiver.

\* What holds between two calls: the reassembler is Good, and all it knows of
\* the stream has arrived.
Arrived(r, numbers) ==
    /\ \A n \in 1..r.output.written_bytes : n \in numbers
    /\ \A k \in Marked(r) : r.output.written_bytes + k + 1 \in numbers
    /\ r.eof_flag => N + 1 \in numbers

RecvInv ==
    /\ Good(reassembler)
    /\ receiver_isn \in {nullopt, PeerISN}
    /\ receiver_isn = nullopt <=> 0 \notin arrived
    /\ Arrived(reassembler, arrived)

-----------------------------------------------------------------------------
\* The widths.
LEMMA Widths ==
    /\ N \in Nat /\ Capacity \in Nat \ {0} /\ Source \in Seq(Byte)
    /\ AbsMod \in Nat \ {0} /\ AbsMod = 2 * HalfAbs /\ HalfAbs \in Nat
    /\ HalfSeq \in Nat /\ Capacity < HalfSeq /\ N + HalfSeq + 2 < HalfAbs
    /\ PeerISN \in WrappingInt32 /\ PeerISN \in Nat
<1>1. AbsMod \in Nat \ {0} /\ AbsMod = 2 * HalfAbs /\ HalfAbs \in Nat
  BY AbsModAssumption DEF HalfAbs
<1>2. SeqMod \in Nat /\ HalfSeq \in Nat
  BY SeqModAssumption DEF HalfSeq
<1> QED
  BY <1>1, <1>2, ReceiverAssumption DEF N, WrappingInt32

\* An end test between two calls finds nothing new.
LEMMA EndAgain ==
    ASSUME NEW r, Good(r), NEW end
    PROVE  LET q == end_at_eof(mark_eof(r, end, FALSE))
           IN  /\ Good(q) /\ Core(q) /\ q.bitmap = r.bitmap /\ q.eof_flag = r.eof_flag
               /\ q.output.written_bytes = r.output.written_bytes
               /\ q.output.read_bytes = r.output.read_bytes
<1> DEFINE t == mark_eof(r, end, FALSE)
           q == end_at_eof(t)
<1>1. t = r
  BY DEF mark_eof
<1>2. Core(r) /\ ~r.bitmap[0] /\ r.eof_flag \in BOOLEAN
  BY Fields DEF Good, Core
<1>3. /\ Core(q) /\ q.bitmap = r.bitmap
      /\ q.output.written_bytes = r.output.written_bytes
      /\ q.output.read_bytes = r.output.read_bytes
      /\ q.eof_flag /\ q.output.written_bytes = N => q.output.end_write
  BY <1>1, <1>2, EndAtEofKeeps
<1>4. q.eof_flag = r.eof_flag
  BY <1>1, <1>2, EndIs
<1> QED
  BY <1>2, <1>3, <1>4 DEF Good

\* A push of no bytes that does not announce the end changes nothing, wherever
\* its index may be.
LEMMA EmptyPush ==
    ASSUME NEW r, Good(r), NEW index \in 0..(AbsMod - 1)
    PROVE  LET q == push_substring(r, <<>>, index, FALSE)
           IN  Good(q) /\ Pushed(r, q, 0, 0, FALSE, 0)
<1> DEFINE marked == end_at_eof(mark_eof(r, index, FALSE))
           stored == store(marked, <<>>, index, index)
           q      == push_substring(r, <<>>, index, FALSE)
           w      == r.output.written_bytes
           u      == r.output.read_bytes + Capacity
<1>1. /\ r.bitmap \in [0..(Capacity - 1) -> BOOLEAN] /\ ~r.bitmap[0] /\ r.capacity = Capacity
      /\ w \in Nat /\ u \in Nat /\ index \in Nat /\ Capacity \in Nat \ {0}
  BY Fields, Widths DEF Good, Core
<1>2. add64(index, Len(<<>>)) = index
  <2>1. index + Len(<<>>) = index
    BY <1>1, EmptySeq
  <2> QED
    BY <2>1, Widths, ModSmall DEF add64
<1>3. /\ Good(marked) /\ Core(marked) /\ marked.bitmap = r.bitmap
      /\ marked.eof_flag = r.eof_flag
      /\ marked.output.written_bytes = w
      /\ marked.output.read_bytes = r.output.read_bytes
  BY EndAgain
<1>4. q = IF index <= w \/ index >= u THEN marked ELSE end_at_eof(assemble(stored))
  BY <1>1, <1>2 DEF push_substring, bytes_written, bytes_read
<1>5. \A k \in 0..(Capacity - 1) : Kept(r, 0, 0, k) <=> r.bitmap[k]
  BY <1>1 DEF Kept
<1> HIDE DEF marked, w, u, q
<1>6. ASSUME NEW t, Good(t), t.bitmap = r.bitmap, t.eof_flag = r.eof_flag,
             t.output.written_bytes = w, t.output.read_bytes = r.output.read_bytes
      PROVE  Pushed(r, t, 0, 0, FALSE, 0)
  <2>1. \A k \in 0..(Capacity - 1) : t.bitmap[k] <=> k + 0 < Capacity /\ Kept(r, 0, 0, k + 0)
    BY <1>1, <1>5, <1>6
  <2>2. r.eof_flag \in BOOLEAN /\ 0 \in 0..(Capacity - 1)
    BY <1>1, Fields DEF Good, Core
  <2> QED
    BY <1>1, <1>5, <1>6, <2>1, <2>2 DEF Pushed, w
<1>7. CASE index <= w \/ index >= u
  BY <1>3, <1>4, <1>6, <1>7 DEF q
<1>8. CASE ~(index <= w \/ index >= u)
  <2> DEFINE none == store(marked, SubSeq(Source, N + 1, N), N, N)
             n    == contiguous(none)
  <2>1. /\ Core(none) /\ none.output = marked.output /\ none.eof_flag = marked.eof_flag
        /\ \A k \in 0..(Capacity - 1) : none.bitmap[k] <=> Kept(marked, N, N, k)
    BY <1>3, StoreIs, Widths
  <2>2. \A k \in 0..(Capacity - 1) : Kept(marked, N, N, k) <=> r.bitmap[k]
    <3>1. \A k \in 0..(Capacity - 1) : ~(N <= w + k /\ w + k < N)
      BY <1>1, Widths
    <3> QED
      BY <1>3, <3>1 DEF Kept
  <2>3. covered(marked, index, index) = {} /\ covered(marked, N, N) = {}
    <3>1. marked.capacity = Capacity
      BY <1>3, Fields DEF Core
    <3>2. \A x \in Nat : covered(marked, x, x) = (max(x, w) - w)..(min(x, u) - w - 1)
      BY <1>3, <3>1 DEF covered, bytes_written, bytes_read, u
    <3>3. \A x \in Nat : max(x, w) - w > min(x, u) - w - 1 /\ max(x, w) - w \in Int /\ min(x, u) - w - 1 \in Int
      BY <1>1 DEF max, min
    <3>4. \A x \in Nat : covered(marked, x, x) = {}
      BY <3>2, <3>3
    <3> QED
      BY <1>1, <3>4, Widths
  <2>4. stored = none
    BY <2>3 DEF store
  <2>5. none.bitmap = r.bitmap
    <3>1. none.bitmap \in [0..(Capacity - 1) -> BOOLEAN]
      BY <2>1, Fields DEF Core
    <3> QED
      BY <1>1, <2>1, <2>2, <3>1
  <2> HIDE DEF none, stored
  <2>6. n = 0
    <3>1. /\ n \in 0..Capacity
          /\ \A k \in 0..(n - 1) : none.bitmap[k]
      BY <2>1, ContiguousIs DEF Core
    <3> HIDE DEF n
    <3> QED
      BY <1>1, <2>5, <3>1
  <2> DEFINE joined == assemble(none)
  <2>7. /\ Core(joined) /\ ~joined.bitmap[0] /\ joined.eof_flag = none.eof_flag
        /\ joined.output.written_bytes = none.output.written_bytes + n
        /\ joined.output.read_bytes = none.output.read_bytes
        /\ \A k \in 0..(Capacity - 1) :
               joined.bitmap[k] <=> k + n < Capacity /\ none.bitmap[k + n]
    BY <2>1, AssembleIs
  <2> HIDE DEF joined, n
  <2>8. joined.bitmap = r.bitmap
    <3>1. joined.bitmap \in [0..(Capacity - 1) -> BOOLEAN]
      BY <2>7, Fields DEF Core
    <3>2. \A k \in 0..(Capacity - 1) : joined.bitmap[k] <=> r.bitmap[k]
      BY <1>1, <2>5, <2>6, <2>7
    <3> QED
      BY <1>1, <3>1, <3>2
  <2>9. /\ joined.eof_flag = r.eof_flag /\ joined.output.written_bytes = w
        /\ joined.output.read_bytes = r.output.read_bytes
    BY <1>1, <1>3, <2>1, <2>6, <2>7
  <2>10. q = end_at_eof(joined)
    BY <1>4, <1>8, <2>4 DEF joined
  <2>11. /\ Core(q) /\ q.bitmap = joined.bitmap /\ q.eof_flag = joined.eof_flag
         /\ q.output.written_bytes = joined.output.written_bytes
         /\ q.output.read_bytes = joined.output.read_bytes
         /\ q.eof_flag /\ q.output.written_bytes = N => q.output.end_write
    BY <2>7, <2>10, EndIs, EndAtEofKeeps
  <2>12. Good(q)
    BY <1>1, <2>8, <2>11 DEF Good
  <2> QED
    BY <1>6, <2>8, <2>9, <2>11, <2>12 DEF q
<1> QED
  BY <1>7, <1>8

-----------------------------------------------------------------------------
\* The receiver recovers the absolute number of a segment that is less than
\* half the 32-bit space away from what it has written.
LEMMA IndexIs ==
    ASSUME NEW isn \in WrappingInt32, NEW a \in 0..(N + 2), NEW seg,
           seg.seqno = wrap(a, isn), seg.syn \in BOOLEAN,
           bytes_written(out) \in 0..N, Alive(a)
    PROVE  /\ a = 0 /\ seg.syn => stream_index(seg, isn) = 0
           /\ a = 0 /\ ~seg.syn => stream_index(seg, isn) = AbsMod - 1
           /\ a > 0 /\ ~seg.syn => stream_index(seg, isn) = a - 1
<1> DEFINE w == bytes_written(out)
<1>1. /\ a \in 0..(HalfAbs - 1) /\ w \in 0..(HalfAbs - 1)
      /\ a - w \in (-HalfSeq)..(HalfSeq - 1)
  BY Widths DEF Alive
<1>2. unwrap(seg.seqno, isn, w) = a
  BY <1>1, UnwrapWrap
<1>3. stream_index(seg, isn) = add64(sub64(a, 1), IF seg.syn THEN 1 ELSE 0)
  BY <1>2 DEF stream_index
<1> HIDE DEF w
<1>4. CASE a = 0
  <2>1. (0 - 1) % AbsMod = AbsMod - 1
    <3>1. /\ 0 - 1 = AbsMod * (-1) + (AbsMod - 1) /\ 0 - 1 \in Int /\ -1 \in Int
          /\ AbsMod - 1 \in 0..(AbsMod - 1)
      BY Widths
    <3> QED
      BY <3>1, Widths, ModUnique, Zenon
  <2>2. sub64(a, 1) = AbsMod - 1
    BY <1>4, <2>1 DEF sub64
  <2>3. ((AbsMod - 1) + 1) % AbsMod = 0
    <3>1. (AbsMod - 1) + 1 = AbsMod * 1 + 0 /\ (AbsMod - 1) + 1 \in Int /\ 0 \in 0..(AbsMod - 1)
      BY Widths
    <3> QED
      BY <3>1, Widths, ModUnique
  <2>4. ((AbsMod - 1) + 0) % AbsMod = AbsMod - 1
    <3>1. (AbsMod - 1) + 0 = AbsMod - 1 /\ AbsMod - 1 \in 0..(AbsMod - 1)
      BY Widths
    <3> QED
      BY <3>1, Widths, ModSmall
  <2> QED
    BY <1>3, <1>4, <2>2, <2>3, <2>4 DEF add64
<1>5. CASE a > 0
  <2>1. a - 1 \in 0..(AbsMod - 1) /\ (a - 1) + 0 = a - 1
    BY <1>1, <1>5, Widths
  <2>2. (a - 1) % AbsMod = a - 1
    BY <2>1, Widths, ModSmall
  <2> QED
    BY <1>3, <1>5, <2>1, <2>2 DEF add64, sub64
<1> QED
  BY <1>4, <1>5, Widths

\* Such a segment pushes the bytes it carries, and nothing else, at their own
\* place; one that carries none pushes nothing.
LEMMA SegmentPushes ==
    ASSUME Good(reassembler), NEW isn \in WrappingInt32,
           NEW a \in 0..(N + 2), NEW b \in 0..(N + 2), a <= b, Alive(a),
           NEW seg, seg = SegmentFrom(isn, a, b),
           NEW q, q = push_substring(reassembler, seg.payload, stream_index(seg, isn), seg.fin)
    PROVE  /\ Good(q)
           /\ \E i, j \in 0..N : \E n \in 0..Capacity :
                  /\ \A m \in Nat : m \in (i + 1)..j <=> m \in a..(b - 1) /\ m \in 1..N
                  /\ Pushed(reassembler, q, i, j, seg.fin, n)
<1> DEFINE r == reassembler
           lo == max(a, 1)
           hi == min(b - 1, N)
<1>1. /\ seg.seqno = wrap(a, isn) /\ seg.syn = (a = 0 /\ b > 0) /\ seg.fin = (a < b /\ b = N + 2)
      /\ seg.payload = SubSeq(Source, lo, hi)
  BY DEF SegmentFrom, Segment
<1>2. bytes_written(out) \in 0..N
  <2>1. OutputGood(reassembler.output) /\ reassembler.output.written_bytes \in Nat /\ N \in Nat
    BY Fields, Widths DEF Good, Core
  <2>2. reassembler.output.written_bytes <= N
    BY <2>1 DEF OutputGood
  <2> QED
    BY <2>1, <2>2 DEF out, stream_out, bytes_written
<1>3. /\ N \in Nat /\ seg.syn \in BOOLEAN /\ seg.fin \in BOOLEAN
      /\ seg.syn <=> a = 0 /\ b > 0
      /\ seg.fin <=> a < b /\ b = N + 2
  BY <1>1, Widths, Zenon
<1>4. CASE a < b
  <2> DEFINE i == lo - 1
             j == hi
  <2>1. i \in 0..N /\ j \in 0..N /\ i <= j /\ i + 1 = lo
    BY <1>3, <1>4 DEF max, min
  <2>2. stream_index(seg, isn) = i
    <3>1. CASE a = 0
      <4>1. seg.syn /\ i = 0
        BY <1>3, <1>4, <3>1 DEF max
      <4> HIDE DEF i
      <4> QED
        BY <1>1, <1>2, <1>3, <3>1, <4>1, IndexIs, Zenon
    <3>2. CASE a > 0
      <4>1. ~seg.syn /\ i = a - 1
        BY <1>3, <3>2 DEF max
      <4> HIDE DEF i
      <4> QED
        BY <1>1, <1>2, <1>3, <3>2, <4>1, IndexIs, Zenon
    <3>3. a = 0 \/ a > 0
      BY <1>3
    <3> QED
      BY <3>1, <3>2, <3>3
  <2>3. seg.fin => j = N
    BY <1>3 DEF min
  <2>4. \A m \in Nat : m \in (i + 1)..j <=> m \in a..(b - 1) /\ m \in 1..N
    BY <1>3 DEF max, min
  <2>5. q = push_substring(r, SubSeq(Source, i + 1, j), i, seg.fin)
    BY <1>1, <2>1, <2>2
  <2> HIDE DEF i, j
  <2>6. Good(q)
    BY <1>3, <2>1, <2>3, <2>5, PushKeeps
  <2>7. \E n \in 0..Capacity : Pushed(r, q, i, j, seg.fin, n)
    BY <1>3, <2>1, <2>3, <2>5, PushIs
  <2> QED
    BY <2>1, <2>4, <2>6, <2>7
<1>5. CASE a = b
  <2>1. seg.fin = FALSE /\ seg.syn = FALSE
    <3>1. ~(a = 0 /\ b > 0) /\ ~(a < b)
      BY <1>3, <1>5
    <3> QED
      BY <1>3, <3>1, Zenon
  <2>2. seg.payload = <<>>
    <3>1. lo > hi /\ lo \in Int /\ hi \in Int
      BY <1>3, <1>5 DEF max, min
    <3> QED
      BY <1>1, <3>1, Widths, SubSeqEmpty, Zenon
  <2>3. stream_index(seg, isn) \in 0..(AbsMod - 1)
    <3>1. stream_index(seg, isn) = AbsMod - 1 \/ (a > 0 /\ stream_index(seg, isn) = a - 1)
      <4>1. a = 0 \/ a > 0
        BY <1>3
      <4> QED
        BY <1>1, <1>2, <1>3, <2>1, <4>1, IndexIs, Zenon
    <3> QED
      BY <3>1, Widths
  <2>4. Good(q) /\ Pushed(r, q, 0, 0, FALSE, 0)
    BY <2>1, <2>2, <2>3, EmptyPush
  <2>5. \A m \in Nat : m \in (0 + 1)..0 <=> m \in a..(b - 1) /\ m \in 1..N
    BY <1>3, <1>5
  <2>6. 0 \in 0..N /\ 0 \in 0..Capacity
    BY Widths
  <2> QED
    BY <2>1, <2>4, <2>5, <2>6
<1> QED
  BY <1>3, <1>4, <1>5

-----------------------------------------------------------------------------
\* Two states of a reassembler between which nothing is forgotten.
Grows(r, q) ==
    /\ q.output.written_bytes >= r.output.written_bytes
    /\ q.output.read_bytes >= r.output.read_bytes
    /\ r.output.end_write => q.output.end_write

\* What ackno() and window_size() are computed from.
LEMMA EdgeIs ==
    ASSUME NEW r, Good(r)
    PROVE  /\ r.output.written_bytes \in 0..N /\ r.output.read_bytes \in 0..r.output.written_bytes
           /\ r.output.end_write <=> r.eof_flag /\ r.output.written_bytes = N
           /\ abs_ackno(r) = r.output.written_bytes + 1 + (IF r.output.end_write THEN 1 ELSE 0)
           /\ window_size(r) = r.output.read_bytes + Capacity - r.output.written_bytes
           /\ window_size(r) \in 0..Capacity
<1>1. /\ r.output.written_bytes \in Nat /\ r.output.read_bytes \in Nat /\ Capacity \in Nat /\ N \in Nat
      /\ r.output.written_bytes <= N /\ r.output.read_bytes <= r.output.written_bytes
      /\ r.output.written_bytes <= r.output.read_bytes + Capacity
      /\ r.output.capacity = Capacity
      /\ Len(r.output.buffer) = r.output.written_bytes - r.output.read_bytes
  BY Fields, Widths DEF Good, Core, OutputGood
<1>2. window_size(r) = Capacity - (r.output.written_bytes - r.output.read_bytes)
  BY <1>1 DEF window_size, remaining_capacity
<1>3. r.output.end_write <=> r.eof_flag /\ r.output.written_bytes = N
  BY DEF Good, Core
<1>4. abs_ackno(r) = r.output.written_bytes + 1 + (IF r.output.end_write THEN 1 ELSE 0)
  BY DEF abs_ackno, bytes_written, input_ended
<1>5. /\ r.output.written_bytes \in 0..N /\ r.output.read_bytes \in 0..r.output.written_bytes
      /\ window_size(r) = r.output.read_bytes + Capacity - r.output.written_bytes
      /\ window_size(r) \in 0..Capacity
  <2> DEFINE w == r.output.written_bytes
             v == r.output.read_bytes
             z == window_size(r)
  <2>1. /\ w \in Nat /\ v \in Nat /\ Capacity \in Nat /\ N \in Nat
        /\ w <= N /\ v <= w /\ w <= v + Capacity /\ z = Capacity - (w - v)
    BY <1>1, <1>2, Zenon
  <2> HIDE DEF w, v, z
  <2>2. w \in 0..N /\ v \in 0..w /\ z = v + Capacity - w /\ z \in 0..Capacity
    BY <2>1
  <2> QED
    BY <2>2, Zenon DEF w, v, z
<1> QED
  BY <1>3, <1>4, <1>5, Zenon

\* Neither ackno nor the right edge of the window retreats while nothing is
\* forgotten.
LEMMA EdgeGrows ==
    ASSUME NEW r, NEW q, Good(r), Good(q), Grows(r, q)
    PROVE  /\ abs_ackno(q) >= abs_ackno(r)
           /\ abs_ackno(q) + window_size(q) >= abs_ackno(r) + window_size(r)
<1> DEFINE er == IF r.output.end_write THEN 1 ELSE 0
           eq == IF q.output.end_write THEN 1 ELSE 0
<1>1. er \in 0..1 /\ eq \in 0..1 /\ er <= eq
  BY DEF Grows
<1>2. /\ abs_ackno(r) = r.output.written_bytes + 1 + er
      /\ abs_ackno(q) = q.output.written_bytes + 1 + eq
  BY EdgeIs
<1> HIDE DEF er, eq
<1>3. /\ r.output.written_bytes \in Nat /\ r.output.read_bytes \in Nat
      /\ q.output.written_bytes \in Nat /\ q.output.read_bytes \in Nat
      /\ window_size(r) = r.output.read_bytes + Capacity - r.output.written_bytes
      /\ window_size(q) = q.output.read_bytes + Capacity - q.output.written_bytes
      /\ Capacity \in Nat
  BY EdgeIs, Widths
<1> QED
  BY <1>1, <1>2, <1>3 DEF Grows

\* A push forgets nothing.
LEMMA PushGrows ==
    ASSUME NEW r, NEW q, Good(r), Good(q), NEW i, NEW j, NEW is_eof, NEW n \in 0..Capacity,
           Pushed(r, q, i, j, is_eof, n)
    PROVE  Grows(r, q)
<1>1. /\ q.eof_flag = (r.eof_flag \/ is_eof)
      /\ q.output.written_bytes = r.output.written_bytes + n
      /\ q.output.read_bytes = r.output.read_bytes
  BY DEF Pushed
<1>2. /\ r.output.written_bytes \in 0..N /\ q.output.written_bytes \in 0..N
      /\ r.output.read_bytes \in Nat /\ N \in Nat /\ Capacity \in Nat
      /\ r.output.end_write <=> r.eof_flag /\ r.output.written_bytes = N
      /\ q.output.end_write <=> q.eof_flag /\ q.output.written_bytes = N
  BY EdgeIs, Widths
<1>3. q.output.written_bytes >= r.output.written_bytes /\ q.output.read_bytes >= r.output.read_bytes
  BY <1>1, <1>2
<1>4. r.output.written_bytes = N => q.output.written_bytes = N
  BY <1>1, <1>2
<1>5. r.eof_flag => q.eof_flag
  BY <1>1
<1> QED
  BY <1>2, <1>3, <1>4, <1>5 DEF Grows

\* Whatever a push adds to what the reassembler knows was in the segment.
LEMMA PushArrives ==
    ASSUME NEW r, NEW q, Good(r), Good(q),
           NEW i \in 0..N, NEW j \in 0..N, NEW is_eof, NEW n \in 0..Capacity,
           Pushed(r, q, i, j, is_eof, n),
           NEW S, NEW T, Arrived(r, S), S \subseteq T,
           \A m \in (i + 1)..j : m \in T, is_eof => N + 1 \in T
    PROVE  Arrived(q, T)
<1> DEFINE w == r.output.written_bytes
<1>1. /\ w \in Nat /\ Capacity \in Nat /\ N \in Nat
      /\ q.output.written_bytes = w + n /\ q.eof_flag = (r.eof_flag \/ is_eof)
  BY EdgeIs, Widths DEF Pushed
<1>2. ASSUME NEW k \in 0..(Capacity - 1), Kept(r, i, j, k)
      PROVE  w + k + 1 \in T
  <2>1. CASE r.bitmap[k]
    BY <2>1 DEF Arrived, Marked
  <2>2. CASE i <= w + k /\ w + k < j
    <3>1. w + k + 1 \in (i + 1)..j
      BY <1>1, <2>2
    <3> QED
      BY <3>1
  <2> QED
    BY <1>2, <2>1, <2>2 DEF Kept
<1>3. \A m \in 1..w : m \in T
  BY DEF Arrived
<1> HIDE DEF w
<1>4. ASSUME NEW m \in 1..(w + n) PROVE m \in T
  <2>1. CASE m <= w
    BY <1>1, <1>3, <2>1
  <2>2. CASE m > w
    <3>1. m - w - 1 \in 0..(n - 1) /\ m - w - 1 \in 0..(Capacity - 1) /\ w + (m - w - 1) + 1 = m
      BY <1>1, <2>2
    <3>2. Kept(r, i, j, m - w - 1)
      BY <3>1 DEF Pushed
    <3> QED
      BY <1>2, <3>1, <3>2
  <2> QED
    BY <1>1, <2>1, <2>2
<1>5. ASSUME NEW k \in 0..(Capacity - 1), q.bitmap[k] PROVE (w + n) + k + 1 \in T
  <2>1. k + n \in 0..(Capacity - 1) /\ Kept(r, i, j, k + n)
    BY <1>1, <1>5 DEF Pushed
  <2>2. w + (k + n) + 1 = (w + n) + k + 1
    BY <1>1
  <2>3. w + (k + n) + 1 \in T
    BY <1>2, <2>1
  <2> QED
    BY <2>2, <2>3
<1>6. q.eof_flag => N + 1 \in T
  BY <1>1 DEF Arrived
<1> QED
  BY <1>1, <1>4, <1>5, <1>6 DEF Arrived, Marked

\* Reading takes bytes away from the output and nothing else.
LEMMA ReadOnlyReads ==
    ASSUME NEW r, Good(r), NEW len \in Nat, NEW q, q = [r EXCEPT !.output = read(@, len)]
    PROVE  /\ Good(q) /\ Grows(r, q) /\ Marked(q) = Marked(r) /\ q.eof_flag = r.eof_flag
           /\ q.output.written_bytes = r.output.written_bytes
           /\ q.output.end_write = r.output.end_write
<1> DEFINE o == read(r.output, len)
<1>1. /\ r \in ReassemblerType(Byte, Capacity) /\ r.output \in ByteStreamType(Byte)
      /\ r.output.written_bytes \in Nat /\ r.output.read_bytes \in Nat
  BY Fields DEF Good, Core
<1>2. Good(q)
  BY ReadKeepsGood
<1>3. q.output = o /\ q.bitmap = r.bitmap /\ q.eof_flag = r.eof_flag
  BY <1>1 DEF ReassemblerType
<1>4. /\ o.written_bytes = r.output.written_bytes /\ o.end_write = r.output.end_write
      /\ o.read_bytes = r.output.read_bytes \/ o.read_bytes = r.output.read_bytes + len
  BY <1>1 DEF read, pop_output, set_error, ByteStreamType
<1>5. o.read_bytes >= r.output.read_bytes
  BY <1>1, <1>4
<1>6. Marked(q) = Marked(r)
  BY <1>3 DEF Marked
<1> QED
  BY <1>1, <1>2, <1>3, <1>4, <1>5, <1>6 DEF Grows

\* Nor does giving up touch anything but the error flag.
LEMMA ErrorOnlyMarks ==
    ASSUME NEW r, Good(r), NEW q, q = [r EXCEPT !.output = set_error(@)]
    PROVE  /\ Good(q) /\ Grows(r, q) /\ Marked(q) = Marked(r) /\ q.eof_flag = r.eof_flag
           /\ q.output.written_bytes = r.output.written_bytes
<1> DEFINE o == set_error(r.output)
<1>1. /\ r \in ReassemblerType(Byte, Capacity) /\ r.output \in ByteStreamType(Byte)
      /\ r.output.written_bytes \in Nat /\ r.output.read_bytes \in Nat
  BY Fields DEF Good, Core
<1>2. /\ o \in ByteStreamType(Byte)
      /\ o.buffer = r.output.buffer /\ o.capacity = r.output.capacity
      /\ o.written_bytes = r.output.written_bytes /\ o.read_bytes = r.output.read_bytes
      /\ o.end_write = r.output.end_write
  BY <1>1 DEF set_error, ByteStreamType
<1>3. /\ q.output = o /\ q.bitmap = r.bitmap /\ q.eof_flag = r.eof_flag
      /\ q.buffer = r.buffer /\ q.eof_index = r.eof_index
      /\ q.unassembled_bytes = r.unassembled_bytes
  BY <1>1 DEF ReassemblerType
<1>4. q \in ReassemblerType(Byte, Capacity)
  BY <1>1, <1>2 DEF ReassemblerType
<1> HIDE DEF o
<1>5. Marked(q) = Marked(r)
  BY <1>3 DEF Marked
<1>6. OutputGood(q.output) /\ WindowGood(q)
  BY <1>2, <1>3, <1>5 DEF Good, Core, OutputGood, WindowGood
<1>7. Core(q)
  BY <1>2, <1>3, <1>4, <1>5, <1>6 DEF Good, Core
<1>8. Good(q)
  BY <1>2, <1>3, <1>7 DEF Good
<1> QED
  BY <1>1, <1>2, <1>3, <1>5, <1>8 DEF Grows

-----------------------------------------------------------------------------
\* segment_received() of such a segment: dropped before the SYN, pushed with
\* the peer's ISN once the SYN has come.
LEMMA SegmentReceived ==
    ASSUME Good(reassembler), NEW isn \in WrappingInt32, receiver_isn \in {nullopt, isn},
           NEW a \in 0..(N + 2), NEW b \in 0..(N + 2), a <= b, Alive(a),
           segment_received(SegmentFrom(isn, a, b))
    PROVE  \/ /\ receiver_isn = nullopt /\ ~(a = 0 /\ b > 0)
              /\ UNCHANGED receiverVars
           \/ /\ receiver_isn = isn \/ (a = 0 /\ b > 0)
              /\ receiver_isn' = isn /\ Good(reassembler')
              /\ \E i, j \in 0..N : \E n \in 0..Capacity :
                    /\ \A m \in Nat : m \in (i + 1)..j <=> m \in a..(b - 1) /\ m \in 1..N
                    /\ Pushed(reassembler, reassembler', i, j, a < b /\ b = N + 2, n)
<1> DEFINE seg == SegmentFrom(isn, a, b)
<1>1. /\ seg.seqno = wrap(a, isn) /\ seg.syn = (a = 0 /\ b > 0)
      /\ seg.fin = (a < b /\ b = N + 2)
  BY DEF SegmentFrom, Segment
<1> HIDE DEF seg
<1>2. CASE receiver_isn = nullopt /\ ~(a = 0 /\ b > 0)
  BY <1>1, <1>2 DEF segment_received, seg
<1>3. CASE ~(receiver_isn = nullopt /\ ~(a = 0 /\ b > 0))
  <2>1. (IF receiver_isn = nullopt THEN seg.seqno ELSE receiver_isn) = isn
    <3>1. CASE receiver_isn = nullopt
      <4>1. wrap(0, isn) = isn
        <5>1. isn + 0 = isn /\ SeqMod \in Nat \ {0} /\ isn \in 0..(SeqMod - 1) /\ 0 \in Nat
          BY SeqModAssumption DEF WrappingInt32
        <5>2. isn % SeqMod = isn
          BY <5>1, ModSmall
        <5> QED
          BY <5>1, <5>2, WrapIsMod
      <4> QED
        BY <1>1, <1>3, <3>1, <4>1
    <3> QED
      BY <3>1
  <2>2. /\ receiver_isn' = isn
        /\ reassembler' = push_substring(reassembler, seg.payload, stream_index(seg, isn), seg.fin)
    BY <1>1, <1>3, <2>1 DEF segment_received, seg
  <2>3. /\ Good(reassembler')
        /\ \E i, j \in 0..N : \E n \in 0..Capacity :
               /\ \A m \in Nat : m \in (i + 1)..j <=> m \in a..(b - 1) /\ m \in 1..N
               /\ Pushed(reassembler, reassembler', i, j, seg.fin, n)
    BY <2>2, SegmentPushes DEF seg
  <2> QED
    BY <1>1, <1>3, <2>2, <2>3
<1> QED
  BY <1>2, <1>3

\* A segment of the stream keeps the invariant, and forgets nothing.
LEMMA RecvSegmentKeeps ==
    ASSUME RecvInv, NEW a \in 0..(N + 2), NEW b \in 0..(N + 2), RecvSegment(a, b)
    PROVE  RecvInv' /\ Grows(reassembler, reassembler')
<1>1. /\ Good(reassembler) /\ receiver_isn \in {nullopt, PeerISN}
      /\ receiver_isn = nullopt <=> 0 \notin arrived
      /\ Arrived(reassembler, arrived)
  BY DEF RecvInv
<1>2. /\ a <= b /\ Alive(a) /\ segment_received(SegmentFrom(PeerISN, a, b))
      /\ arrived' = IF receiver_isn' = nullopt THEN arrived ELSE arrived \cup (a..(b - 1))
  BY DEF RecvSegment
<1>3. PeerISN # nullopt /\ a \in Nat /\ b \in Nat /\ N \in Nat
  BY Widths DEF nullopt
<1>4. CASE receiver_isn = nullopt /\ UNCHANGED receiverVars
  <2>1. receiver_isn' = receiver_isn /\ reassembler' = reassembler /\ arrived' = arrived
    BY <1>2, <1>4 DEF receiverVars
  <2>2. Grows(reassembler, reassembler')
    BY <1>1, <2>1, EdgeIs DEF Grows
  <2> QED
    BY <1>1, <2>1, <2>2 DEF RecvInv
<1>5. ASSUME receiver_isn = PeerISN \/ (a = 0 /\ b > 0),
             receiver_isn' = PeerISN, Good(reassembler'),
             NEW i \in 0..N, NEW j \in 0..N, NEW n \in 0..Capacity,
             \A m \in Nat : m \in (i + 1)..j <=> m \in a..(b - 1) /\ m \in 1..N,
             Pushed(reassembler, reassembler', i, j, a < b /\ b = N + 2, n)
      PROVE  RecvInv' /\ Grows(reassembler, reassembler')
  <2>1. arrived' = arrived \cup (a..(b - 1))
    BY <1>2, <1>3, <1>5
  <2>2. \A m \in (i + 1)..j : m \in arrived'
    <3>1. \A m \in (i + 1)..j : m \in Nat
      BY <1>3
    <3> QED
      BY <1>5, <2>1, <3>1, Zenon
  <2>3. a < b /\ b = N + 2 => N + 1 \in arrived'
    BY <1>3, <2>1
  <2>4. arrived \subseteq arrived'
    BY <2>1
  <2>5. Arrived(reassembler', arrived')
    <3> DEFINE q == reassembler'
               T == arrived'
               f == a < b /\ b = N + 2
    <3>1. Good(q) /\ Pushed(reassembler, q, i, j, f, n)
      BY <1>5
    <3>2. arrived \subseteq T /\ (\A m \in (i + 1)..j : m \in T) /\ (f => N + 1 \in T)
      BY <2>2, <2>3, <2>4
    <3> HIDE DEF q, T, f
    <3>3. Arrived(q, T)
      BY <1>1, <3>1, <3>2, PushArrives
    <3> QED
      BY <3>3 DEF q, T
  <2>6. 0 \in arrived'
    BY <1>1, <1>3, <1>5, <2>1
  <2>7. Grows(reassembler, reassembler')
    BY <1>1, <1>5, PushGrows
  <2> QED
    BY <1>3, <1>5, <2>5, <2>6, <2>7 DEF RecvInv
<1> QED
  BY <1>1, <1>2, <1>4, <1>5, Widths, SegmentReceived

\* A byte numbered like the SYN is dropped: its index is the largest there is,
\* and its end, modulo 2^64, is 0.
LEMMA StrayByteKeeps ==
    ASSUME RecvInv, NEW byte \in Byte, StrayByte(byte)
    PROVE  RecvInv' /\ Grows(reassembler, reassembler')
<1> DEFINE r   == reassembler
           seg == Segment(PeerISN, FALSE, FALSE, <<byte>>)
<1>1. /\ Good(r) /\ receiver_isn \in {nullopt, PeerISN}
      /\ receiver_isn = nullopt <=> 0 \notin arrived
      /\ Arrived(r, arrived)
  BY DEF RecvInv
<1>2. Alive(0) /\ segment_received(seg) /\ arrived' = arrived
  BY DEF StrayByte
<1>3. seg.seqno = PeerISN /\ seg.syn = FALSE /\ seg.fin = FALSE /\ seg.payload = <<byte>>
  BY DEF Segment
<1> HIDE DEF seg
<1>4. CASE receiver_isn = nullopt
  <2>1. receiver_isn' = receiver_isn /\ r' = r
    BY <1>2, <1>3, <1>4 DEF segment_received, receiverVars
  <2>2. Grows(r, r')
    BY <1>1, <2>1, EdgeIs DEF Grows
  <2> QED
    BY <1>1, <1>2, <2>1, <2>2 DEF RecvInv
<1>5. CASE receiver_isn = PeerISN
  <2> DEFINE index == stream_index(seg, PeerISN)
             end   == add64(index, Len(<<byte>>))
  <2>1. receiver_isn # nullopt
    BY <1>5, Widths DEF nullopt
  <2>2. receiver_isn' = receiver_isn /\ r' = push_substring(r, <<byte>>, index, FALSE)
    BY <1>2, <1>3, <1>5, <2>1 DEF segment_received
  <2>3. index = AbsMod - 1
    <3>1. wrap(0, PeerISN) = PeerISN
      <4>1. PeerISN + 0 = PeerISN /\ SeqMod \in Nat \ {0} /\ PeerISN \in 0..(SeqMod - 1) /\ 0 \in Nat
        BY SeqModAssumption, Widths DEF WrappingInt32
      <4>2. PeerISN % SeqMod = PeerISN
        BY <4>1, ModSmall
      <4> QED
        BY <4>1, <4>2, WrapIsMod, Widths
    <3>2. bytes_written(out) \in 0..N /\ 0 \in 0..(N + 2)
      BY <1>1, EdgeIs, Widths DEF out, stream_out, bytes_written
    <3> QED
      BY <1>2, <1>3, <3>1, <3>2, IndexIs, Widths, Zenon
  <2>4. end = 0
    <3>1. Len(<<byte>>) = 1
      OBVIOUS
    <3>2. (AbsMod - 1) + 1 = AbsMod * 1 + 0 /\ (AbsMod - 1) + 1 \in Int /\ 0 \in 0..(AbsMod - 1)
      BY Widths
    <3>3. ((AbsMod - 1) + 1) % AbsMod = 0
      BY <3>2, Widths, ModUnique
    <3> QED
      BY <2>3, <3>1, <3>3 DEF add64
  <2> HIDE DEF index, end
  <2> DEFINE q == end_at_eof(mark_eof(r, end, FALSE))
  <2>5. /\ Good(q) /\ q.bitmap = r.bitmap /\ q.eof_flag = r.eof_flag
        /\ q.output.written_bytes = r.output.written_bytes
        /\ q.output.read_bytes = r.output.read_bytes
    BY <1>1, EndAgain
  <2>6. add64(index, Len(<<byte>>)) = end /\ end <= bytes_written(r.output)
    <3>1. 0 <= r.output.written_bytes
      BY <1>1, EdgeIs
    <3> QED
      BY <2>4, <3>1 DEF end, bytes_written
  <2>7. push_substring(r, <<byte>>, index, FALSE) = q
    BY <2>6, Zenon DEF push_substring
  <2> HIDE DEF q
  <2>8. r' = q
    BY <2>2, <2>7
  <2>9. Arrived(q, arrived)
    BY <1>1, <2>5 DEF Arrived, Marked
  <2>10. Grows(r, q)
    BY <1>1, <2>5, EdgeIs DEF Grows
  <2> QED
    BY <1>1, <1>2, <2>2, <2>5, <2>8, <2>9, <2>10 DEF RecvInv
<1> QED
  BY <1>1, <1>4, <1>5

\* Whatever happens, the invariant stays and nothing is forgotten.
LEMMA RecvStepKeeps ==
    ASSUME RecvInv, [RecvNext]_recvVars
    PROVE  RecvInv' /\ Grows(reassembler, reassembler')
<1>1. CASE UNCHANGED recvVars
  <2>1. receiver_isn' = receiver_isn /\ reassembler' = reassembler /\ arrived' = arrived
    BY <1>1 DEF recvVars
  <2>2. Grows(reassembler, reassembler')
    BY <2>1, EdgeIs DEF Grows, RecvInv
  <2> QED
    BY <2>1, <2>2 DEF RecvInv
<1>2. ASSUME NEW a \in 0..(N + 2), NEW b \in 0..(N + 2), RecvSegment(a, b)
      PROVE  RecvInv' /\ Grows(reassembler, reassembler')
  BY <1>2, RecvSegmentKeeps
<1>3. ASSUME NEW byte \in Byte, StrayByte(byte)
      PROVE  RecvInv' /\ Grows(reassembler, reassembler')
  BY <1>3, StrayByteKeeps
<1>4. ASSUME NEW q, reassembler' = q, Good(q), Marked(q) = Marked(reassembler),
             q.eof_flag = reassembler.eof_flag,
             q.output.written_bytes = reassembler.output.written_bytes,
             receiver_isn' = receiver_isn, arrived' = arrived
      PROVE  RecvInv'
  <2>1. Arrived(q, arrived)
    BY <1>4 DEF RecvInv, Arrived
  <2> QED
    BY <1>4, <2>1 DEF RecvInv
<1>5. ASSUME NEW len \in 1..(Capacity + 1), RecvRead(len)
      PROVE  RecvInv' /\ Grows(reassembler, reassembler')
  <2>1. /\ reassembler' = [reassembler EXCEPT !.output = read(@, len)]
        /\ receiver_isn' = receiver_isn /\ arrived' = arrived
    BY <1>5 DEF RecvRead, receiver_read
  <2>2. len \in Nat /\ Good(reassembler)
    BY Widths DEF RecvInv
  <2> QED
    BY <1>4, <2>1, <2>2, ReadOnlyReads
<1>6. CASE OutError
  <2>1. /\ reassembler' = [reassembler EXCEPT !.output = set_error(@)]
        /\ receiver_isn' = receiver_isn /\ arrived' = arrived
    BY <1>6 DEF OutError, receiver_set_error
  <2>2. Good(reassembler)
    BY DEF RecvInv
  <2> QED
    BY <1>4, <2>1, <2>2, ErrorOnlyMarks
<1> QED
  BY <1>1, <1>2, <1>3, <1>5, <1>6 DEF RecvNext

\* The constructor establishes it.
LEMMA RecvInitKeeps ==
    ASSUME RecvInit
    PROVE  RecvInv
<1>1. receiver_isn = nullopt /\ reassembler = NewStreamReassembler(Capacity) /\ arrived = {}
  BY DEF RecvInit, ReceiverInit
<1>2. Good(reassembler)
  BY <1>1, NewIsGood
<1>3. /\ reassembler.bitmap = [k \in 0..(Capacity - 1) |-> FALSE]
      /\ reassembler.eof_flag = FALSE /\ reassembler.output.written_bytes = 0
  BY <1>1 DEF NewStreamReassembler, NewByteStream
<1>4. Arrived(reassembler, arrived)
  BY <1>3 DEF Arrived, Marked
<1> QED
  BY <1>1, <1>2, <1>4 DEF RecvInv

\* The invariant gives what the run checks.
LEMMA RecvInvImplies ==
    ASSUME RecvInv
    PROVE  StreamIsPrefix /\ AckedHasArrived
<1> DEFINE r == reassembler
<1>1. /\ Good(r) /\ receiver_isn \in {nullopt, PeerISN}
      /\ receiver_isn = nullopt <=> 0 \notin arrived
      /\ Arrived(r, arrived)
  BY DEF RecvInv
<1>2. OutputGood(r.output)
  BY <1>1 DEF Good, Core
<1>3. StreamIsPrefix
  BY <1>2 DEF StreamIsPrefix, OutputGood, out, stream_out, buffer_size, bytes_written, bytes_read
<1>4. ackno = nullopt <=> receiver_isn = nullopt
  <2>1. abs_ackno(r) \in Nat
    BY <1>1, EdgeIs, Widths
  <2>2. wrap(abs_ackno(r), PeerISN) # nullopt
    BY <2>1, Widths, WrapIsMod, SeqModAssumption DEF nullopt, WrappingInt32
  <2> QED
    BY <1>1, <2>2 DEF ackno
<1>5. ASSUME receiver_isn # nullopt, NEW m \in 0..(abs_ackno(r) - 1)
      PROVE  m \in arrived
  <2>1. /\ r.output.written_bytes \in 0..N /\ N \in Nat
        /\ r.output.end_write => r.eof_flag /\ r.output.written_bytes = N
        /\ abs_ackno(r) = r.output.written_bytes + 1 + (IF r.output.end_write THEN 1 ELSE 0)
    BY <1>1, EdgeIs, Widths
  <2>2. \/ m = 0 \/ m \in 1..r.output.written_bytes
        \/ r.output.end_write /\ m = N + 1
    BY <2>1
  <2> QED
    BY <1>1, <1>5, <2>1, <2>2 DEF Arrived
<1> QED
  BY <1>1, <1>3, <1>4, <1>5 DEF AckedHasArrived

\* The byte at ackno is acknowledged at once if there is room for it: it
\* becomes position 0 of the window, and so the first of a contiguous run.
LEMMA NextByteTaken ==
    ASSUME RecvInv, NEW a \in 0..(N + 2), NEW b \in 0..(N + 2), RecvSegment(a, b),
           ackno # nullopt, ~input_ended(out),
           a <= abs_ackno(reassembler), abs_ackno(reassembler) < b, b <= N + 1,
           window_size(reassembler) > 0
    PROVE  abs_ackno(reassembler') > abs_ackno(reassembler)
<1> DEFINE r == reassembler
           w == r.output.written_bytes
<1>1. Good(r) /\ receiver_isn = PeerISN
  BY DEF RecvInv, ackno
<1>2. /\ a <= b /\ Alive(a) /\ segment_received(SegmentFrom(PeerISN, a, b))
  BY DEF RecvSegment
<1>3. PeerISN # nullopt
  BY Widths DEF nullopt
<1>4. PICK i \in 0..N, j \in 0..N, n \in 0..Capacity :
            /\ Good(r')
            /\ \A m \in Nat : m \in (i + 1)..j <=> m \in a..(b - 1) /\ m \in 1..N
            /\ Pushed(r, r', i, j, a < b /\ b = N + 2, n)
  BY <1>1, <1>2, <1>3, Widths, SegmentReceived
<1>5. /\ w \in 0..N /\ N \in Nat /\ Capacity \in Nat \ {0}
      /\ ~r.output.end_write /\ abs_ackno(r) = w + 1
      /\ window_size(r) = r.output.read_bytes + Capacity - w /\ r.output.read_bytes \in Nat
  <2>1. ~r.output.end_write
    BY DEF input_ended, out, stream_out
  <2> QED
    BY <1>1, <2>1, EdgeIs, Widths, SMTT(30)
<1>6. w + 1 \in (i + 1)..j
  <2>1. w + 1 \in Nat /\ w + 1 \in a..(b - 1) /\ w + 1 \in 1..N
    BY <1>5
  <2> QED
    BY <1>4, <2>1
<1> HIDE DEF w
<1>7. Kept(r, i, j, 0)
  BY <1>5, <1>6 DEF Kept, w
<1>8. n # 0
  BY <1>4, <1>5, <1>7 DEF Pushed
<1>9. r'.output.written_bytes = w + n
  BY <1>4 DEF Pushed, w
<1>10. r'.output.written_bytes \in Nat /\ abs_ackno(r') \in {r'.output.written_bytes + 1, r'.output.written_bytes + 1 + 1}
  BY <1>4, <1>5, EdgeIs
<1> QED
  BY <1>5, <1>8, <1>9, <1>10

-----------------------------------------------------------------------------
\* The application is given the peer's stream, in order, nothing lost or
\* repeated, whatever the ISN and however the sequence numbers wrap.
THEOREM StreamAlwaysPrefix == RecvSpec => []StreamIsPrefix
<1>1. RecvInit => RecvInv
  BY RecvInitKeeps
<1>2. RecvInv /\ [RecvNext]_recvVars => RecvInv'
  BY RecvStepKeeps
<1>3. RecvInv => StreamIsPrefix
  BY RecvInvImplies
<1> QED
  BY <1>1, <1>2, <1>3, PTL DEF RecvSpec

\* ackno() never covers a SYN, a byte or a FIN that has not arrived, and exists
\* exactly once the SYN has.
THEOREM AckedAlwaysArrived == RecvSpec => []AckedHasArrived
<1>1. RecvInit => RecvInv
  BY RecvInitKeeps
<1>2. RecvInv /\ [RecvNext]_recvVars => RecvInv'
  BY RecvStepKeeps
<1>3. RecvInv => AckedHasArrived
  BY RecvInvImplies
<1> QED
  BY <1>1, <1>2, <1>3, PTL DEF RecvSpec

\* No step of the receiver takes back room it has advertised, or acknowledges
\* less than before.
THEOREM WindowOnlyAdvances == RecvSpec => WindowNeverShrinks
<1>1. RecvInit => RecvInv
  BY RecvInitKeeps
<1>2. RecvInv /\ [RecvNext]_recvVars => RecvInv'
  BY RecvStepKeeps
<1>3. RecvInv /\ [RecvNext]_recvVars
      => [/\ abs_ackno(reassembler') >= abs_ackno(reassembler)
          /\ abs_ackno(reassembler') + window_size(reassembler')
               >= abs_ackno(reassembler) + window_size(reassembler)]_recvVars
  <2> SUFFICES ASSUME RecvInv, [RecvNext]_recvVars
               PROVE  /\ abs_ackno(reassembler') >= abs_ackno(reassembler)
                      /\ abs_ackno(reassembler') + window_size(reassembler')
                           >= abs_ackno(reassembler) + window_size(reassembler)
    OBVIOUS
  <2>1. Good(reassembler) /\ Good(reassembler') /\ Grows(reassembler, reassembler')
    BY RecvStepKeeps DEF RecvInv
  <2> QED
    BY <2>1, EdgeGrows
<1> QED
  BY <1>1, <1>2, <1>3, PTL DEF RecvSpec, WindowNeverShrinks

\* A segment that holds the next byte is never dropped while the window is
\* open.
THEOREM NextByteAlwaysAccepted == RecvSpec => NextByteAccepted
<1> DEFINE A == \A a, b \in 0..(N + 2) :
                  LET next == abs_ackno(reassembler)
                  IN  /\ ackno # nullopt /\ ~input_ended(out)
                      /\ a <= next /\ next < b /\ b <= N + 1
                      /\ window_size(reassembler) > 0
                      /\ RecvSegment(a, b)
                      => abs_ackno(reassembler') > next
<1>1. RecvInit => RecvInv
  BY RecvInitKeeps
<1>2. RecvInv /\ [RecvNext]_recvVars => RecvInv'
  BY RecvStepKeeps
<1>3. RecvInv /\ [RecvNext]_recvVars => [A]_recvVars
  BY NextByteTaken
<1> QED
  BY <1>1, <1>2, <1>3, PTL DEF RecvSpec, NextByteAccepted

-----------------------------------------------------------------------------
\* A receiver whose peer numbers the stream from isn and has used the numbers
\* below n.

\* What the receiver knows of the stream is among those numbers.
Holds(r, i, isn, n) ==
    /\ Good(r) /\ r.output.error = FALSE
    /\ i \in {nullopt, isn}
    /\ i # nullopt => n > 0
    /\ Arrived(r, 0..(n - 1))

\* It stays so as the peer uses more.
LEMMA HoldsLater ==
    ASSUME NEW r, NEW i, NEW isn, NEW m \in Nat, NEW n \in Nat, m <= n, Holds(r, i, isn, m)
    PROVE  Holds(r, i, isn, n)
<1>1. 0..(m - 1) \subseteq 0..(n - 1) /\ (m > 0 => n > 0)
  OBVIOUS
<1> QED
  BY <1>1, Zenon DEF Holds, Arrived

\* A new receiver knows nothing.
LEMMA HoldsNothing ==
    ASSUME NEW isn, NEW n, NEW r, r = NewStreamReassembler(Capacity)
    PROVE  Holds(r, nullopt, isn, n) /\ r.output.read_bytes = 0 /\ ~eof(r.output)
<1>1. Good(r)
  BY NewIsGood
<1>2. /\ r.bitmap = [k \in 0..(Capacity - 1) |-> FALSE] /\ r.output.end_write = FALSE
      /\ r.eof_flag = FALSE /\ r.output.written_bytes = 0
      /\ r.output.error = FALSE /\ r.output.read_bytes = 0
  BY DEF NewStreamReassembler, NewByteStream
<1>3. Arrived(r, 0..(n - 1))
  BY <1>2 DEF Arrived, Marked
<1> QED
  BY <1>1, <1>2, <1>3, Zenon DEF Holds, eof

\* What it acknowledges is a number that has been used, or the next one.
LEMMA HoldsEdge ==
    ASSUME NEW r, NEW i, NEW isn, NEW n \in Nat, Holds(r, i, isn, n), i # nullopt
    PROVE  abs_ackno(r) \in 1..n /\ window_size(r) \in 0..Capacity
<1> DEFINE w == r.output.written_bytes
           e == r.output.end_write
<1>1. /\ Good(r) /\ n > 0 /\ (\A m \in 1..w : m \in 0..(n - 1))
      /\ r.eof_flag => N + 1 \in 0..(n - 1)
  BY Zenon DEF Holds, Arrived
<1>2. /\ w \in 0..N /\ (e <=> r.eof_flag /\ w = N) /\ window_size(r) \in 0..Capacity
      /\ abs_ackno(r) = w + 1 + (IF e THEN 1 ELSE 0)
  BY <1>1, EdgeIs, Zenon
<1> HIDE DEF w, e
<1>3. w >= 1 => w <= n - 1
  BY <1>1, <1>2, Widths
<1>4. abs_ackno(r) \in 1..n
  <2>1. CASE e
    BY <1>1, <1>2, <2>1, Widths
  <2>2. CASE ~e
    BY <1>1, <1>2, <1>3, <2>2, Widths
  <2> QED
    BY <2>1, <2>2
<1> QED
  BY <1>2, <1>4

\* Nothing in push_substring() sets the error of the output.
LEMMA PushNoError ==
    ASSUME NEW r, Good(r), NEW data, NEW index, NEW is_eof
    PROVE  push_substring(r, data, index, is_eof).output.error = r.output.error
<1> DEFINE Whole(x) == /\ DOMAIN x = DOMAIN r /\ DOMAIN x.output = DOMAIN r.output
                       /\ x.output.error = r.output.error
<1>1. r \in ReassemblerType(Byte, Capacity) /\ r.output \in ByteStreamType(Byte)
  BY Fields DEF Good, Core
<1>2. /\ DOMAIN r = {"buffer", "bitmap", "eof_flag", "eof_index", "unassembled_bytes", "output", "capacity"}
      /\ DOMAIN r.output = {"buffer", "capacity", "end_write", "written_bytes", "read_bytes", "error"}
  BY <1>1 DEF ReassemblerType, ByteStreamType
<1>3. Whole(r)
  OBVIOUS
<1>4. ASSUME NEW x, Whole(x), NEW end PROVE Whole(mark_eof(x, end, is_eof))
  BY <1>2, <1>4 DEF mark_eof
<1>5. ASSUME NEW x, Whole(x) PROVE Whole(end_at_eof(x))
  BY <1>2, <1>5 DEF end_at_eof, end_input
<1>6. ASSUME NEW x, Whole(x), NEW end PROVE Whole(store(x, data, index, end))
  BY <1>2, <1>6 DEF store
<1>7. ASSUME NEW x, Whole(x) PROVE Whole(assemble(x))
  BY <1>2, <1>7, Zenon DEF assemble, write
<1> HIDE DEF Whole
<1>8. Whole(push_substring(r, data, index, is_eof))
  BY <1>3, <1>4, <1>5, <1>6, <1>7, Zenon DEF push_substring
<1> QED
  BY <1>8 DEF Whole

\* A push of what the peer has sent keeps it so.
LEMMA PushHolds ==
    ASSUME NEW isn, NEW n \in Nat, Holds(reassembler, receiver_isn, isn, n),
           NEW a \in 0..(N + 2), NEW b \in 0..(N + 2), a < b, b <= n,
           receiver_isn' = isn, Good(reassembler'), reassembler'.output.error = FALSE,
           NEW i \in 0..N, NEW j \in 0..N, NEW k \in 0..Capacity,
           \A m \in Nat : m \in (i + 1)..j <=> m \in a..(b - 1) /\ m \in 1..N,
           Pushed(reassembler, reassembler', i, j, a < b /\ b = N + 2, k)
    PROVE  Holds(reassembler', receiver_isn', isn, n)
<1> DEFINE q == reassembler'
           T == 0..(n - 1)
           fin == a < b /\ b = N + 2
<1>1. Good(reassembler) /\ Arrived(reassembler, T)
  BY Zenon DEF Holds
<1>2. T = 0..(n - 1) /\ N \in Nat
  BY Widths, Zenon
<1> HIDE DEF T
<1>3. \A m \in (i + 1)..j : m \in T
  <2> TAKE m \in (i + 1)..j
  <2>1. m \in Nat
    BY <1>2
  <2>2. m \in a..(b - 1)
    BY <2>1, Zenon
  <2> QED
    BY <1>2, <2>1, <2>2
<1>4. (fin => N + 1 \in T) /\ n > 0
  BY <1>2
<1> HIDE DEF q, fin
<1>5. Good(q) /\ Pushed(reassembler, q, i, j, fin, k)
  BY Zenon DEF q, fin
<1>6. Arrived(q, T)
  BY <1>1, <1>3, <1>4, <1>5, PushArrives
<1> QED
  BY <1>4, <1>6, Zenon DEF Holds, q, T

\* segment_received() of a segment that the peer has sent, when all of the
\* stream is within half the sequence space.
LEMMA SegmentTaken ==
    ASSUME NEW isn \in WrappingInt32, NEW n \in Nat, Holds(reassembler, receiver_isn, isn, n),
           N + 2 < HalfSeq, NEW a \in 0..(N + 2), NEW b \in 0..(N + 2), a < b, b <= n,
           segment_received(SegmentFrom(isn, a, b))
    PROVE  /\ Holds(reassembler', receiver_isn', isn, n) /\ Grows(reassembler, reassembler')
           /\ reassembler'.output.read_bytes = reassembler.output.read_bytes
           /\ receiver_isn # nullopt => receiver_isn' # nullopt
<1>1. /\ Good(reassembler) /\ receiver_isn \in {nullopt, isn}
      /\ reassembler.output.error = FALSE /\ isn # nullopt
  BY SeqModAssumption DEF Holds, WrappingInt32, nullopt
<1>2. Alive(a) /\ a <= b
  <2> DEFINE w == reassembler.output.written_bytes
  <2>1. w \in 0..N
    BY <1>1, EdgeIs, Zenon
  <2> HIDE DEF w
  <2>2. a - w \in (-HalfSeq)..(HalfSeq - 1) /\ a <= b
    BY <2>1, Widths
  <2> QED
    BY <2>2, Zenon DEF Alive, out, stream_out, bytes_written, w
<1>3. \/ UNCHANGED receiverVars
      \/ /\ receiver_isn' = isn /\ Good(reassembler')
         /\ \E i, j \in 0..N : \E k \in 0..Capacity :
               /\ \A m \in Nat : m \in (i + 1)..j <=> m \in a..(b - 1) /\ m \in 1..N
               /\ Pushed(reassembler, reassembler', i, j, a < b /\ b = N + 2, k)
  BY <1>1, <1>2, SegmentReceived, Zenon
<1>4. CASE UNCHANGED receiverVars
  <2>1. reassembler' = reassembler /\ receiver_isn' = receiver_isn
    BY <1>4, Zenon DEF receiverVars
  <2>2. reassembler.output.written_bytes \in Nat /\ reassembler.output.read_bytes \in Nat
    BY <1>1, Fields, Zenon DEF Good, Core
  <2> QED
    BY <2>1, <2>2 DEF Grows
<1>5. ASSUME receiver_isn' = isn, Good(reassembler'),
             NEW i \in 0..N, NEW j \in 0..N, NEW k \in 0..Capacity,
             \A m \in Nat : m \in (i + 1)..j <=> m \in a..(b - 1) /\ m \in 1..N,
             Pushed(reassembler, reassembler', i, j, a < b /\ b = N + 2, k)
      PROVE  /\ Holds(reassembler', receiver_isn', isn, n) /\ Grows(reassembler, reassembler')
             /\ reassembler'.output.read_bytes = reassembler.output.read_bytes
             /\ receiver_isn # nullopt => receiver_isn' # nullopt
  <2>1. reassembler'.output.error = FALSE
    <3> DEFINE seg == SegmentFrom(isn, a, b)
    <3>1. CASE reassembler' = reassembler
      BY <1>1, <3>1, Zenon
    <3>2. ASSUME NEW x, reassembler' = push_substring(reassembler, seg.payload,
                                                      stream_index(seg, x), seg.fin)
          PROVE  reassembler'.output.error = FALSE
      <4>1. \A data, index, is_eof : push_substring(reassembler, data, index, is_eof).output.error
                                        = reassembler.output.error
        BY <1>1, PushNoError
      <4> QED
        BY <1>1, <3>2, <4>1, Zenon
    <3> QED
      BY <3>1, <3>2, Zenon DEF segment_received, receiverVars
  <2>2. Holds(reassembler', receiver_isn', isn, n)
    BY <1>5, <2>1, PushHolds, Zenon
  <2>3. Grows(reassembler, reassembler')
    BY <1>1, <1>5, PushGrows, Zenon
  <2> QED
    BY <1>1, <1>5, <2>2, <2>3, Zenon DEF Pushed
<1> QED
  BY <1>3, <1>4, <1>5, Zenon

-----------------------------------------------------------------------------
\* The application that reads the output.

\* What it has read, c, is the beginning of Source.
ReadSoFar(c, r) ==
    /\ c \in Seq(Byte)
    /\ Len(c) = r.output.read_bytes
    /\ \A i \in 1..Len(c) : c[i] = Source[i]

\* It reads len bytes of r, which becomes q, and has then read d.
HasRead(r, c, len, q, d) ==
    /\ len \in Nat /\ len <= Len(r.output.buffer)
    /\ q = [r EXCEPT !.output = read(@, len)]
    /\ d = c \o read_result(r.output, len)

\* When it reads on, it reads the next part.
LEMMA ReadsOn ==
    ASSUME NEW r, NEW i, NEW isn, NEW n, Holds(r, i, isn, n), NEW c, ReadSoFar(c, r),
           NEW len, NEW q, NEW d, HasRead(r, c, len, q, d)
    PROVE  Holds(q, i, isn, n) /\ ReadSoFar(d, q) /\ abs_ackno(q) = abs_ackno(r)
<1> SUFFICES ASSUME len \in Nat, len <= Len(r.output.buffer),
                    q = [r EXCEPT !.output = read(@, len)],
                    d = c \o read_result(r.output, len)
             PROVE  Holds(q, i, isn, n) /\ ReadSoFar(d, q) /\ abs_ackno(q) = abs_ackno(r)
  BY Zenon DEF HasRead
<1> DEFINE o == r.output
           t == SubSeq(o.buffer, 1, len)
           m == Len(c)
<1>1. /\ r \in ReassemblerType(Byte, Capacity) /\ o \in ByteStreamType(Byte)
      /\ o.error = FALSE /\ OutputGood(o) /\ Good(r)
  BY Fields DEF Holds, Good, Core
<1>2. o.buffer \in Seq(Byte) /\ o.read_bytes \in Nat /\ Len(o.buffer) \in Nat
  BY <1>1 DEF ByteStreamType
<1>3. ~(len > Len(o.buffer)) /\ len \in 0..Len(o.buffer)
  BY <1>2
<1>4. q.output.read_bytes = o.read_bytes + len /\ q.output.error = FALSE
  <2>1. read(o, len) = [o EXCEPT !.buffer = SubSeq(@, len + 1, Len(@)), !.read_bytes = @ + len]
    BY <1>3 DEF read, pop_output
  <2>2. read(o, len).read_bytes = o.read_bytes + len /\ read(o, len).error = FALSE
    BY <1>1, <2>1 DEF ByteStreamType
  <2>3. q.output = read(o, len)
    BY <1>1 DEF ReassemblerType
  <2> QED
    BY <2>2, <2>3
<1>5. /\ t \in Seq(Byte) /\ Len(t) = len
      /\ \A k \in 1..len : t[k] = o.buffer[k]
  BY <1>2, <1>3, ElementOfSeq, SubSeqProperties
<1>6. /\ c \in Seq(Byte) /\ m = o.read_bytes
      /\ \A k \in 1..m : c[k] = Source[k]
  BY Zenon DEF ReadSoFar
<1>7. d = c \o t
  BY <1>3 DEF read_result
<1> HIDE DEF t
<1>8. /\ d \in Seq(Byte) /\ Len(d) = m + len
      /\ \A k \in 1..(m + len) : d[k] = IF k <= m THEN c[k] ELSE t[k - m]
  <2>1. /\ c \o t \in Seq(Byte) /\ Len(c \o t) = Len(c) + Len(t)
        /\ \A k \in 1..(Len(c) + Len(t)) :
               (c \o t)[k] = IF k <= Len(c) THEN c[k] ELSE t[k - Len(c)]
    <3>1. c \in Seq(Byte) /\ t \in Seq(Byte)
      BY <1>5, <1>6, Zenon
    <3> QED
      BY <3>1, ConcatProperties, Zenon
  <2> QED
    BY <1>5, <1>7, <2>1, Zenon
<1>9. \A k \in 1..Len(o.buffer) : o.buffer[k] = Source[o.read_bytes + k]
  BY <1>1, Zenon DEF OutputGood
<1>10. \A k \in 1..(m + len) : d[k] = Source[k]
  <2> HIDE DEF m
  <2> TAKE k \in 1..(m + len)
  <2>1. CASE k <= m
    BY <1>2, <1>6, <1>8, <2>1
  <2>2. CASE ~(k <= m)
    <3>1. k - m \in 1..len /\ k - m \in 1..Len(o.buffer) /\ m + (k - m) = k
      BY <1>2, <1>3, <1>6, <2>2
    <3>2. t[k - m] = Source[m + (k - m)]
      BY <1>5, <1>6, <1>9, <3>1, Zenon
    <3> QED
      BY <1>8, <2>2, <3>1, <3>2
  <2> QED
    BY <2>1, <2>2
<1>11. ReadSoFar(d, q)
  BY <1>4, <1>6, <1>8, <1>10, Zenon DEF ReadSoFar
<1>12. /\ Good(q) /\ Marked(q) = Marked(r) /\ q.eof_flag = r.eof_flag
       /\ q.output.written_bytes = r.output.written_bytes
       /\ q.output.end_write = r.output.end_write
  BY <1>1, ReadOnlyReads, Zenon
<1>13. Holds(q, i, isn, n)
  BY <1>4, <1>12, Zenon DEF Holds, Arrived
<1>14. abs_ackno(q) = abs_ackno(r)
  BY <1>12 DEF abs_ackno, bytes_written, input_ended
<1> QED
  BY <1>11, <1>13, <1>14, Zenon

\* It reads no more than the peer has sent, sees the end only when it has read
\* all, and what it has not read when all has come is the rest.
LEMMA ReadsNoMore ==
    ASSUME NEW r, NEW i, NEW isn, NEW n \in Nat, Holds(r, i, isn, n), NEW c, ReadSoFar(c, r)
    PROVE  /\ Len(c) \in 0..N /\ (Len(c) >= 1 => Len(c) < n)
           /\ r.output.end_write => N + 1 < n
           /\ eof(r.output) => N + 1 < n /\ Len(c) = N
<1> DEFINE o == r.output
           v == o.written_bytes
           m == Len(c)
<1>1. /\ Good(r) /\ (\A k \in 1..v : k \in 0..(n - 1))
      /\ r.eof_flag => N + 1 \in 0..(n - 1)
  BY Zenon DEF Holds, Arrived
<1>2. v \in 0..N /\ o.read_bytes \in 0..v /\ (o.end_write <=> r.eof_flag /\ v = N)
  BY <1>1, EdgeIs, Zenon
<1>3. m = o.read_bytes
  BY Zenon DEF ReadSoFar
<1>4. Len(o.buffer) = v - o.read_bytes /\ (eof(o) => o.end_write /\ Len(o.buffer) = 0)
  BY <1>1, EmptySeq DEF Good, Core, OutputGood, eof, buffer_empty
<1> HIDE DEF o, v, m
<1>5. m \in 0..N /\ (m >= 1 => m \in 1..v)
  BY <1>2, <1>3, Widths
<1>6. m >= 1 => m < n
  BY <1>1, <1>5, Widths
<1>7. o.end_write => N + 1 < n
  BY <1>1, <1>2, Widths
<1>8. eof(o) => N + 1 < n /\ m = N
  BY <1>2, <1>3, <1>4, <1>7, Widths
<1> QED
  BY <1>5, <1>6, <1>7, <1>8 DEF o, m

\* When all of the stream has been written, what is not yet read is the rest.
LEMMA RestToRead ==
    ASSUME NEW r, Good(r), NEW c, ReadSoFar(c, r), r.output.written_bytes = N
    PROVE  c \o r.output.buffer = Source
<1> DEFINE o == r.output
           b == o.buffer
           m == Len(c)
<1>1. /\ Len(b) = N - o.read_bytes /\ o \in ByteStreamType(Byte) /\ o.read_bytes \in 0..N
      /\ \A k \in 1..Len(b) : b[k] = Source[o.read_bytes + k]
  BY Fields, EdgeIs, Zenon DEF Good, Core, OutputGood
<1>2. m = o.read_bytes /\ c \in Seq(Byte) /\ \A k \in 1..m : c[k] = Source[k]
  BY Zenon DEF ReadSoFar
<1>3. b \in Seq(Byte) /\ m \in Nat /\ N \in Nat /\ Source \in Seq(Byte) /\ Len(Source) = N
  BY <1>1, <1>2, Widths DEF ByteStreamType, N
<1> HIDE DEF o, m, b
<1>4. m + Len(b) = N /\ \A k \in 1..Len(b) : b[k] = Source[m + k]
  BY <1>1, <1>2, <1>3
<1>5. /\ c \o b \in Seq(Byte) /\ Len(c \o b) = N
      /\ \A k \in 1..N : (c \o b)[k] = IF k <= m THEN c[k] ELSE b[k - m]
  <2>1. /\ c \o b \in Seq(Byte) /\ Len(c \o b) = Len(c) + Len(b)
        /\ \A k \in 1..(Len(c) + Len(b)) :
               (c \o b)[k] = IF k <= Len(c) THEN c[k] ELSE b[k - Len(c)]
    BY <1>2, <1>3, ConcatProperties, Zenon
  <2> QED
    BY <1>4, <2>1, Zenon DEF m
<1>6. \A k \in 1..N : (c \o b)[k] = Source[k]
  <2> TAKE k \in 1..N
  <2>1. CASE k <= m
    BY <1>2, <1>3, <1>5, <2>1
  <2>2. CASE ~(k <= m)
    <3>1. k - m \in 1..Len(b) /\ m + (k - m) = k
      BY <1>3, <1>4, <2>2
    <3>2. b[k - m] = Source[k]
      BY <1>4, <3>1
    <3> QED
      BY <1>5, <2>2, <3>2
  <2> QED
    BY <2>1, <2>2, Zenon
<1>7. c \o b = Source
  BY <1>3, <1>5, <1>6, SeqEqual
<1> QED
  BY <1>7 DEF b, o

\* An end that can be seen stays.
LEMMA EndStays ==
    ASSUME NEW r, NEW q, Good(r), Good(q), Grows(r, q),
           q.output.read_bytes = r.output.read_bytes, eof(r.output)
    PROVE  eof(q.output)
<1> DEFINE o == r.output
           p == q.output
<1>1. /\ o.written_bytes \in 0..N /\ (o.end_write => o.written_bytes = N)
      /\ p.written_bytes \in 0..N /\ (p.end_write => p.written_bytes = N)
  BY EdgeIs, Zenon
<1>2. /\ Len(o.buffer) = o.written_bytes - o.read_bytes
      /\ Len(p.buffer) = p.written_bytes - p.read_bytes
      /\ p.buffer \in Seq(Byte) /\ o.read_bytes \in Nat
  BY Fields DEF Good, Core, OutputGood, ByteStreamType
<1>3. o.end_write /\ Len(o.buffer) = 0 /\ p.end_write /\ p.read_bytes = o.read_bytes
  BY EmptySeq DEF eof, buffer_empty, Grows
<1> HIDE DEF o, p
<1>4. Len(p.buffer) = 0
  BY <1>1, <1>2, <1>3, Widths
<1>5. p.buffer = <<>>
  BY <1>2, <1>4, EmptySeq, Zenon
<1> QED
  BY <1>3, <1>5, Zenon DEF eof, buffer_empty, p

=============================================================================
