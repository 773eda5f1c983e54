-------------------------- MODULE StreamReassembler --------------------------
(***************************************************************************)
(* libsponge/stream_reassembler.{hh,cc}: puts possibly out-of-order and    *)
(* overlapping substrings of a stream back together and writes the part    *)
(* that has become contiguous into a ByteStream.  As in ByteStream, an     *)
(* object is a record of the members of the class and push_substring() is  *)
(* an operator on it.                                                      *)
(*                                                                         *)
(* The two deques _buffer and _bitmap slide with the stream: position k of *)
(* each is stream index bytes_written() + k.  They are functions on        *)
(* 0..capacity-1.  The loops over them are written as the functions and    *)
(* sets they compute.                                                      *)
(***************************************************************************)
EXTENDS UInt64, ByteStream, FiniteSets

CONSTANT Capacity   \* the argument the constructor is called with

NUL == 0          \* '\0', what an unused position of _buffer holds

ReassemblerType(Byte, capacity) ==
    [buffer           : [0..(capacity - 1) -> Byte \cup {NUL}],
     bitmap           : [0..(capacity - 1) -> BOOLEAN],
     eof_flag         : BOOLEAN,
     eof_index        : 0..(AbsMod - 1),
     unassembled_bytes : Nat,
     output           : ByteStreamType(Byte),
     capacity         : {capacity}]

\* The constructor StreamReassembler(capacity).
NewStreamReassembler(capacity) ==
    [buffer           |-> [k \in 0..(capacity - 1) |-> NUL],
     bitmap           |-> [k \in 0..(capacity - 1) |-> FALSE],
     eof_flag         |-> FALSE,
     eof_index        |-> 0,
     unassembled_bytes |-> 0,
     output           |-> NewByteStream(capacity),
     capacity         |-> capacity]

\* The accessors.
stream_out(r)        == r.output
unassembled_bytes(r) == r.unassembled_bytes
empty(r)             == r.unassembled_bytes = 0

-----------------------------------------------------------------------------
\* The parts of push_substring(), in the order in which it runs them.

\* if (eof) ...: remember where the stream ends.
mark_eof(r, end, is_eof) ==
    IF is_eof THEN [r EXCEPT !.eof_flag = TRUE, !.eof_index = end] ELSE r

\* An end test that ends the output as soon as the end of the stream is known.
end_at_eof_early(r) ==
    IF r.eof_flag THEN [r EXCEPT !.output = end_input(@)] ELSE r

\* if (_eof_flag && _eof_index == bytes_written()) end_input(): done twice.
end_at_eof(r) ==
    IF r.eof_flag /\ r.eof_index = bytes_written(r.output)
    THEN [r EXCEPT !.output = end_input(@)]
    ELSE r

\* A window that does not move with the reader.
covered_fixed(r, index, end) ==
    LET first_unassembled == bytes_written(r.output)
    IN  (max(index, first_unassembled) - first_unassembled)
          .. (min(end, r.capacity) - first_unassembled - 1)

\* A window that is one byte short.
covered_short(r, index, end) ==
    LET first_unassembled  == bytes_written(r.output)
        first_unacceptable == bytes_read(r.output) + r.capacity - 1
    IN  (max(index, first_unassembled) - first_unassembled)
          .. (min(end, first_unacceptable) - first_unassembled - 1)

\* The positions of the window that data, at index..end-1, covers (cases 2 and
\* 3: with index on the right and on the left of the first unassembled byte).
covered(r, index, end) ==
    LET first_unassembled  == bytes_written(r.output)
        first_unacceptable == bytes_read(r.output) + r.capacity
    IN  (max(index, first_unassembled) - first_unassembled)
          .. (min(end, first_unacceptable) - first_unassembled - 1)

\* A store that counts a byte again when it is received again.
store_counting_twice(r, data, index, end) ==
    LET offset == bytes_written(r.output) - index
        here   == covered(r, index, end)
    IN  [r EXCEPT
           !.buffer = [k \in DOMAIN @ |-> IF k \in here /\ ~r.bitmap[k]
                                          THEN data[k + offset + 1] ELSE @[k]],
           !.bitmap = [k \in DOMAIN @ |-> @[k] \/ k \in here],
           !.unassembled_bytes = @ + Cardinality(here)]

\* A store that ignores where in the segment the window starts (case 3
\* without its offset).
store_misaligned(r, data, index, end) ==
    LET here  == covered(r, index, end)
        fresh == {k \in here : ~r.bitmap[k]}
        first == max(index - bytes_written(r.output), 0)
    IN  [r EXCEPT
           !.buffer = [k \in DOMAIN @ |-> IF k \in fresh
                                          THEN data[k - first + 1] ELSE @[k]],
           !.bitmap = [k \in DOMAIN @ |-> @[k] \/ k \in fresh],
           !.unassembled_bytes = @ + Cardinality(fresh)]

\* The loops of cases 2 and 3: keep the bytes of data that fall in the window
\* and are not there yet.
store(r, data, index, end) ==
    LET offset == bytes_written(r.output) - index
        fresh  == {k \in covered(r, index, end) : ~r.bitmap[k]}
    IN  [r EXCEPT
           !.buffer = [k \in DOMAIN @ |-> IF k \in fresh
                                          THEN data[k + offset + 1] ELSE @[k]],
           !.bitmap = [k \in DOMAIN @ |-> @[k] \/ k \in fresh],
           !.unassembled_bytes = @ + Cardinality(fresh)]

\* How many bytes at the front of the window are there.
contiguous(r) ==
    CHOOSE n \in 0..r.capacity :
        /\ \A k \in 0..(n - 1) : r.bitmap[k]
        /\ n < r.capacity => ~r.bitmap[n]

\* The while loop and the write after it: the contiguous bytes leave the
\* window, which slides, and go to the output.  What write() returns is not
\* looked at.
assemble(r) ==
    LET n   == contiguous(r)
        str == [i \in 1..n |-> r.buffer[i - 1]]
    IN  [r EXCEPT
           !.buffer = [k \in DOMAIN @ |-> IF k + n < r.capacity THEN @[k + n] ELSE NUL],
           !.bitmap = [k \in DOMAIN @ |-> k + n < r.capacity /\ @[k + n]],
           !.output = write(@, str),
           !.unassembled_bytes = @ - n]

push_substring(r, data, index, is_eof) ==
    LET end    == add64(index, Len(data))
        marked == end_at_eof(mark_eof(r, end, is_eof))
    IN  IF \/ end <= bytes_written(r.output)
           \/ index >= bytes_read(r.output) + r.capacity
        THEN marked
        ELSE end_at_eof(assemble(store(marked, data, index, end)))

=============================================================================
