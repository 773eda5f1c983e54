----------------------------- MODULE ByteStream -----------------------------
(***************************************************************************)
(* libsponge/byte_stream.{hh,cc}: the bounded in-memory FIFO that carries  *)
(* bytes from a writer to a reader.  A ByteStream object is a record whose *)
(* fields are the members of the class; every method is an operator from   *)
(* the object (and the arguments) to the new object, or to the result.     *)
(* The classes that own a ByteStream (StreamReassembler, TCPReceiver,      *)
(* TCPSender) use these operators; ByteStreamSpec puts them in a state     *)
(* machine of their own.                                                   *)
(*                                                                         *)
(* The member end_read is never read or written after construction, and is *)
(* left out.                                                               *)
(***************************************************************************)
EXTENDS Integers, Sequences

\* std::min and std::max on two integers.
min(a, b) == IF a <= b THEN a ELSE b
max(a, b) == IF a >= b THEN a ELSE b

\* The members of the class, for streams of elements of the set Byte.
ByteStreamType(Byte) ==
    [buffer        : Seq(Byte),
     capacity      : Nat,
     end_write     : BOOLEAN,
     written_bytes : Nat,
     read_bytes    : Nat,
     error         : BOOLEAN]

\* The constructor ByteStream(capa).
NewByteStream(capa) ==
    [buffer        |-> <<>>,
     capacity      |-> capa,
     end_write     |-> FALSE,
     written_bytes |-> 0,
     read_bytes    |-> 0,
     error         |-> FALSE]

-----------------------------------------------------------------------------
\* The accessors.
buffer_size(s)        == Len(s.buffer)
buffer_empty(s)       == s.buffer = <<>>
input_ended(s)        == s.end_write
eof_too_soon(s)       == s.end_write    \* (an eof() that forgets the buffered bytes)
eof(s)                == buffer_empty(s) /\ s.end_write
bytes_written(s)      == s.written_bytes
bytes_read(s)         == s.read_bytes
remaining_capacity(s) == s.capacity - Len(s.buffer)

-----------------------------------------------------------------------------
\* The methods that change the stream.

set_error(s) == [s EXCEPT !.error = TRUE]

end_input(s) == [s EXCEPT !.end_write = TRUE]

\* The number of bytes write(data) accepts, which is also what it returns.
realWrite(s, data) == min(s.capacity - Len(s.buffer), Len(data))

\* A write that counts what it was offered.
write_counting_all(s, data) ==
    [s EXCEPT !.buffer = @ \o SubSeq(data, 1, realWrite(s, data)),
              !.written_bytes = @ + Len(data)]

\* write(data) appends the prefix of data that fits and drops the rest.  It
\* does not look at end_write.
write(s, data) ==
    [s EXCEPT !.buffer = @ \o SubSeq(data, 1, realWrite(s, data)),
              !.written_bytes = @ + realWrite(s, data)]

\* peek_output(len): a copy of the first len bytes, or of all there are.
peek_output(s, len) == SubSeq(s.buffer, 1, min(len, Len(s.buffer)))

\* A pop that takes the bytes from the end they were written at.
pop_output_back(s, len) ==
    IF len > Len(s.buffer)
    THEN set_error(s)
    ELSE [s EXCEPT !.buffer = SubSeq(@, 1, Len(@) - len),
                   !.read_bytes = @ + len]

\* pop_output(len): asked for more than it holds, the stream goes into the
\* error state and removes nothing.
pop_output(s, len) ==
    IF len > Len(s.buffer)
    THEN set_error(s)
    ELSE [s EXCEPT !.buffer = SubSeq(@, len + 1, Len(@)),
                   !.read_bytes = @ + len]

\* read(len) returns the first len bytes, and pops them; asked for too much it
\* returns nothing and sets the error.
read_result(s, len) ==
    IF len > Len(s.buffer) THEN <<>> ELSE SubSeq(s.buffer, 1, len)

read(s, len) == pop_output(s, len)

=============================================================================
