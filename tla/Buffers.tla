------------------------------- MODULE Buffers -------------------------------
(***************************************************************************)
(* Buffer, BufferList and BufferViewList: strings, and lists of strings,   *)
(* that lose bytes from the front without being copied.  Copies of a       *)
(* Buffer share their storage, which is read-only, and each has an offset  *)
(* of its own; a Buffer is therefore a value here.  `storage' is a         *)
(* sequence of one string, or of none once the storage has been released.  *)
(***************************************************************************)
EXTENDS Integers, Sequences, FiniteSets, SequencesExt

NewBuffer(text) == [storage |-> <<text>>, starting_offset |-> 0]

str(b) ==
    IF b.storage = <<>> THEN <<>>
    ELSE SubSeq(b.storage[1], b.starting_offset + 1, Len(b.storage[1]))

\* Buffer::remove_prefix() for n <= size(); it throws for any other n.
buffer_remove_prefix(b, n) ==
    [storage |-> IF b.storage # <<>> /\ b.starting_offset + n = Len(b.storage[1])
                 THEN <<>> ELSE b.storage,
     starting_offset |-> b.starting_offset + n]

\* The strings of a BufferList, which are the views of a BufferViewList.
views(list) == [k \in DOMAIN list |-> str(list[k])]

concatenate(list) == FlattenSeq(views(list))

\* size(), of a BufferList and of a BufferViewList.
view_size(v) == FoldSeq(LAMBDA s, n : n + Len(s), 0, v)
list_size(list) == view_size(views(list))

\* as_iovecs(): what writev() finds behind the pointers, one after the other.
as_iovecs(v) == FlattenSeq(v)

append(list, other) == list \o other

\* The bytes in the first j strings.
upto(v, j) == view_size(SubSeq(v, 1, j))

\* How many strings the loops of both remove_prefix() methods pop: each one that
\* is reached with bytes still to remove, and has no more than those.
popped(v, n) == Cardinality({j \in DOMAIN v : upto(v, j - 1) < n /\ upto(v, j) <= n})

\* BufferList::remove_prefix().  When n is more than there is, every buffer has
\* been popped by the time it throws.
list_remove_prefix(list, n) ==
    LET v    == views(list)
        k    == popped(v, n)
        rest == SubSeq(list, k + 1, Len(list))
        more == n - upto(v, k)
    IN  IF more > 0 /\ rest # <<>>
        THEN <<buffer_remove_prefix(rest[1], more)>> \o Tail(rest)
        ELSE rest

\* A removal that keeps the whole of a view of which a part is to go.
view_remove_prefix_whole(v, n) == SubSeq(v, popped(v, n) + 1, Len(v))

\* BufferViewList::remove_prefix().
view_remove_prefix(v, n) ==
    LET k    == popped(v, n)
        rest == SubSeq(v, k + 1, Len(v))
        more == n - upto(v, k)
    IN  IF more > 0 /\ rest # <<>>
        THEN <<SubSeq(rest[1], more + 1, Len(rest[1]))>> \o Tail(rest)
        ELSE rest

=============================================================================
