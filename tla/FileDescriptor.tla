--------------------------- MODULE FileDescriptor ---------------------------
(***************************************************************************)
(* FileDescriptor and FDWrapper: reference-counted handles on descriptors  *)
(* of the kernel.  The kernel gives out the lowest free number, so that a  *)
(* number that was closed soon belongs to someone else, and every system   *)
(* call names a number: what it reaches is whatever has that number now.   *)
(*                                                                         *)
(* A system call that fails makes SystemCall() throw before anything is    *)
(* changed; such a call is no step here, except where it leaves something  *)
(* behind (CloseFails).                                                    *)
(***************************************************************************)
EXTENDS Integers, FiniteSets, FiniteSetsExt

CONSTANTS
    Wrapper,    \* the places of FDWrapper objects, constructed and destroyed again
    Number,     \* the descriptor numbers
    Kind,       \* the kinds of what may be opened
    Packets,    \* the kinds that are read a packet at a time
    MaxRefs,    \* bound: handles to one wrapper
    MaxInput    \* bound: bytes or packets waiting behind one descriptor

ASSUME DescriptorAssumption ==
    /\ Number \subseteq Nat
    /\ MaxRefs \in Nat \ {0} /\ MaxInput \in Nat

nobody == "nobody"
ASSUME NobodyAssumption == nobody \notin Wrapper

VARIABLES
    wrapper,   \* the members of each wrapper
    refs,      \* how many FileDescriptors share it
    owner,     \* kernel: the wrapper each open number was given to
    file,      \* kernel: what was opened for each wrapper: its kind, how much
               \* waits to be read, and whether more may come
    repeated   \* not in the code: the number of a descriptor that had been
               \* released may be closed again

descriptorVars == <<wrapper, refs, owner, file, repeated>>

\* What is left of a file that nobody has open.
released == [kind |-> "none", left |-> 0, more |-> FALSE]

\* The members of a wrapper that is not constructed.
unused == [fd |-> -1, eof |-> FALSE, closed |-> FALSE]

DescriptorInit ==
    /\ wrapper = [w \in Wrapper |-> unused]
    /\ refs = [w \in Wrapper |-> 0]
    /\ owner = [n \in Number |-> nobody]
    /\ file = [w \in Wrapper |-> released]
    /\ repeated = FALSE

open_numbers == {n \in Number : owner[n] # nobody}

\* The wrapper whose file w's number stands for, or nobody.
reached(w) == owner[wrapper[w].fd]

\* open(2) or the like, and the constructor.
Construct(w, kind, left, more) ==
    /\ refs[w] = 0
    /\ open_numbers # Number
    /\ LET n == Min(Number \ open_numbers)
       IN  /\ owner' = [owner EXCEPT ![n] = w]
           /\ wrapper' = [wrapper EXCEPT ![w] = [fd |-> n, eof |-> FALSE, closed |-> FALSE]]
    /\ file' = [file EXCEPT ![w] = [kind |-> kind, left |-> left, more |-> more]]
    /\ refs' = [refs EXCEPT ![w] = 1]
    /\ UNCHANGED repeated

Duplicate(w) ==
    /\ refs[w] \in 1..(MaxRefs - 1)
    /\ refs' = [refs EXCEPT ![w] = @ + 1]
    /\ UNCHANGED <<wrapper, owner, file, repeated>>

\* close(2): whoever has the number loses it.
release(w) ==
    /\ owner' = [owner EXCEPT ![wrapper[w].fd] = nobody]
    /\ file' = IF reached(w) = nobody THEN file ELSE [file EXCEPT ![reached(w)] = released]

\* FDWrapper::close().  When the number is not open, close(2) fails and the
\* flags are not set.
fd_close(w) ==
    /\ release(w)
    /\ wrapper' = IF reached(w) = nobody THEN wrapper
                  ELSE [wrapper EXCEPT ![w] = [fd |-> @.fd, eof |-> TRUE, closed |-> TRUE]]

\* FileDescriptor::close(), which does not ask whether it was called before.
Close(w) ==
    /\ refs[w] > 0
    /\ fd_close(w)
    /\ repeated' = (repeated \/ wrapper[w].closed)
    /\ UNCHANGED refs

\* close(2) reports an error of the file, such as EIO, after it has released the
\* number: close() throws before it sets the flags.
CloseFails(w) ==
    /\ refs[w] > 0 /\ reached(w) # nobody
    /\ release(w)
    /\ repeated' = TRUE
    /\ UNCHANGED <<wrapper, refs>>

\* A destructor that closes in any case.
destroy_closing(w) == release(w)

\* A destructor that leaves the descriptor open.
destroy_leaking(w) == UNCHANGED <<owner, file>>

\* ~FDWrapper().
destroy(w) ==
    \/ wrapper[w].closed /\ UNCHANGED <<owner, file>>
    \/ ~wrapper[w].closed /\ release(w)

\* A FileDescriptor goes out of scope, or is destroyed because the constructor
\* of the object it is part of has thrown.
Drop(w) ==
    /\ refs[w] > 0
    /\ refs' = [refs EXCEPT ![w] = @ - 1]
    /\ \/ refs[w] > 1 /\ UNCHANGED <<wrapper, owner, file>>
       \/ refs[w] = 1 /\ destroy(w) /\ wrapper' = [wrapper EXCEPT ![w] = unused]
    /\ UNCHANGED repeated

\* A read that takes "no bytes wanted" for "no bytes left".
found_eof_any(limit, bytes_read) == bytes_read = 0

found_eof(limit, bytes_read) == limit > 0 /\ bytes_read = 0

\* What read(2) may return from a file, when it does not block: from a stream
\* some of what is there, or nothing at its end, and from anything else a
\* packet, which may be empty.
readable(f, limit) ==
    IF f.kind \in Packets THEN {n \in 0..limit : f.left > 0}
    ELSE {n \in 0..Min({limit, f.left}) : n > 0 \/ limit = 0 \/ (f.left = 0 /\ ~f.more)}

\* How much of a file such a read uses up.
used_up(f, bytes_read) == IF f.kind \in Packets THEN 1 ELSE bytes_read

\* FileDescriptor::read(), which does not ask whether the descriptor is closed.
Read(w, limit, bytes_read) ==
    /\ refs[w] > 0 /\ reached(w) # nobody
    /\ LET f == file[reached(w)]
       IN  /\ bytes_read \in readable(f, limit)
           /\ file' = [file EXCEPT ![reached(w)].left = @ - used_up(f, bytes_read)]
    /\ wrapper' = [wrapper EXCEPT ![w].eof = @ \/ found_eof(limit, bytes_read)]
    /\ UNCHANGED <<refs, owner, repeated>>

\* The other end sends, or says that it is done.
PeerSends(w) ==
    /\ file[w].more /\ file[w].left < MaxInput
    /\ file' = [file EXCEPT ![w].left = @ + 1]
    /\ UNCHANGED <<wrapper, refs, owner, repeated>>

PeerEnds(w) ==
    /\ file[w].more
    /\ file' = [file EXCEPT ![w].more = FALSE]
    /\ UNCHANGED <<wrapper, refs, owner, repeated>>

DescriptorNext ==
    \E w \in Wrapper :
        \/ \E kind \in Kind, left \in 0..MaxInput, more \in BOOLEAN : Construct(w, kind, left, more)
        \/ Duplicate(w) \/ Close(w) \/ CloseFails(w) \/ Drop(w)
        \/ \E limit, bytes_read \in 0..MaxInput : Read(w, limit, bytes_read)
        \/ PeerSends(w) \/ PeerEnds(w)

-----------------------------------------------------------------------------
\* A descriptor that has not been closed through one of its handles is open and
\* its own: nobody's destructor or close() has closed it in passing, even after
\* its number was given out again.  This holds until some number is closed a
\* second time, by a second close() or by a destructor after a failed one.
StillOwned ==
    \A w \in Wrapper :
        refs[w] > 0 /\ ~wrapper[w].closed /\ ~repeated => reached(w) = w

\* The last handle takes the descriptor with it: nothing stays open that no
\* FileDescriptor refers to, whatever was closed twice.
NothingLeaks == \A n \in open_numbers : refs[owner[n]] > 0

\* eof() of an open stream means that everything has been read and nothing more
\* will come; a read of no bytes does not set it.  (An empty datagram does.)
EofIsReal ==
    \A w \in Wrapper :
        /\ refs[w] > 0 /\ wrapper[w].eof /\ ~wrapper[w].closed /\ ~repeated
        /\ file[w].kind \notin Packets
        => file[w].left = 0 /\ ~file[w].more

=============================================================================
