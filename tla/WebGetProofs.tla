---------------------------- MODULE WebGetProofs ----------------------------
(***************************************************************************)
(* For any number of wrappers and any set of descriptor numbers: a         *)
(* descriptor that is in use is not closed under its owner, none stays     *)
(* open without one, eof() is true when it says so, and an object of a     *)
(* socket class holds a socket of that class.  For any request, response   *)
(* and division into reads and writes: webget sends all of the one and     *)
(* prints all of the other.                                                *)
(*                                                                         *)
(* The argument is a correspondence between the two tables.  A number that *)
(* the kernel has given out leads to a wrapper that is alive, has not been *)
(* closed and has that number (Corresponds); a wrapper that is alive and   *)
(* not closed leads to a number that the kernel has given to it, as long   *)
(* as no number was closed twice (StillOwned).  A close() can then only    *)
(* hit its own descriptor, or repeat one.                                  *)
(***************************************************************************)
EXTENDS WebGet, TLAPS, WellFoundedInduction, SequenceTheorems

Types ==
    /\ wrapper \in [Wrapper -> [fd : Number \cup {-1}, eof : BOOLEAN, closed : BOOLEAN]]
    /\ refs \in [Wrapper -> Nat]
    /\ owner \in [Number -> Wrapper \cup {nobody}]
    /\ repeated \in BOOLEAN
    /\ \A w \in Wrapper : refs[w] > 0 => wrapper[w].fd \in Number

\* The kernel's table agrees with the wrappers.
Corresponds ==
    \A n \in Number :
        owner[n] # nobody =>
            /\ refs[owner[n]] > 0
            /\ wrapper[owner[n]].fd = n
            /\ ~wrapper[owner[n]].closed

Inv == Types /\ Corresponds /\ StillOwned

USE DescriptorAssumption, NobodyAssumption

\* The kernel finds a free number when there is one.
LEMMA FreeNumber ==
    ASSUME open_numbers # Number
    PROVE  Min(Number \ open_numbers) \in Number \ open_numbers
<1> DEFINE S == Number \ open_numbers
<1> DEFINE R == {ss \in Nat \X Nat : ss[1] < ss[2]}
<1>1. S \subseteq Nat /\ S # {}
  BY Zenon DEF open_numbers
<1>2. IsWellFoundedOn(R, Nat)
  BY NatLessThanWellFounded DEF OpToRel
<1>3. PICK n \in S : \A m \in S : ~(<<m, n>> \in R)
  <2> HIDE DEF R, S
  <2> QED
    BY <1>1, <1>2, WFMin, Zenon
<1>4. \A m \in S : n <= m
  <2> TAKE m \in S
  <2>1. m \in Nat /\ n \in Nat
    BY <1>1
  <2>2. ~(m < n)
    <3>1. SUFFICES ASSUME m < n PROVE FALSE
      OBVIOUS
    <3>2. <<m, n>> \in R
      BY <2>1, <3>1
    <3> QED
      BY <1>3, <3>2
  <2> QED
    BY <2>1, <2>2
<1>5. Min(S) \in S
  <2> HIDE DEF S
  <2> QED
    BY <1>3, <1>4 DEF Min
<1> QED
  BY <1>5

\* Opening a file and constructing its wrapper.
LEMMA ConstructKeeps ==
    ASSUME Inv, NEW w \in Wrapper, NEW kind, NEW left, NEW more,
           Construct(w, kind, left, more)
    PROVE  Inv'
<1> DEFINE n == Min(Number \ open_numbers)
<1>1. n \in Number /\ owner[n] = nobody
  BY FreeNumber DEF Construct, open_numbers
<1>2. /\ refs[w] = 0
      /\ owner' = [owner EXCEPT ![n] = w]
      /\ wrapper' = [wrapper EXCEPT ![w] = [fd |-> n, eof |-> FALSE, closed |-> FALSE]]
      /\ refs' = [refs EXCEPT ![w] = 1]
      /\ repeated' = repeated
  BY DEF Construct, unused
<1> HIDE DEF n
<1>3. Types'
  BY <1>1, <1>2 DEF Inv, Types
<1>4. \A m \in Number : owner[m] # w
  BY <1>2 DEF Inv, Types, Corresponds
<1>5. Corresponds'
  BY <1>1, <1>2, <1>4 DEF Inv, Types, Corresponds
<1>6. StillOwned'
  BY <1>1, <1>2, <1>4 DEF Inv, Types, StillOwned, reached
<1> QED
  BY <1>3, <1>5, <1>6 DEF Inv

\* close(2) of the number of w, by whomever: what keeps the two tables in step
\* is that the wrapper that had the number is closed or gone afterwards.
LEMMA ReleaseTables ==
    ASSUME Inv, NEW w \in Wrapper, refs[w] > 0, release(w)
    PROVE  /\ wrapper[w].fd \in Number
           /\ owner' = [owner EXCEPT ![wrapper[w].fd] = nobody]
BY DEF Inv, Types, release

LEMMA CloseKeeps ==
    ASSUME Inv, NEW w \in Wrapper, Close(w)
    PROVE  Inv'
<1> DEFINE n == wrapper[w].fd
<1>1. /\ n \in Number
      /\ owner' = [owner EXCEPT ![n] = nobody]
  BY ReleaseTables DEF Close, fd_close
<1>2. /\ refs[w] > 0 /\ refs' = refs
      /\ repeated' = (repeated \/ wrapper[w].closed)
      /\ wrapper' = IF owner[n] = nobody THEN wrapper
                    ELSE [wrapper EXCEPT ![w] = [fd |-> wrapper[w].fd, eof |-> TRUE, closed |-> TRUE]]
  BY DEF Close, fd_close, reached
<1> HIDE DEF n
<1>3. Types'
  BY <1>1, <1>2 DEF Inv, Types
<1>4. Corresponds'
  BY <1>1, <1>2 DEF Inv, Types, Corresponds, n
<1>5. StillOwned'
  BY <1>1, <1>2 DEF Inv, Types, Corresponds, StillOwned, reached, n
<1> QED
  BY <1>3, <1>4, <1>5 DEF Inv

LEMMA CloseFailsKeeps ==
    ASSUME Inv, NEW w \in Wrapper, CloseFails(w)
    PROVE  Inv'
<1> DEFINE n == wrapper[w].fd
<1>1. /\ n \in Number
      /\ owner' = [owner EXCEPT ![n] = nobody]
      /\ wrapper' = wrapper /\ refs' = refs /\ repeated' = TRUE
  BY ReleaseTables DEF CloseFails
<1> HIDE DEF n
<1> QED
  BY <1>1 DEF Inv, Types, Corresponds, StillOwned

LEMMA DropKeeps ==
    ASSUME Inv, NEW w \in Wrapper, Drop(w)
    PROVE  Inv'
<1> DEFINE n == wrapper[w].fd
<1>1. /\ refs[w] > 0 /\ n \in Number
      /\ refs' = [refs EXCEPT ![w] = @ - 1]
      /\ repeated' = repeated
  BY DEF Drop, Inv, Types
<1>2. CASE refs[w] > 1 /\ UNCHANGED <<wrapper, owner, file>>
  BY <1>1, <1>2 DEF Inv, Types, Corresponds, StillOwned, reached
<1>3. CASE refs[w] = 1 /\ destroy(w) /\ wrapper' = [wrapper EXCEPT ![w] = unused]
  <2>1. unused = [fd |-> -1, eof |-> FALSE, closed |-> FALSE]
    BY DEF unused
  <2>2. CASE wrapper[w].closed /\ UNCHANGED <<owner, file>>
    <3>1. \A m \in Number : owner[m] # w
      BY <2>2 DEF Inv, Corresponds
    <3>2. Types'
      BY <1>1, <1>3, <2>1, <2>2 DEF Inv, Types
    <3>3. Corresponds'
      BY <1>1, <1>3, <2>1, <2>2, <3>1 DEF Inv, Types, Corresponds
    <3>4. StillOwned'
      BY <1>1, <1>3, <2>1, <2>2, <3>1 DEF Inv, Types, StillOwned, reached
    <3> QED
      BY <3>2, <3>3, <3>4 DEF Inv
  <2>3. CASE ~wrapper[w].closed /\ release(w)
    <3>1. /\ owner' = [owner EXCEPT ![n] = nobody]
          BY <1>1, <2>3, ReleaseTables
    <3>2. Types'
      BY <1>1, <1>3, <2>1, <3>1 DEF Inv, Types
    <3>3. Corresponds'
      BY <1>1, <1>3, <2>1, <3>1 DEF Inv, Types, Corresponds
    <3>4. StillOwned'
      BY <1>1, <1>3, <2>1, <2>3, <3>1 DEF Inv, Types, StillOwned, reached
    <3> QED
      BY <3>2, <3>3, <3>4 DEF Inv
  <2> QED
    BY <1>3, <2>2, <2>3 DEF destroy
<1> QED
  BY <1>2, <1>3 DEF Drop

LEMMA ReadKeeps ==
    ASSUME Inv, NEW w \in Wrapper, NEW limit, NEW bytes_read, Read(w, limit, bytes_read)
    PROVE  Inv'
<1> DEFINE eof == wrapper[w].eof \/ found_eof(limit, bytes_read)
<1>1. /\ refs' = refs /\ owner' = owner /\ repeated' = repeated
      /\ wrapper' = [wrapper EXCEPT ![w].eof = eof]
  BY DEF Read
<1>2. eof \in BOOLEAN
  BY DEF Inv, Types, found_eof
<1> HIDE DEF eof
<1>3. wrapper[w] \in [fd : Number \cup {-1}, eof : BOOLEAN, closed : BOOLEAN]
  BY DEF Inv, Types
<1>4. /\ wrapper' \in [Wrapper -> [fd : Number \cup {-1}, eof : BOOLEAN, closed : BOOLEAN]]
      /\ \A v \in Wrapper : wrapper'[v].fd = wrapper[v].fd /\ wrapper'[v].closed = wrapper[v].closed
  BY <1>1, <1>2, <1>3 DEF Inv, Types
<1> QED
  BY <1>1, <1>4 DEF Inv, Types, Corresponds, StillOwned, reached

\* A step that leaves the two tables alone, or adds a handle.
LEMMA OthersKeep ==
    ASSUME Inv, UNCHANGED <<wrapper, owner, repeated>>,
           refs' = refs \/ \E w \in Wrapper : refs[w] > 0 /\ refs' = [refs EXCEPT ![w] = @ + 1]
    PROVE  Inv'
BY SMTT(30) DEF Inv, Types, Corresponds, StillOwned, reached

LEMMA DescriptorStep ==
    ASSUME Inv, DescriptorNext
    PROVE  Inv'
<1>1. PICK w \in Wrapper :
          \/ \E kind \in Kind, left \in 0..MaxInput, more \in BOOLEAN : Construct(w, kind, left, more)
          \/ Duplicate(w) \/ Close(w) \/ CloseFails(w) \/ Drop(w)
          \/ \E limit, bytes_read \in 0..MaxInput : Read(w, limit, bytes_read)
          \/ PeerSends(w) \/ PeerEnds(w)
  BY DEF DescriptorNext
<1>2. CASE \E kind \in Kind, left \in 0..MaxInput, more \in BOOLEAN : Construct(w, kind, left, more)
  BY <1>2, ConstructKeeps
<1>3. CASE Duplicate(w)
  <2>1. refs[w] > 0
    BY <1>3 DEF Duplicate, Inv, Types
  <2>2. UNCHANGED <<wrapper, owner, repeated>> /\ refs' = [refs EXCEPT ![w] = @ + 1]
    BY <1>3 DEF Duplicate
  <2> QED
    BY <2>1, <2>2, OthersKeep, Zenon
<1>4. CASE Close(w)
  BY <1>4, CloseKeeps
<1>5. CASE CloseFails(w)
  BY <1>5, CloseFailsKeeps
<1>6. CASE Drop(w)
  BY <1>6, DropKeeps
<1>7. CASE \E limit, bytes_read \in 0..MaxInput : Read(w, limit, bytes_read)
  BY <1>7, ReadKeeps
<1>8. CASE PeerSends(w) \/ PeerEnds(w)
  BY <1>8, OthersKeep DEF PeerSends, PeerEnds
<1> QED
  BY <1>1, <1>2, <1>3, <1>4, <1>5, <1>6, <1>7, <1>8

LEMMA SocketStep ==
    ASSUME Inv, SocketNext
    PROVE  Inv'
<1>1. CASE DescriptorNext /\ keep_class
  BY <1>1, DescriptorStep
<1>2. ASSUME NEW w \in Wrapper, NEW c, NewSocket(w, c)
      PROVE  Inv'
  BY <1>2, ConstructKeeps, Zenon DEF NewSocket
<1>3. ASSUME NEW w \in Wrapper, NEW c, Adopt(w, c)
      PROVE  Inv'
  BY <1>3, DropKeeps, OthersKeep DEF Adopt, descriptorVars
<1>4. ASSUME NEW w \in Wrapper, SetInterface(w)
      PROVE  Inv'
  BY <1>4, DropKeeps, OthersKeep DEF SetInterface, descriptorVars
<1>5. ASSUME NEW w \in Wrapper, Listen(w) \/ ShutdownRead(w)
      PROVE  Inv'
  BY <1>5, OthersKeep DEF Listen, ShutdownRead
<1>6. ASSUME NEW w \in Wrapper, NEW new \in Wrapper, Accept(w, new)
      PROVE  Inv'
  BY <1>6, ConstructKeeps, Zenon DEF Accept
<1> QED
  BY <1>1, <1>2, <1>3, <1>4, <1>5, <1>6 DEF SocketNext

-----------------------------------------------------------------------------
(***************************************************************************)
(* What is behind a descriptor, and which class its handles have.          *)
(***************************************************************************)

\* In use through a number that nobody has closed twice.
Live(w) == refs[w] > 0 /\ ~wrapper[w].closed /\ ~repeated

Classes == SocketClass \cup {"FileDescriptor", "TunTapFD"}

FileTypes ==
    /\ file \in [Wrapper -> [kind : Kinds \cup {"none"}, left : Nat, more : BOOLEAN]]
    /\ class \in [Wrapper -> Classes]

\* What ClassIsKind says of a class and the kind of a file.
Matches(c, kind) ==
    /\ c \in SocketClass => so_domain(kind) = domain(c) /\ so_type(kind) = type(c)
    /\ c = "TunTapFD" => kind = "tun"

FileInv ==
    /\ FileTypes
    /\ EofIsReal
    /\ \A w \in Wrapper : refs[w] = 0 => class[w] = "FileDescriptor"
    /\ \A w \in Wrapper : Live(w) => Matches(class[w], file[w].kind)

\* What a descriptor in use has behind it is left alone.
Same(w) == Live(w) /\ file'[w] = file[w] /\ wrapper'[w].eof = wrapper[w].eof

USE SocketAssumption

LEMMA FileFields ==
    ASSUME FileTypes, NEW w \in Wrapper
    PROVE  /\ file[w].kind \in Kinds \cup {"none"} /\ file[w].left \in Nat /\ file[w].more \in BOOLEAN
           /\ class[w] \in Classes
BY DEF FileTypes

\* A close(2) leaves every other descriptor in use alone.
LEMMA ReleaseSame ==
    ASSUME Inv, NEW w \in Wrapper, refs[w] > 0, ~wrapper[w].closed, ~repeated, release(w),
           NEW v \in Wrapper, v # w
    PROVE  file'[v] = file[v]
<1>1. reached(w) = w
  BY DEF Inv, StillOwned
<1> QED
  BY <1>1 DEF release

LEMMA ReleaseTypes ==
    ASSUME FileTypes, NEW w, release(w)
    PROVE  file' \in [Wrapper -> [kind : Kinds \cup {"none"}, left : Nat, more : BOOLEAN]]
<1>1. released \in [kind : Kinds \cup {"none"}, left : Nat, more : BOOLEAN]
  BY DEF released
<1> HIDE DEF released
<1> QED
  BY <1>1, Zenon DEF release, FileTypes

LEMMA CloseSame ==
    ASSUME Inv, FileTypes, NEW w \in Wrapper, Close(w)
    PROVE  /\ file' \in [Wrapper -> [kind : Kinds \cup {"none"}, left : Nat, more : BOOLEAN]]
           /\ refs' = refs
           /\ \A v \in Wrapper : Live(v)' => Same(v)
<1>1. /\ refs[w] > 0 /\ refs' = refs /\ release(w)
      /\ repeated' = (repeated \/ wrapper[w].closed)
      /\ wrapper' = IF reached(w) = nobody THEN wrapper
                    ELSE [wrapper EXCEPT ![w] = [fd |-> wrapper[w].fd, eof |-> TRUE, closed |-> TRUE]]
  BY DEF Close, fd_close
<1>2. ASSUME NEW v \in Wrapper, Live(v)' PROVE Same(v)
  <2>1. ~repeated /\ ~wrapper[w].closed /\ reached(w) = w
    BY <1>1, <1>2, Zenon DEF Live, Inv, StillOwned
  <2>2. w # nobody
    BY NobodyAssumption
  <2>3. wrapper' = [wrapper EXCEPT ![w] = [fd |-> wrapper[w].fd, eof |-> TRUE, closed |-> TRUE]]
    BY <1>1, <2>1, <2>2
  <2>4. v # w
    BY <1>2, <2>3 DEF Live, Inv, Types
  <2>5. file'[v] = file[v]
    BY <1>1, <2>1, <2>4, ReleaseSame
  <2>6. wrapper'[v] = wrapper[v]
    BY <2>3, <2>4 DEF Inv, Types
  <2> QED
    BY <1>1, <1>2, <2>1, <2>5, <2>6, Zenon DEF Live, Same
<1> QED
  BY <1>1, <1>2, ReleaseTypes

LEMMA CloseFailsSame ==
    ASSUME FileTypes, NEW w \in Wrapper, CloseFails(w)
    PROVE  /\ file' \in [Wrapper -> [kind : Kinds \cup {"none"}, left : Nat, more : BOOLEAN]]
           /\ refs' = refs
           /\ \A v \in Wrapper : Live(v)' => Same(v)
BY ReleaseTypes DEF CloseFails, Live

LEMMA DropSame ==
    ASSUME Inv, FileTypes, NEW w \in Wrapper, Drop(w)
    PROVE  /\ file' \in [Wrapper -> [kind : Kinds \cup {"none"}, left : Nat, more : BOOLEAN]]
           /\ \A v \in Wrapper : refs'[v] > 0 => refs[v] > 0
           /\ \A v \in Wrapper : Live(v)' => Same(v)
<1>1. /\ refs[w] > 0 /\ refs' = [refs EXCEPT ![w] = @ - 1] /\ repeated' = repeated
  BY DEF Drop
<1>2. CASE refs[w] > 1 /\ UNCHANGED <<wrapper, owner, file>>
  BY <1>1, <1>2 DEF FileTypes, Live, Same, Inv, Types
<1>3. CASE refs[w] = 1 /\ destroy(w) /\ wrapper' = [wrapper EXCEPT ![w] = unused]
  <2>1. \A v \in Wrapper : refs'[v] > 0 => v # w /\ refs'[v] = refs[v] /\ wrapper'[v] = wrapper[v]
    BY <1>1, <1>3 DEF Inv, Types
  <2>2. file' \in [Wrapper -> [kind : Kinds \cup {"none"}, left : Nat, more : BOOLEAN]]
    BY <1>3, ReleaseTypes DEF destroy, FileTypes
  <2>3. ASSUME NEW v \in Wrapper, Live(v)' PROVE Same(v)
    <3>1. v # w /\ refs'[v] = refs[v] /\ wrapper'[v] = wrapper[v] /\ ~repeated
      BY <1>1, <2>1, <2>3 DEF Live
    <3>2. file'[v] = file[v]
      BY <1>1, <1>3, <3>1, ReleaseSame DEF destroy
    <3> QED
      BY <1>1, <2>3, <3>1, <3>2 DEF Live, Same
  <2> QED
    BY <2>1, <2>2, <2>3
<1> QED
  BY <1>2, <1>3 DEF Drop

LEMMA ConstructSame ==
    ASSUME Inv, FileTypes, NEW w \in Wrapper, NEW kind \in Kinds, NEW left \in Nat,
           NEW more \in BOOLEAN, Construct(w, kind, left, more)
    PROVE  /\ file' \in [Wrapper -> [kind : Kinds \cup {"none"}, left : Nat, more : BOOLEAN]]
           /\ refs[w] = 0 /\ refs' = [refs EXCEPT ![w] = 1]
           /\ file'[w].kind = kind /\ file'[w].left = left /\ file'[w].more = more
           /\ ~wrapper'[w].eof /\ ~wrapper'[w].closed /\ repeated' = repeated
           /\ \A v \in Wrapper \ {w} : Live(v)' => Same(v)
<1>1. /\ refs[w] = 0 /\ refs' = [refs EXCEPT ![w] = 1] /\ repeated' = repeated
      /\ \E n : wrapper' = [wrapper EXCEPT ![w] = [fd |-> n, eof |-> FALSE, closed |-> FALSE]]
      /\ file' = [file EXCEPT ![w] = [kind |-> kind, left |-> left, more |-> more]]
  BY Zenon DEF Construct
<1>2. /\ wrapper'[w].eof = FALSE /\ wrapper'[w].closed = FALSE
      /\ \A v \in Wrapper \ {w} : wrapper'[v] = wrapper[v]
  BY <1>1 DEF Inv, Types
<1>3. \A v \in Wrapper \ {w} : refs'[v] = refs[v] /\ file'[v] = file[v]
  BY <1>1 DEF Inv, Types, FileTypes
<1>4. /\ file' \in [Wrapper -> [kind : Kinds \cup {"none"}, left : Nat, more : BOOLEAN]]
      /\ file'[w] = [kind |-> kind, left |-> left, more |-> more]
  BY <1>1 DEF FileTypes
<1> QED
  BY <1>1, <1>2, <1>3, <1>4 DEF Live, Same

\* A step that leaves what is in use alone, and gives no new classes.
LEMMA SameKeeps ==
    ASSUME FileInv, keep_class, refs' \in [Wrapper -> Nat],
           file' \in [Wrapper -> [kind : Kinds \cup {"none"}, left : Nat, more : BOOLEAN]],
           \A v \in Wrapper : Live(v)' => Same(v)
    PROVE  FileInv'
<1>1. /\ class' = [v \in Wrapper |-> IF refs'[v] = 0 THEN "FileDescriptor" ELSE class[v]]
  BY DEF keep_class
<1>2. /\ class' \in [Wrapper -> Classes]
      /\ \A v \in Wrapper : refs'[v] = 0 => class'[v] = "FileDescriptor"
      /\ \A v \in Wrapper : refs'[v] > 0 => class'[v] = class[v]
  BY <1>1 DEF FileInv, FileTypes, Classes
<1>3. EofIsReal'
  BY DEF EofIsReal, FileInv, Live, Same
<1>4. \A v \in Wrapper : Live(v)' => Matches(class'[v], file'[v].kind)
  BY <1>2 DEF FileInv, Live, Same
<1> QED
  BY <1>2, <1>3, <1>4 DEF FileInv, FileTypes

\* A new file has no class yet, or the class it was made for.
LEMMA NewKeeps ==
    ASSUME Inv, FileInv, NEW w \in Wrapper, NEW kind \in Kinds, NEW left \in Nat,
           NEW more \in BOOLEAN, Construct(w, kind, left, more),
           NEW c \in Classes, Matches(c, kind),
           class' = [class EXCEPT ![w] = c]
    PROVE  FileInv'
<1>1. /\ file' \in [Wrapper -> [kind : Kinds \cup {"none"}, left : Nat, more : BOOLEAN]]
      /\ refs' = [refs EXCEPT ![w] = 1]
      /\ file'[w].kind = kind
      /\ ~wrapper'[w].eof
      /\ \A v \in Wrapper \ {w} : Live(v)' => Same(v)
  BY ConstructSame DEF FileInv
<1>2. /\ class' \in [Wrapper -> Classes] /\ class'[w] = c
      /\ \A v \in Wrapper \ {w} : class'[v] = class[v] /\ refs'[v] = refs[v]
      /\ refs'[w] = 1
  BY <1>1 DEF FileInv, FileTypes, Inv, Types
<1>3. EofIsReal'
  BY <1>1 DEF EofIsReal, FileInv, Live, Same
<1>4. \A v \in Wrapper : Live(v)' => Matches(class'[v], file'[v].kind)
  BY <1>1, <1>2 DEF FileInv, Live, Same
<1>5. \A v \in Wrapper : refs'[v] = 0 => class'[v] = "FileDescriptor"
  BY <1>2 DEF FileInv
<1> QED
  BY <1>1, <1>2, <1>3, <1>4, <1>5 DEF FileInv, FileTypes

\* The smaller of two numbers.
LEMMA MinOfTwo ==
    ASSUME NEW a \in Nat, NEW b \in Nat
    PROVE  Min({a, b}) \in Nat /\ Min({a, b}) <= a /\ Min({a, b}) <= b
<1>1. \E x \in {a, b} : \A y \in {a, b} : x <= y
  OBVIOUS
<1>2. /\ Min({a, b}) \in {a, b}
      /\ \A y \in {a, b} : Min({a, b}) <= y
  BY <1>1 DEF Min
<1> QED
  BY <1>2

\* What a read returns of a stream: no more than there is, and nothing at all
\* only at its end.
LEMMA ReadableIs ==
    ASSUME NEW f \in [kind : Kinds \cup {"none"}, left : Nat, more : BOOLEAN],
           NEW limit \in Nat, NEW n, n \in readable(f, limit)
    PROVE  /\ n \in Nat /\ used_up(f, n) \in Nat /\ used_up(f, n) <= f.left
           /\ f.kind \notin Packets =>
                /\ used_up(f, n) = n
                /\ found_eof(limit, n) => f.left = 0 /\ ~f.more
<1>1. CASE f.kind \in Packets
  BY <1>1 DEF readable, used_up
<1>2. CASE f.kind \notin Packets
  <2>1. /\ n \in 0..Min({limit, f.left})
        /\ n > 0 \/ limit = 0 \/ (f.left = 0 /\ ~f.more)
    BY <1>2 DEF readable
  <2>2. Min({limit, f.left}) \in Nat /\ Min({limit, f.left}) <= f.left
    BY MinOfTwo
  <2>3. n \in Nat /\ n <= f.left
    BY <2>1, <2>2
  <2> QED
    BY <1>2, <2>1, <2>3 DEF used_up, found_eof
<1> QED
  BY <1>1, <1>2

\* read(), whichever file the number leads to.
LEMMA ReadFile ==
    ASSUME Inv, FileInv, NEW w \in Wrapper, NEW limit \in Nat, NEW n, Read(w, limit, n)
    PROVE  /\ reached(w) \in Wrapper /\ n \in Nat
           /\ file' \in [Wrapper -> [kind : Kinds \cup {"none"}, left : Nat, more : BOOLEAN]]
           /\ refs' = refs /\ owner' = owner /\ repeated' = repeated
           /\ \A v \in Wrapper : /\ file'[v].kind = file[v].kind /\ file'[v].more = file[v].more
                                 /\ v # reached(w) => file'[v] = file[v]
                                 /\ wrapper'[v].fd = wrapper[v].fd
                                 /\ wrapper'[v].closed = wrapper[v].closed
                                 /\ v # w => wrapper'[v] = wrapper[v]
           /\ file'[reached(w)].left = file[reached(w)].left - used_up(file[reached(w)], n)
           /\ n \in readable(file[reached(w)], limit)
           /\ wrapper'[w].eof = (wrapper[w].eof \/ found_eof(limit, n))
<1> DEFINE u == reached(w)
           d == used_up(file[u], n)
           e == found_eof(limit, n)
<1>1. /\ refs[w] > 0 /\ refs' = refs /\ owner' = owner /\ repeated' = repeated
      /\ u # nobody /\ n \in readable(file[u], limit)
      /\ file' = [file EXCEPT ![u].left = @ - d]
      /\ wrapper' = [wrapper EXCEPT ![w].eof = @ \/ e]
  BY DEF Read
<1>2. u \in Wrapper
  BY <1>1 DEF Inv, Types, reached
<1>3. /\ file \in [Wrapper -> [kind : Kinds \cup {"none"}, left : Nat, more : BOOLEAN]]
      /\ file[u] \in [kind : Kinds \cup {"none"}, left : Nat, more : BOOLEAN]
  BY <1>2 DEF FileInv, FileTypes
<1>4. n \in Nat /\ d \in Nat /\ d <= file[u].left
  BY <1>1, <1>3, ReadableIs
<1>5. e \in BOOLEAN
  BY DEF found_eof
<1>6. /\ wrapper \in [Wrapper -> [fd : Number \cup {-1}, eof : BOOLEAN, closed : BOOLEAN]]
      /\ wrapper[w] \in [fd : Number \cup {-1}, eof : BOOLEAN, closed : BOOLEAN]
  BY DEF Inv, Types
<1> HIDE DEF u, d, e
<1>7. /\ file' \in [Wrapper -> [kind : Kinds \cup {"none"}, left : Nat, more : BOOLEAN]]
      /\ file'[u].left = file[u].left - d
      /\ \A v \in Wrapper : /\ file'[v].kind = file[v].kind /\ file'[v].more = file[v].more
                            /\ v # u => file'[v] = file[v]
  BY <1>1, <1>2, <1>3, <1>4
<1>8. /\ wrapper'[w].eof = (wrapper[w].eof \/ e)
      /\ \A v \in Wrapper : /\ wrapper'[v].fd = wrapper[v].fd
                            /\ wrapper'[v].closed = wrapper[v].closed
                            /\ v # w => wrapper'[v] = wrapper[v]
  BY <1>1, <1>5, <1>6
<1> QED
  BY <1>1, <1>2, <1>4, <1>7, <1>8 DEF u, d, e

\* A read that finds the end of a stream is right.
LEMMA ReadKeepsFile ==
    ASSUME Inv, FileInv, NEW w \in Wrapper, NEW limit \in Nat, NEW n, Read(w, limit, n),
           keep_class
    PROVE  FileInv'
<1> DEFINE u == reached(w)
<1>1. /\ u \in Wrapper /\ n \in Nat
      /\ file' \in [Wrapper -> [kind : Kinds \cup {"none"}, left : Nat, more : BOOLEAN]]
      /\ refs' = refs /\ owner' = owner /\ repeated' = repeated
      /\ \A v \in Wrapper : /\ file'[v].kind = file[v].kind /\ file'[v].more = file[v].more
                            /\ v # u => file'[v] = file[v]
                            /\ wrapper'[v].fd = wrapper[v].fd
                            /\ wrapper'[v].closed = wrapper[v].closed
                            /\ v # w => wrapper'[v] = wrapper[v]
      /\ file'[u].left = file[u].left - used_up(file[u], n)
      /\ n \in readable(file[u], limit)
      /\ wrapper'[w].eof = (wrapper[w].eof \/ found_eof(limit, n))
  BY ReadFile
<1>2. file[u] \in [kind : Kinds \cup {"none"}, left : Nat, more : BOOLEAN]
  BY <1>1 DEF FileInv, FileTypes
<1>3. /\ used_up(file[u], n) \in Nat /\ used_up(file[u], n) <= file[u].left
      /\ file[u].kind \notin Packets /\ found_eof(limit, n) =>
             used_up(file[u], n) = n /\ file[u].left = 0 /\ ~file[u].more
  BY <1>1, <1>2, ReadableIs
<1> HIDE DEF u
<1>4. ASSUME NEW v \in Wrapper, refs'[v] > 0, wrapper'[v].eof, ~wrapper'[v].closed, ~repeated',
             file'[v].kind \notin Packets
      PROVE  file'[v].left = 0 /\ ~file'[v].more
  <2>1. refs[v] > 0 /\ ~wrapper[v].closed /\ ~repeated /\ file[v].kind \notin Packets
    BY <1>1, <1>4
  <2>2. v = w => u = w
    BY <2>1 DEF Inv, StillOwned, u
  <2>3. wrapper[v].eof => file[v].left = 0 /\ ~file[v].more
    BY <2>1 DEF FileInv, EofIsReal
  <2>4. file[v].left = 0 => file'[v].left = 0
    BY <1>1, <1>2, <1>3
  <2>5. ~wrapper[v].eof => v = w /\ found_eof(limit, n)
    BY <1>1, <1>4, Zenon
  <2>6. file[v].left = 0 /\ ~file[v].more
    BY <1>3, <2>1, <2>2, <2>3, <2>5
  <2> QED
    BY <1>1, <2>4, <2>6
<1>5. EofIsReal'
  BY <1>4 DEF EofIsReal
<1>6. class' = [v \in Wrapper |-> IF refs'[v] = 0 THEN "FileDescriptor" ELSE class[v]]
  BY DEF keep_class
<1>7. \A v \in Wrapper : class'[v] = class[v]
  BY <1>1, <1>6 DEF FileInv
<1>8. class' \in [Wrapper -> Classes]
  BY <1>6, <1>7 DEF FileInv, FileTypes
<1>9. /\ \A v \in Wrapper : refs'[v] = 0 => class'[v] = "FileDescriptor"
      /\ \A v \in Wrapper : Live(v)' => Matches(class'[v], file'[v].kind)
  BY <1>1, <1>7 DEF FileInv, Live
<1> QED
  BY <1>1, <1>5, <1>8, <1>9 DEF FileInv, FileTypes

\* A step that destroys nothing takes no class away.
LEMMA ClassStays ==
    ASSUME FileInv, keep_class, refs' = refs
    PROVE  class' = class
<1>1. class' = [v \in Wrapper |-> IF refs[v] = 0 THEN "FileDescriptor" ELSE class[v]]
  BY DEF keep_class
<1>2. class \in [Wrapper -> Classes] /\ \A v \in Wrapper : refs[v] = 0 => class[v] = "FileDescriptor"
  BY DEF FileInv, FileTypes
<1> QED
  BY <1>1, <1>2

\* What the other end, listen() and shutdown() do to a file in place.
LEMMA ChangeKeeps ==
    ASSUME FileInv, UNCHANGED <<wrapper, refs, repeated>>, class' = class,
           NEW u \in Wrapper, NEW g \in [kind : Kinds \cup {"none"}, left : Nat, more : BOOLEAN],
           file' = [file EXCEPT ![u] = g],
           g.kind = file[u].kind \/ (file[u].kind = "tcp" /\ g.kind = "listener"),
           ~file[u].more => g.left = file[u].left /\ ~g.more
    PROVE  FileInv'
<1>1. /\ file \in [Wrapper -> [kind : Kinds \cup {"none"}, left : Nat, more : BOOLEAN]]
      /\ class \in [Wrapper -> Classes]
  BY DEF FileInv, FileTypes
<1>2. /\ file' \in [Wrapper -> [kind : Kinds \cup {"none"}, left : Nat, more : BOOLEAN]]
      /\ file'[u] = g
      /\ \A v \in Wrapper : v # u => file'[v] = file[v]
  BY <1>1
<1>3. g.kind \notin Packets => file[u].kind \notin Packets
  BY DEF PacketKinds
<1>4. EofIsReal'
  BY <1>2, <1>3 DEF FileInv, EofIsReal
<1>5. ASSUME NEW c, Matches(c, file[u].kind) PROVE Matches(c, g.kind)
  BY <1>5 DEF Matches, so_domain, so_type
<1>6. \A v \in Wrapper : Live(v)' => Matches(class'[v], file'[v].kind)
  BY <1>2, <1>5 DEF FileInv, Live
<1> QED
  BY <1>1, <1>2, <1>4, <1>6 DEF FileInv, FileTypes

LEMMA PeerKeepsFile ==
    ASSUME FileInv, NEW w \in Wrapper, PeerSends(w) \/ PeerEnds(w), keep_class
    PROVE  FileInv'
<1>1. UNCHANGED <<wrapper, refs, repeated>> /\ file[w].more
  BY DEF PeerSends, PeerEnds
<1>2. class' = class
  BY <1>1, ClassStays
<1>3. /\ file \in [Wrapper -> [kind : Kinds \cup {"none"}, left : Nat, more : BOOLEAN]]
      /\ file[w] \in [kind : Kinds \cup {"none"}, left : Nat, more : BOOLEAN]
  BY DEF FileInv, FileTypes
<1>4. CASE PeerSends(w)
  <2> DEFINE g == [file[w] EXCEPT !.left = @ + 1]
  <2>1. /\ file' = [file EXCEPT ![w] = g] /\ g.kind = file[w].kind
        /\ g \in [kind : Kinds \cup {"none"}, left : Nat, more : BOOLEAN]
    BY <1>3, <1>4 DEF PeerSends
  <2> HIDE DEF g
  <2> QED
    BY <1>1, <1>2, <2>1, ChangeKeeps, Zenon
<1>5. CASE PeerEnds(w)
  <2> DEFINE g == [file[w] EXCEPT !.more = FALSE]
  <2>1. /\ file' = [file EXCEPT ![w] = g] /\ g.kind = file[w].kind
        /\ g \in [kind : Kinds \cup {"none"}, left : Nat, more : BOOLEAN]
    BY <1>3, <1>5, Zenon DEF PeerEnds
  <2> HIDE DEF g
  <2> QED
    BY <1>1, <1>2, <2>1, ChangeKeeps, Zenon
<1> QED
  BY <1>4, <1>5

\* listen() and shutdown(SHUT_RD).
LEMMA InPlaceKeepsFile ==
    ASSUME Inv, FileInv, NEW w \in Wrapper, Listen(w) \/ ShutdownRead(w)
    PROVE  FileInv'
<1> DEFINE u == reached(w)
<1>1. UNCHANGED <<wrapper, refs, repeated>> /\ class' = class /\ refs[w] > 0 /\ u # nobody
  BY DEF Listen, ShutdownRead
<1>2. u \in Wrapper
  BY <1>1, Zenon DEF Inv, Types, reached
<1>3. /\ file \in [Wrapper -> [kind : Kinds \cup {"none"}, left : Nat, more : BOOLEAN]]
      /\ file[u] \in [kind : Kinds \cup {"none"}, left : Nat, more : BOOLEAN]
  BY <1>2 DEF FileInv, FileTypes
<1>4. CASE Listen(w)
  <2> DEFINE g == [file[u] EXCEPT !.kind = "listener"]
  <2>1. file' = [file EXCEPT ![u].kind = "listener"] /\ file[u].kind = "tcp"
    BY <1>4 DEF Listen
  <2> HIDE DEF u
  <2>2. /\ file' = [file EXCEPT ![u] = g] /\ g.kind = "listener"
        /\ g.left = file[u].left /\ g.more = file[u].more
        /\ g \in [kind : Kinds \cup {"none"}, left : Nat, more : BOOLEAN]
    BY <1>2, <1>3, <2>1 DEF Kinds
  <2> HIDE DEF g
  <2> QED
    BY <1>1, <1>2, <2>1, <2>2, ChangeKeeps, Zenon
<1>5. CASE ShutdownRead(w)
  <2> DEFINE g == [file[u] EXCEPT !.more = FALSE]
  <2>1. file' = [file EXCEPT ![u].more = FALSE]
    BY <1>5 DEF ShutdownRead
  <2> HIDE DEF u
  <2>2. /\ file' = [file EXCEPT ![u] = g] /\ g.kind = file[u].kind
        /\ g.left = file[u].left /\ g.more = FALSE
        /\ g \in [kind : Kinds \cup {"none"}, left : Nat, more : BOOLEAN]
    BY <1>2, <1>3, <2>1, Zenon
  <2> HIDE DEF g
  <2> QED
    BY <1>1, <1>2, <2>2, ChangeKeeps, Zenon
<1> QED
  BY <1>4, <1>5

\* A descriptor that passes verification is what its new class says.
LEMMA AdoptKeepsFile ==
    ASSUME Inv, FileInv, NEW w \in Wrapper, refs[w] > 0, NEW c \in Classes, UNCHANGED descriptorVars,
           class' = [class EXCEPT ![w] = c],
           reached(w) # nobody, Matches(c, file[reached(w)].kind)
    PROVE  FileInv'
<1>1. UNCHANGED <<wrapper, refs, owner, file, repeated>>
  BY DEF descriptorVars
<1>2. /\ class' \in [Wrapper -> Classes] /\ class'[w] = c
      /\ \A v \in Wrapper : v # w => class'[v] = class[v]
  BY DEF FileInv, FileTypes
<1>3. ASSUME NEW v \in Wrapper, Live(v)' PROVE Matches(class'[v], file'[v].kind)
  <2>1. Live(v)
    BY <1>1, <1>3 DEF Live
  <2>2. v = w => reached(w) = w
    BY <2>1 DEF Live, Inv, StillOwned
  <2> QED
    BY <1>1, <1>2, <2>1, <2>2 DEF FileInv
<1> QED
  BY <1>1, <1>2, <1>3 DEF FileInv, FileTypes, EofIsReal, Inv, Types

LEMMA DropKeepsFile ==
    ASSUME Inv, FileInv, NEW w \in Wrapper, Drop(w), keep_class
    PROVE  FileInv'
<1>1. refs' \in [Wrapper -> Nat]
  BY DropKeeps DEF Inv, Types
<1> QED
  BY <1>1, DropSame, SameKeeps DEF FileInv

\* Any step of a program that uses descriptors and sockets.
LEMMA SocketStepFile ==
    ASSUME Inv, FileInv, SocketNext
    PROVE  FileInv'
<1>1. refs' \in [Wrapper -> Nat]
  BY SocketStep DEF Inv, Types
<1>2. CASE DescriptorNext /\ keep_class
  <2>1. PICK w \in Wrapper :
            \/ \E kind \in Kind, left \in 0..MaxInput, more \in BOOLEAN : Construct(w, kind, left, more)
            \/ Duplicate(w) \/ Close(w) \/ CloseFails(w) \/ Drop(w)
            \/ \E limit, bytes_read \in 0..MaxInput : Read(w, limit, bytes_read)
            \/ PeerSends(w) \/ PeerEnds(w)
    BY <1>2 DEF DescriptorNext
  <2>2. ASSUME NEW kind \in Kind, NEW left \in 0..MaxInput, NEW more \in BOOLEAN,
               Construct(w, kind, left, more)
        PROVE  FileInv'
    <3>1. kind \in Kinds /\ left \in Nat
      OBVIOUS
    <3>2. refs[w] = 0 /\ refs' = [refs EXCEPT ![w] = 1] /\ refs \in [Wrapper -> Nat]
      BY <2>2 DEF Construct, Inv, Types
    <3>3. class' = [class EXCEPT ![w] = "FileDescriptor"]
      <4>1. class' = [v \in Wrapper |-> IF refs'[v] = 0 THEN "FileDescriptor" ELSE class[v]]
        BY <1>2 DEF keep_class
      <4>2. class \in [Wrapper -> Classes]
            /\ \A v \in Wrapper : refs[v] = 0 => class[v] = "FileDescriptor"
        BY DEF FileInv, FileTypes
      <4> QED
        BY <3>2, <4>1, <4>2, Zenon
    <3>4. "FileDescriptor" \in Classes /\ Matches("FileDescriptor", kind)
      BY DEF Classes, Matches, SocketClass
    <3> QED
      BY <2>2, <3>1, <3>3, <3>4, NewKeeps, Zenon
  <2>3. CASE Duplicate(w)
    <3>1. /\ UNCHANGED <<wrapper, owner, file, repeated>>
          /\ \A v \in Wrapper : refs'[v] > 0 => refs[v] > 0
      BY <2>3 DEF Duplicate, Inv, Types
    <3>2. /\ file' \in [Wrapper -> [kind : Kinds \cup {"none"}, left : Nat, more : BOOLEAN]]
          /\ \A v \in Wrapper : Live(v)' => Same(v)
      BY <3>1 DEF FileInv, FileTypes, Live, Same
    <3> QED
      BY <1>1, <1>2, <3>2, SameKeeps
  <2>4. CASE Close(w)
    BY <1>1, <1>2, <2>4, CloseSame, SameKeeps DEF FileInv
  <2>5. CASE CloseFails(w)
    BY <1>1, <1>2, <2>5, CloseFailsSame, SameKeeps DEF FileInv
  <2>6. CASE Drop(w)
    BY <1>2, <2>6, DropKeepsFile
  <2>7. ASSUME NEW limit \in 0..MaxInput, NEW bytes_read \in 0..MaxInput, Read(w, limit, bytes_read)
        PROVE  FileInv'
    <3>1. limit \in Nat
      OBVIOUS
    <3> QED
      BY <1>2, <2>7, <3>1, ReadKeepsFile
  <2>8. CASE PeerSends(w) \/ PeerEnds(w)
    BY <1>2, <2>8, PeerKeepsFile
  <2> QED
    BY <2>1, <2>2, <2>3, <2>4, <2>5, <2>6, <2>7, <2>8
<1>3. ASSUME NEW w \in Wrapper, NEW c \in {"TCPSocket", "UDPSocket"}, NewSocket(w, c)
      PROVE  FileInv'
  <2> DEFINE kind == IF c = "TCPSocket" THEN "tcp" ELSE "udp"
  <2>1. /\ Construct(w, kind, 0, TRUE) /\ class' = [class EXCEPT ![w] = c]
        /\ kind \in Kinds /\ c \in Classes /\ 0 \in Nat /\ TRUE \in BOOLEAN
        /\ Matches(c, kind)
    BY <1>3, Zenon DEF NewSocket, Kinds, Classes, SocketClass, Matches, so_domain, so_type, domain, type
  <2> HIDE DEF kind
  <2> QED
    BY <2>1, NewKeeps, Zenon
<1>4. ASSUME NEW w \in Wrapper, NEW c \in SocketClass, Adopt(w, c)
      PROVE  FileInv'
  <2>1. CASE verified(w, c) /\ class' = [class EXCEPT ![w] = c] /\ UNCHANGED descriptorVars
    <3>1. c \in Classes /\ reached(w) # nobody /\ Matches(c, file[reached(w)].kind) /\ refs[w] > 0
      BY <1>4, <2>1 DEF Classes, SocketClass, verified, Matches, Adopt
    <3> QED
      BY <2>1, <3>1, AdoptKeepsFile, Zenon
  <2>2. CASE Drop(w) /\ keep_class
    BY <2>2, DropKeepsFile
  <2> QED
    BY <1>4, <2>1, <2>2 DEF Adopt
<1>5. ASSUME NEW w \in Wrapper, SetInterface(w)
      PROVE  FileInv'
  <2>1. CASE /\ reached(w) # nobody /\ file[reached(w)].kind = "tun"
             /\ class' = [class EXCEPT ![w] = "TunTapFD"] /\ UNCHANGED descriptorVars
    <3>1. /\ "TunTapFD" \in Classes /\ Matches("TunTapFD", file[reached(w)].kind) /\ refs[w] > 0
      BY <1>5, <2>1 DEF Classes, SocketClass, Matches, SetInterface
    <3> QED
      BY <2>1, <3>1, AdoptKeepsFile, Zenon
  <2>2. CASE Drop(w) /\ keep_class
    BY <2>2, DropKeepsFile
  <2> QED
    BY <1>5, <2>1, <2>2 DEF SetInterface
<1>6. ASSUME NEW w \in Wrapper, Listen(w) \/ ShutdownRead(w)
      PROVE  FileInv'
  BY <1>6, InPlaceKeepsFile
<1>7. ASSUME NEW w \in Wrapper, NEW new \in Wrapper, Accept(w, new)
      PROVE  FileInv'
  <2>1. /\ Construct(new, "tcp", 0, TRUE) /\ class' = [class EXCEPT ![new] = "TCPSocket"]
        /\ "tcp" \in Kinds /\ "TCPSocket" \in Classes /\ 0 \in Nat /\ TRUE \in BOOLEAN
        /\ Matches("TCPSocket", "tcp")
    BY <1>7, Zenon DEF Accept, Kinds, Classes, SocketClass, Matches, so_domain, so_type, domain, type
  <2> QED
    BY <2>1, NewKeeps, Zenon
<1> QED
  BY <1>2, <1>3, <1>4, <1>5, <1>6, <1>7 DEF SocketNext

-----------------------------------------------------------------------------
(***************************************************************************)
(* webget, on top of that.                                                 *)
(***************************************************************************)

\* What the proofs use of the constants.
LEMMA SockIs == sock \in Wrapper /\ MaxInput \in Nat \ {0}
BY WebGetAssumption, DescriptorAssumption

\* Almost every step of webget is one that any program may take with its
\* sockets, or none.
LEMMA StepOfSockets ==
    ASSUME [Next]_webgetVars
    PROVE  SocketNext \/ UNCHANGED socketVars \/ Killed
<1> USE SockIs
<1>1. \A code : Leave(code) => SocketNext
  BY DEF Leave, SocketNext, DescriptorNext
<1>2. MakeSocket => SocketNext \/ UNCHANGED socketVars
  BY DEF MakeSocket, SocketNext
<1>3. ReadResponse => SocketNext
  <2> SUFFICES ASSUME ReadResponse PROVE SocketNext
    OBVIOUS
  <2>1. PICK n \in 0..MaxInput : Read(sock, MaxInput, n) /\ keep_class
    BY DEF ReadResponse
  <2>2. MaxInput \in 0..MaxInput
    OBVIOUS
  <2> QED
    BY <2>1, <2>2 DEF SocketNext, DescriptorNext
<1>4. CloseSocket => SocketNext
  BY DEF CloseSocket, SocketNext, DescriptorNext
<1>5. ServerSends \/ ServerEnds => SocketNext
  BY DEF ServerSends, ServerEnds, SocketNext, DescriptorNext
<1>6. Resolve \/ Connect \/ Write \/ ShutdownWrite \/ CallFails \/ ServerReads \/ ServerResets
      => UNCHANGED socketVars
  BY DEF Resolve, Connect, Write, ShutdownWrite, CallFails, ServerReads, ServerResets
<1>7. OtherProgram => SocketNext
  BY DEF OtherProgram
<1>8. UNCHANGED webgetVars => UNCHANGED socketVars
  BY DEF webgetVars
<1> QED
  BY <1>1, <1>2, <1>3, <1>4, <1>5, <1>6, <1>7, <1>8 DEF Next, Program, Return, Unwind

\* So the tables, the files and the classes stay as they should.
LEMMA TablesKeep ==
    ASSUME Inv, FileInv, [Next]_webgetVars
    PROVE  Inv' /\ FileInv'
<1>1. CASE SocketNext
  BY <1>1, SocketStep, SocketStepFile
<1>2. CASE UNCHANGED socketVars
  <2>1. UNCHANGED <<wrapper, refs, owner, file, repeated, class>>
    BY <1>2 DEF socketVars, descriptorVars
  <2>2. Inv'
    BY <2>1, OthersKeep
  <2>3. FileInv'
    BY <2>1 DEF FileInv, FileTypes, EofIsReal, Live
  <2> QED
    BY <2>2, <2>3
<1>3. CASE Killed
  <2>1. /\ wrapper' = [w \in Wrapper |-> unused] /\ refs' = [w \in Wrapper |-> 0] /\ keep_class
        /\ owner' = [n \in Number |-> nobody] /\ file' = [w \in Wrapper |-> released]
        /\ repeated' = repeated
    BY <1>3 DEF Killed
  <2>2. unused \in [fd : Number \cup {-1}, eof : BOOLEAN, closed : BOOLEAN]
    BY DEF unused
  <2>3. released \in [kind : Kinds \cup {"none"}, left : Nat, more : BOOLEAN]
    BY DEF released
  <2>4. \A v \in Wrapper : refs'[v] = 0
    BY <2>1
  <2> HIDE DEF unused, released
  <2>5. /\ wrapper' \in [Wrapper -> [fd : Number \cup {-1}, eof : BOOLEAN, closed : BOOLEAN]]
        /\ file' \in [Wrapper -> [kind : Kinds \cup {"none"}, left : Nat, more : BOOLEAN]]
    BY <2>1, <2>2, <2>3, Zenon
  <2>6. refs' \in [Wrapper -> Nat] /\ owner' \in [Number -> Wrapper \cup {nobody}] /\ repeated' \in BOOLEAN
    BY <2>1 DEF Inv, Types
  <2>7. Inv'
    BY <2>1, <2>4, <2>5, <2>6 DEF Inv, Types, Corresponds, StillOwned
  <2>8. FileInv'
    BY <2>1, <2>4, <2>5, <2>6, SameKeeps DEF Live
  <2> QED
    BY <2>7, <2>8
<1> QED
  BY <1>1, <1>2, <1>3, StepOfSockets

\* Where webget has not been connected, is connected or has seen the end.
Before == {"socket", "elsewhere", "resolve", "connect"}
Open   == {"resolve", "connect", "write", "shutdown", "read"}
Done   == {"close", "return", "EXIT_SUCCESS"}

\* What the server has sent is either printed or still waits to be read.
PrintInv ==
    /\ printed \in Nat /\ produced \in Nat /\ printed <= produced /\ input_ended \in BOOLEAN
    /\ pc \in Before => ~connected /\ printed = 0 /\ produced = 0 /\ ~input_ended
    /\ pc = "socket" => ~repeated
    /\ pc \in Open =>
         /\ Live(sock) /\ ~wrapper[sock].eof /\ file[sock].kind = "tcp"
         /\ file[sock].left + printed = produced
         /\ file[sock].more <=> ~input_ended
    /\ pc \in Done => printed = produced /\ input_ended /\ ~file[sock].more

\* close(2) ends the input of the file it closes.
LEMMA ReleaseMore ==
    ASSUME FileTypes, NEW w, release(w), NEW v \in Wrapper, ~file[v].more
    PROVE  ~file'[v].more
<1>1. ~released.more
  BY DEF released
<1> HIDE DEF released
<1>2. file \in [Wrapper -> [kind : Kinds \cup {"none"}, left : Nat, more : BOOLEAN]]
  BY DEF FileTypes
<1> QED
  BY <1>1, <1>2 DEF release

LEMMA LeaveKeepsPrinted ==
    ASSUME Inv, FileInv, PrintInv, Return \/ Unwind
    PROVE  PrintInv'
<1>1. /\ printed' = printed /\ produced' = produced /\ input_ended' = input_ended
      /\ Drop(sock)
  BY DEF Return, Unwind, Leave
<1>2. pc' \in {"EXIT_SUCCESS", "EXIT_FAILURE"} /\ (pc' = "EXIT_SUCCESS" => pc = "return")
  BY DEF Return, Unwind, Leave
<1>3. ~file[sock].more => ~file'[sock].more
  BY <1>1, ReleaseMore, SockIs DEF Drop, destroy, FileInv
<1> QED
  BY <1>1, <1>2, <1>3 DEF PrintInv, Before, Open, Done

LEMMA MakeKeepsPrinted ==
    ASSUME Inv, FileInv, PrintInv, MakeSocket
    PROVE  PrintInv'
<1>1. /\ printed' = printed /\ produced' = produced /\ input_ended' = input_ended
      /\ connected' = connected /\ pc = "socket"
  BY DEF MakeSocket, serverVars
<1>2. CASE pc' = "EXIT_FAILURE"
  BY <1>1, <1>2 DEF PrintInv, Before, Open, Done
<1>3. CASE NewSocket(sock, "TCPSocket") /\ pc' = "resolve"
  <2>1. Construct(sock, "tcp", 0, TRUE)
    BY <1>3, Zenon DEF NewSocket
  <2>2. "tcp" \in Kinds /\ 0 \in Nat /\ TRUE \in BOOLEAN
    BY DEF Kinds
  <2>3. /\ refs' = [refs EXCEPT ![sock] = 1]
        /\ file'[sock].kind = "tcp" /\ file'[sock].left = 0 /\ file'[sock].more = TRUE
        /\ ~wrapper'[sock].eof /\ ~wrapper'[sock].closed /\ repeated' = repeated
    BY <2>1, <2>2, ConstructSame, SockIs, Zenon DEF FileInv
  <2>4. refs'[sock] = 1
    BY <2>3, SockIs DEF Inv, Types
  <2>5. /\ pc \in Before /\ ~connected /\ printed = 0 /\ produced = 0 /\ ~input_ended /\ ~repeated
    BY <1>1 DEF PrintInv, Before
  <2>6. Live(sock)'
    BY <2>3, <2>4, <2>5 DEF Live
  <2> QED
    BY <1>1, <1>3, <2>3, <2>5, <2>6 DEF PrintInv, Before, Open, Done
<1> QED
  BY <1>2, <1>3 DEF MakeSocket

\* A step that moves pc among the calls and leaves the rest alone.
LEMMA MoveKeepsPrinted ==
    ASSUME Inv, FileInv, PrintInv,
           \/ CallFails \/ Resolve \/ Connect \/ Write \/ ShutdownWrite
           \/ ServerReads \/ ServerResets
    PROVE  PrintInv'
<1>1. /\ UNCHANGED socketVars /\ UNCHANGED <<printed, produced, input_ended>>
  BY DEF CallFails, Resolve, Connect, Write, ShutdownWrite, ServerReads, ServerResets,
         serverVars, programVars
<1>2. UNCHANGED <<wrapper, refs, file, repeated>>
  BY <1>1 DEF socketVars, descriptorVars
<1>3. /\ pc' = pc \/ (pc \in Open /\ pc' \in (Open \ {"resolve"}) \cup {"unwind"})
      /\ pc' \in Before => connected' = connected /\ pc \in Before
  <2>1. CASE CallFails
    BY <2>1 DEF CallFails, Before, Open
  <2>2. CASE Resolve
    BY <2>2 DEF Resolve, Before, Open, serverVars
  <2>3. CASE Connect
    BY <2>3 DEF Connect, Before, Open
  <2>4. CASE Write
    <3>1. pc = "write" /\ pc' \in {"write", "shutdown"}
      BY <2>4 DEF Write, written
    <3> QED
      BY <3>1 DEF Before, Open
  <2>5. CASE ShutdownWrite
    BY <2>5 DEF ShutdownWrite, Before, Open
  <2>6. CASE ServerReads \/ ServerResets
    BY <2>6 DEF ServerReads, ServerResets, programVars
  <2> QED
    BY <2>1, <2>2, <2>3, <2>4, <2>5, <2>6
<1>4. /\ pc' \in Open => pc \in Open
      /\ pc' \in Done => pc \in Done
      /\ pc' = "socket" => pc = "socket"
  BY <1>3 DEF Open, Done
<1> QED
  BY <1>1, <1>2, <1>3, <1>4 DEF PrintInv, Live

\* What is read is printed, and the loop ends when nothing is left.
LEMMA ReadKeepsPrinted ==
    ASSUME Inv, FileInv, PrintInv, ReadResponse
    PROVE  PrintInv'
<1> USE SockIs
<1>1. pc = "read" /\ pc \in Open /\ pc \notin Before
  BY DEF ReadResponse, Open, Before
<1>2. PICK n \in 0..MaxInput : Read(sock, MaxInput, n) /\ printed' = printed + n
  BY DEF ReadResponse
<1>3. /\ pc' = IF wrapper'[sock].eof THEN "close" ELSE "read"
      /\ produced' = produced /\ input_ended' = input_ended
  BY DEF ReadResponse, again, serverVars
<1>4. /\ Live(sock) /\ ~wrapper[sock].eof /\ file[sock].kind = "tcp"
      /\ file[sock].left + printed = produced /\ printed \in Nat /\ produced \in Nat
      /\ file[sock].more <=> ~input_ended
      /\ input_ended \in BOOLEAN
  BY <1>1 DEF PrintInv
<1>5. reached(sock) = sock
  BY <1>4 DEF Live, Inv, StillOwned
<1>6. /\ refs' = refs /\ repeated' = repeated
      /\ file'[sock].kind = file[sock].kind /\ file'[sock].more = file[sock].more
      /\ wrapper'[sock].closed = wrapper[sock].closed
      /\ file'[sock].left = file[sock].left - used_up(file[sock], n)
      /\ n \in readable(file[sock], MaxInput)
      /\ wrapper'[sock].eof = (wrapper[sock].eof \/ found_eof(MaxInput, n))
  BY <1>2, <1>5, ReadFile
<1>7. file[sock] \in [kind : Kinds \cup {"none"}, left : Nat, more : BOOLEAN]
  BY DEF FileInv, FileTypes
<1>8. file[sock].kind \notin Packets
  BY <1>4 DEF PacketKinds
<1>9. /\ n \in Nat /\ used_up(file[sock], n) = n /\ n <= file[sock].left
      /\ found_eof(MaxInput, n) => file[sock].left = 0 /\ ~file[sock].more
  <2>1. /\ n \in Nat /\ used_up(file[sock], n) <= file[sock].left
        /\ used_up(file[sock], n) = n
        /\ found_eof(MaxInput, n) => file[sock].left = 0 /\ ~file[sock].more
    BY <1>6, <1>7, <1>8, ReadableIs
  <2> QED
    BY <2>1
<1>10. Live(sock)'
  BY <1>4, <1>6 DEF Live
<1>11. /\ printed' \in Nat /\ printed' <= produced'
       /\ file'[sock].left + printed' = produced'
       /\ file[sock].left \in Nat
  BY <1>2, <1>3, <1>4, <1>6, <1>7, <1>9, SMTT(30)
<1>12. CASE wrapper'[sock].eof
  <2>1. found_eof(MaxInput, n)
    BY <1>4, <1>6, <1>12, Zenon
  <2>2. file[sock].left = 0 /\ n = 0 /\ ~file[sock].more /\ input_ended
    BY <1>4, <1>9, <2>1
  <2>3. printed' = produced'
    BY <1>2, <1>3, <1>4, <2>2
  <2>4. pc' = "close"
    BY <1>3, <1>12
  <2> QED
    BY <1>3, <1>4, <1>6, <1>11, <2>2, <2>3, <2>4 DEF PrintInv, Before, Open, Done
<1>13. CASE ~wrapper'[sock].eof
  <2>1. pc' = "read"
    BY <1>3, <1>13
  <2> QED
    BY <1>3, <1>4, <1>6, <1>10, <1>11, <1>13, <2>1 DEF PrintInv, Before, Open, Done
<1> QED
  BY <1>12, <1>13

LEMMA CloseKeepsPrinted ==
    ASSUME Inv, FileInv, PrintInv, CloseSocket
    PROVE  PrintInv'
<1>1. /\ printed' = printed /\ produced' = produced /\ input_ended' = input_ended
      /\ pc = "close" /\ pc \in Done
      /\ pc' \in {"return", "unwind"}
      /\ Close(sock) \/ CloseFails(sock)
  BY DEF CloseSocket, Done
<1>2. ~file'[sock].more
  <2>1. ~file[sock].more
    BY <1>1 DEF PrintInv
  <2> QED
    BY <1>1, <2>1, ReleaseMore, SockIs DEF Close, fd_close, CloseFails, FileInv
<1> QED
  BY <1>1, <1>2 DEF PrintInv, Before, Open, Done

\* The server sends only to a connection that is open on our side.
LEMMA ServerKeepsPrinted ==
    ASSUME Inv, FileInv, PrintInv, ServerSends \/ ServerEnds
    PROVE  PrintInv'
<1> USE SockIs
<1>1. /\ pc' = pc /\ printed' = printed /\ connected' = connected
      /\ connected /\ file[sock].more
      /\ UNCHANGED <<wrapper, refs, repeated>>
  BY DEF ServerSends, ServerEnds, PeerSends, PeerEnds, programVars
<1>2. pc \notin Before /\ pc \notin Done
  BY <1>1 DEF PrintInv
<1>3. file[sock] \in [kind : Kinds \cup {"none"}, left : Nat, more : BOOLEAN]
  BY DEF FileInv, FileTypes
<1>4. file \in [Wrapper -> [kind : Kinds \cup {"none"}, left : Nat, more : BOOLEAN]]
  BY DEF FileInv, FileTypes
<1>5. CASE ServerSends
  <2>1. /\ file' = [file EXCEPT ![sock].left = @ + 1]
        /\ produced' = produced + 1 /\ input_ended' = input_ended
    BY <1>5 DEF ServerSends, PeerSends
  <2>2. /\ file'[sock].left = file[sock].left + 1 /\ file'[sock].kind = file[sock].kind
        /\ file'[sock].more = file[sock].more
    BY <1>3, <1>4, <2>1
  <2>3. /\ produced' \in Nat /\ printed' \in Nat /\ printed' <= produced' /\ input_ended' \in BOOLEAN
        /\ pc # "socket"
    BY <1>1, <1>2, <2>1 DEF PrintInv, Before
  <2>4. ASSUME pc \in Open
        PROVE  /\ Live(sock)' /\ ~wrapper'[sock].eof /\ file'[sock].kind = "tcp"
               /\ file'[sock].left + printed' = produced'
               /\ file'[sock].more <=> ~input_ended'
    <3>1. /\ Live(sock) /\ ~wrapper[sock].eof /\ file[sock].kind = "tcp"
          /\ file[sock].left + printed = produced /\ printed \in Nat /\ produced \in Nat
          /\ file[sock].more <=> ~input_ended
      BY <2>4 DEF PrintInv
    <3>2. file[sock].left \in Nat
      BY <1>3
    <3>3. \A x, y \in Nat : (x + 1) + y = (x + y) + 1
      OBVIOUS
    <3>4. (file[sock].left + 1) + printed = produced + 1
      BY <3>1, <3>2, <3>3, Zenon
    <3> QED
      BY <1>1, <2>1, <2>2, <3>1, <3>4 DEF Live
  <2> QED
    BY <1>1, <1>2, <2>3, <2>4 DEF PrintInv
<1>6. CASE ServerEnds
  <2>1. /\ file' = [file EXCEPT ![sock].more = FALSE]
        /\ produced' = produced /\ input_ended' = TRUE
    BY <1>6 DEF ServerEnds, PeerEnds
  <2>2. /\ file'[sock].left = file[sock].left /\ file'[sock].kind = file[sock].kind
        /\ file'[sock].more = FALSE
    BY <1>3, <1>4, <2>1
  <2>3. pc # "socket"
    BY <1>2 DEF Before
  <2> QED
    BY <1>1, <1>2, <2>1, <2>2, <2>3 DEF PrintInv, Live
<1> QED
  BY <1>5, <1>6

LEMMA PrintedKeeps ==
    ASSUME Inv, FileInv, PrintInv, [Next]_webgetVars
    PROVE  PrintInv'
<1>1. CASE UNCHANGED webgetVars
  <2>1. UNCHANGED <<wrapper, refs, file, repeated, pc, printed, connected, produced, input_ended>>
    BY <1>1 DEF webgetVars, socketVars, descriptorVars, programVars, serverVars
  <2> QED
    BY <2>1 DEF PrintInv, Live
<1>2. CASE OtherProgram
  <2>1. UNCHANGED <<pc, printed, connected, produced, input_ended>> /\ pc = "elsewhere"
    BY <1>2 DEF OtherProgram, programVars, serverVars
  <2> QED
    BY <2>1 DEF PrintInv, Open, Done
<1>3. CASE Killed
  <2>1. UNCHANGED <<printed, produced, input_ended>> /\ pc' = "SIGPIPE"
    BY <1>3 DEF Killed, serverVars
  <2> QED
    BY <2>1 DEF PrintInv, Before, Open, Done
<1>4. CASE Program
  BY <1>4, LeaveKeepsPrinted, MakeKeepsPrinted, MoveKeepsPrinted, ReadKeepsPrinted,
     CloseKeepsPrinted DEF Program
<1>5. CASE CallFails \/ ServerReads \/ ServerResets
  BY <1>5, MoveKeepsPrinted
<1>6. CASE ServerSends \/ ServerEnds
  BY <1>6, ServerKeepsPrinted
<1> QED
  BY <1>1, <1>2, <1>3, <1>4, <1>5, <1>6 DEF Next

\* Where some of the request is still to be written, and where none is.
Writing == {"socket", "elsewhere", "resolve", "connect", "write"}
Written == {"shutdown", "read", "close", "return", "EXIT_SUCCESS"}

\* How much of the request has been given to the kernel.
given == Len(received) + Len(output)

\* The server has read the beginning of the request, the kernel holds what
\* follows, and the buffer of the current write() what follows that.
RequestInv ==
    /\ pc \in Writing \cup Written \cup {"unwind", "EXIT_FAILURE", "SIGPIPE"}
    /\ received \in Seq(Char) /\ output \in Seq(Char) /\ given <= Len(Request)
    /\ \A i \in 1..Len(received) : received[i] = Request[i]
    /\ \A i \in 1..Len(output) : output[i] = Request[Len(received) + i]
    /\ part \in 1..Len(Ends)
    /\ pc \in Writing =>
         /\ buffer \in Seq(Char) /\ Len(buffer) = Ends[part] - given /\ Len(buffer) > 0
         /\ \A i \in 1..Len(buffer) : buffer[i] = Request[given + i]
    /\ pc \in Writing \cup {"shutdown", "SIGPIPE"} => ~output_ended
    /\ pc \in Written => given = Len(Request)

LEMMA RequestFacts ==
    /\ Request \in Seq(Char) /\ Len(Request) \in Nat
    /\ Ends \in Seq(1..Len(Request)) /\ Len(Ends) \in Nat \ {0}
    /\ \A k \in 1..Len(Ends) : Ends[k] \in 1..Len(Request)
    /\ \A k \in 1..(Len(Ends) - 1) : Ends[k] < Ends[k + 1]
    /\ Ends[Len(Ends)] = Len(Request)
<1>1. Request \in Seq(Char) /\ Ends \in Seq(1..Len(Request))
  BY WebGetAssumption
<1>2. Ends # <<>> /\ Ends[Len(Ends)] = Len(Request)
  BY WebGetAssumption
<1>3. \A k \in 1..(Len(Ends) - 1) : Ends[k] < Ends[k + 1]
  BY WebGetAssumption
<1>4. Len(Request) \in Nat /\ Len(Ends) \in Nat \ {0}
  BY <1>1, <1>2, EmptySeq, LenProperties
<1>5. \A k \in 1..Len(Ends) : Ends[k] \in 1..Len(Request)
  BY <1>1, ElementOfSeq
<1> QED
  BY <1>1, <1>2, <1>3, <1>4, <1>5

\* The string of a call of write() is its part of the request.
LEMMA ArgumentIs ==
    ASSUME NEW k \in 1..Len(Ends), NEW from,
           from = IF k = 1 THEN 0 ELSE Ends[k - 1]
    PROVE  /\ argument(k) \in Seq(Char) /\ from \in Nat
           /\ Len(argument(k)) = Ends[k] - from /\ Len(argument(k)) > 0
           /\ \A i \in 1..Len(argument(k)) : argument(k)[i] = Request[from + i]
<1>1. /\ from \in Nat /\ Ends[k] \in Nat /\ from < Ends[k] /\ Ends[k] <= Len(Request)
  <2>1. CASE k = 1
    BY <2>1, RequestFacts
  <2>2. CASE k # 1
    <3>1. k - 1 \in 1..(Len(Ends) - 1) /\ (k - 1) + 1 = k /\ k - 1 \in 1..Len(Ends)
      BY <2>2, RequestFacts
    <3>2. Ends[k - 1] < Ends[k] /\ Ends[k - 1] \in 1..Len(Request) /\ Ends[k] \in 1..Len(Request)
      BY <3>1, RequestFacts
    <3> QED
      BY <2>2, <3>2, RequestFacts
  <2> QED
    BY <2>1, <2>2
<1>2. argument(k) = SubSeq(Request, from + 1, Ends[k])
  BY DEF argument
<1>3. \A i \in (from + 1)..Ends[k] : Request[i] \in Char
  <2>1. \A i \in (from + 1)..Ends[k] : i \in 1..Len(Request)
    BY <1>1, RequestFacts, SMTT(30)
  <2> QED
    BY <2>1, RequestFacts, ElementOfSeq
<1>4. from + 1 \in Int /\ Ends[k] \in Int /\ Ends[k] - (from + 1) + 1 = Ends[k] - from /\ from + 1 <= Ends[k]
  BY <1>1
<1>5. /\ SubSeq(Request, from + 1, Ends[k]) \in Seq(Char)
      /\ Len(SubSeq(Request, from + 1, Ends[k])) = Ends[k] - from
      /\ \A i \in 1..(Ends[k] - from) : SubSeq(Request, from + 1, Ends[k])[i] = Request[(from + 1) + i - 1]
  <2> DEFINE lo == from + 1
             hi == Ends[k]
  <2>1. lo \in Int /\ hi \in Int /\ lo <= hi /\ hi - lo + 1 = Ends[k] - from
    BY <1>4
  <2>2. \A i \in lo..hi : Request[i] \in Char
    BY <1>3
  <2> HIDE DEF lo, hi
  <2>3. /\ SubSeq(Request, lo, hi) \in Seq(Char)
        /\ Len(SubSeq(Request, lo, hi)) = IF lo <= hi THEN hi - lo + 1 ELSE 0
        /\ \A i \in 1..(hi - lo + 1) : SubSeq(Request, lo, hi)[i] = Request[lo + i - 1]
    BY <2>1, <2>2, SubSeqProperties
  <2>4. /\ SubSeq(Request, lo, hi) \in Seq(Char)
        /\ Len(SubSeq(Request, lo, hi)) = Ends[k] - from
        /\ \A i \in 1..(Ends[k] - from) : SubSeq(Request, lo, hi)[i] = Request[lo + i - 1]
    BY <2>1, <2>3, Zenon
  <2> QED
    BY <2>4 DEF lo, hi
<1>6. \A i \in 1..(Ends[k] - from) : (from + 1) + i - 1 = from + i
  BY <1>1
<1>7. Ends[k] - from > 0
  BY <1>1
<1> QED
  BY <1>1, <1>2, <1>5, <1>6, <1>7, ZenonT(30)

\* writev() takes the first n bytes of the buffer.
LEMMA WriteKeepsRequest ==
    ASSUME RequestInv, Write
    PROVE  RequestInv'
<1>1. /\ pc = "write" /\ pc \in Writing
      /\ UNCHANGED <<received, output_ended, reset>>
  BY DEF Write, Writing
<1>2. PICK n \in 1..Len(buffer) : output' = output \o SubSeq(buffer, 1, n) /\ written(n)
  BY DEF Write
<1> DEFINE head == SubSeq(buffer, 1, n)
           lr   == Len(received)
           lo   == Len(output)
           lb   == Len(buffer)
<1>3. /\ buffer \in Seq(Char) /\ lb = Ends[part] - (lr + lo) /\ lb > 0
      /\ \A i \in 1..lb : buffer[i] = Request[(lr + lo) + i]
      /\ received \in Seq(Char) /\ output \in Seq(Char) /\ lr + lo <= Len(Request)
      /\ \A i \in 1..lr : received[i] = Request[i]
      /\ \A i \in 1..lo : output[i] = Request[lr + i]
      /\ part \in 1..Len(Ends) /\ ~output_ended
  BY <1>1 DEF RequestInv, given
<1>4. lr \in Nat /\ lo \in Nat /\ lb \in Nat /\ n \in 1..lb
  BY <1>3, LenProperties
<1>5. Ends[part] \in 1..Len(Request) /\ Len(Request) \in Nat
  BY <1>3, RequestFacts
<1>6. /\ head \in Seq(Char) /\ Len(head) = n
      /\ \A i \in 1..n : head[i] = buffer[i]
  <2>1. \A i \in 1..n : buffer[i] \in Char
    BY <1>3, <1>4, ElementOfSeq
  <2>2. 1 \in Int /\ n \in Int /\ 1 <= n /\ n - 1 + 1 = n /\ \A i \in 1..n : 1 + i - 1 = i
    BY <1>4
  <2> QED
    BY <2>1, <2>2, SubSeqProperties
<1>7. output' = output \o head
  BY <1>2
<1> HIDE DEF head
<1>8. /\ output' \in Seq(Char) /\ Len(output') = lo + n
      /\ \A i \in 1..(lo + n) : output'[i] = IF i <= lo THEN output[i] ELSE head[i - lo]
  <2>1. output \in Seq(Char) /\ head \in Seq(Char) /\ Len(head) = n
    BY <1>3, <1>6
  <2>2. /\ output \o head \in Seq(Char) /\ Len(output \o head) = Len(output) + Len(head)
        /\ \A i \in 1..Len(output) + Len(head) :
               (output \o head)[i] = IF i <= Len(output) THEN output[i] ELSE head[i - Len(output)]
    BY <2>1, ConcatProperties, Zenon
  <2> QED
    BY <1>7, <2>1, <2>2, Zenon
<1> HIDE DEF lr, lo, lb
<1>9. \A i \in 1..(lo + n) : output'[i] = Request[lr + i]
  <2> TAKE i \in 1..(lo + n)
  <2>1. CASE i <= lo
    <3>1. i \in 1..lo
      BY <1>4, <2>1
    <3>2. output'[i] = output[i]
      BY <1>8, <2>1
    <3> QED
      BY <1>3, <3>1, <3>2, Zenon
  <2>2. CASE i > lo
    <3>1. i - lo \in 1..n /\ i - lo \in 1..lb /\ (lr + lo) + (i - lo) = lr + i
      BY <1>4, <2>2
    <3>2. output'[i] = head[i - lo] /\ head[i - lo] = buffer[i - lo]
      BY <1>4, <1>6, <1>8, <2>2, <3>1
    <3>3. buffer[i - lo] = Request[(lr + lo) + (i - lo)]
      BY <1>3, <3>1
    <3> QED
      BY <3>1, <3>2, <3>3
  <2> QED
    BY <1>4, <2>1, <2>2
<1>10. given' = (lr + lo) + n /\ (lr + lo) + n <= Ends[part] /\ (lr + lo) + n <= Len(Request)
  BY <1>1, <1>3, <1>4, <1>5, <1>8, SMTT(30) DEF given, lr
<1>11. /\ received' = received /\ Len(received') = lr /\ ~output_ended'
  BY <1>1, <1>3 DEF lr
<1>12. CASE n < lb
  <2> DEFINE rest == SubSeq(buffer, n + 1, lb)
  <2>1. buffer' = rest /\ pc' = "write" /\ part' = part
    BY <1>1, <1>2, <1>12 DEF written, lb
  <2>2. /\ rest \in Seq(Char) /\ Len(rest) = lb - n
        /\ \A i \in 1..(lb - n) : rest[i] = buffer[n + i]
    <3>1. \A i \in (n + 1)..lb : buffer[i] \in Char
      <4>1. \A i \in (n + 1)..lb : i \in 1..Len(buffer)
        BY <1>4 DEF lb
      <4> QED
        BY <1>3, <4>1, ElementOfSeq
    <3>2. /\ n + 1 \in Int /\ lb \in Int /\ n + 1 <= lb /\ lb - (n + 1) + 1 = lb - n
          /\ \A i \in 1..(lb - n) : (n + 1) + i - 1 = n + i
      BY <1>4, <1>12
    <3> QED
      BY <3>1, <3>2, SubSeqProperties
  <2> HIDE DEF rest
  <2>3. \A i \in 1..(lb - n) : rest[i] = Request[((lr + lo) + n) + i]
    <3> TAKE i \in 1..(lb - n)
    <3>1. n + i \in 1..lb /\ (lr + lo) + (n + i) = ((lr + lo) + n) + i
      BY <1>4
    <3>2. buffer[n + i] = Request[(lr + lo) + (n + i)]
      BY <1>3, <3>1
    <3> QED
      BY <2>2, <3>1, <3>2
  <2>4. lb - n = Ends[part] - ((lr + lo) + n) /\ lb - n > 0
    BY <1>3, <1>4, <1>5, <1>12
  <2>5. pc' \in Writing /\ pc' \notin Written
    BY <2>1 DEF Writing, Written
  <2> QED
    BY <1>3, <1>8, <1>9, <1>10, <1>11, <2>1, <2>2, <2>3, <2>4, <2>5 DEF RequestInv, lr
<1>13. CASE ~(n < lb)
  <2>1. n = lb /\ (lr + lo) + n = Ends[part]
    BY <1>3, <1>4, <1>5, <1>13
  <2>2. CASE part < Len(Ends)
    <3>1. part' = part + 1 /\ buffer' = argument(part + 1) /\ pc' = "write"
      BY <1>1, <1>2, <1>13, <2>2 DEF written, lb
    <3>2. part + 1 \in 1..Len(Ends) /\ part + 1 # 1 /\ (part + 1) - 1 = part
      BY <1>3, <2>2, RequestFacts, SMTT(30)
    <3> DEFINE arg == argument(part + 1)
    <3>3. /\ arg \in Seq(Char)
          /\ Len(arg) = Ends[part + 1] - Ends[part] /\ Len(arg) > 0
          /\ \A i \in 1..Len(arg) : arg[i] = Request[Ends[part] + i]
      BY <3>2, ArgumentIs
    <3> HIDE DEF arg
    <3>4. pc' \in Writing /\ pc' \notin Written
      BY <3>1 DEF Writing, Written
    <3> QED
      BY <1>3, <1>8, <1>9, <1>10, <1>11, <2>1, <3>1, <3>2, <3>3, <3>4 DEF RequestInv, lr, arg
  <2>3. CASE ~(part < Len(Ends))
    <3>1. pc' = "shutdown" /\ part' = part
      BY <1>1, <1>2, <1>13, <2>3 DEF written, lb
    <3>2. part = Len(Ends) /\ Ends[part] = Len(Request)
      BY <1>3, <2>3, RequestFacts, SMTT(30)
    <3>3. pc' \notin Writing /\ pc' \in Written
      BY <3>1 DEF Writing, Written
    <3> QED
      BY <1>3, <1>8, <1>9, <1>10, <1>11, <2>1, <3>1, <3>2, <3>3 DEF RequestInv, lr
  <2> QED
    BY <2>2, <2>3
<1> QED
  BY <1>12, <1>13

\* The server takes the next byte from the kernel.
LEMMA ServerKeepsRequest ==
    ASSUME RequestInv, ServerReads
    PROVE  RequestInv'
<1>1. /\ output # <<>> /\ received' = Append(received, Head(output)) /\ output' = Tail(output)
      /\ UNCHANGED <<pc, part, buffer, output_ended>>
  BY DEF ServerReads, programVars
<1> DEFINE lr == Len(received)
           lo == Len(output)
<1>2. /\ received \in Seq(Char) /\ output \in Seq(Char)
      /\ given = lr + lo /\ lr + lo <= Len(Request)
      /\ \A i \in 1..lr : received[i] = Request[i]
      /\ \A i \in 1..lo : output[i] = Request[lr + i]
  BY DEF RequestInv, given
<1>3. lr \in Nat /\ lo \in Nat /\ lo > 0
  BY <1>1, <1>2, LenProperties, EmptySeq
<1>4. /\ Head(output) = output[1] /\ Head(output) \in Char
      /\ Tail(output) \in Seq(Char) /\ Len(Tail(output)) = lo - 1
      /\ \A i \in 1..(lo - 1) : Tail(output)[i] = output[i + 1]
  <2>1. /\ Head(output) \in Char
        /\ Tail(output) \in Seq(Char) /\ Len(Tail(output)) = lo - 1
        /\ \A i \in 1..Len(Tail(output)) : Tail(output)[i] = output[i + 1]
    BY <1>1, <1>2, HeadTailProperties
  <2>2. Head(output) = output[1]
    OBVIOUS
  <2> QED
    BY <2>1, <2>2
<1>5. /\ received' \in Seq(Char) /\ Len(received') = lr + 1
      /\ \A i \in 1..lr : received'[i] = received[i]
      /\ received'[lr + 1] = output[1]
  BY <1>1, <1>2, <1>4, AppendProperties
<1>6. /\ output' \in Seq(Char) /\ Len(output') = lo - 1
      /\ \A i \in 1..(lo - 1) : output'[i] = output[i + 1]
  BY <1>1, <1>4
<1> HIDE DEF lr, lo
<1>7. given' = given /\ given <= Len(Request)
  <2>1. given' = (lr + 1) + (lo - 1)
    BY <1>5, <1>6 DEF given
  <2>2. (lr + 1) + (lo - 1) = lr + lo
    BY <1>3
  <2> QED
    BY <1>2, <2>1, <2>2
<1>8. \A i \in 1..(lr + 1) : received'[i] = Request[i]
  <2> TAKE i \in 1..(lr + 1)
  <2>1. CASE i \in 1..lr
    BY <1>2, <1>5, <2>1
  <2>2. CASE i = lr + 1
    <3>1. 1 \in 1..lo
      BY <1>3
    <3>2. output[1] = Request[lr + 1]
      BY <1>2, <3>1
    <3> QED
      BY <1>5, <2>2, <3>2
  <2> QED
    BY <1>3, <2>1, <2>2
<1>9. \A i \in 1..(lo - 1) : output'[i] = Request[(lr + 1) + i]
  <2> TAKE i \in 1..(lo - 1)
  <2>1. i + 1 \in 1..lo /\ lr + (i + 1) = (lr + 1) + i
    BY <1>3
  <2>2. output[i + 1] = Request[lr + (i + 1)]
    BY <1>2, <2>1
  <2> QED
    BY <1>6, <2>1, <2>2
<1> QED
  BY <1>1, <1>5, <1>6, <1>7, <1>8, <1>9 DEF RequestInv

\* Every other step only moves pc.
LEMMA RequestKeeps ==
    ASSUME RequestInv, PrintInv, [Next]_webgetVars
    PROVE  RequestInv'
<1>1. ASSUME UNCHANGED <<part, buffer, output, received, output_ended>>,
             \/ pc' = pc
             \/ pc \in Writing /\ pc' \in Writing \cup {"unwind", "EXIT_FAILURE", "SIGPIPE"}
             \/ pc' \in {"unwind", "EXIT_FAILURE"}
      PROVE  RequestInv'
  <2>1. given' = given
    BY <1>1 DEF given
  <2>2. /\ pc' \in Writing \cup Written \cup {"unwind", "EXIT_FAILURE", "SIGPIPE"}
        /\ pc' \in Writing => pc \in Writing
        /\ pc' \in Writing \cup {"shutdown", "SIGPIPE"} => pc \in Writing \cup {"shutdown", "SIGPIPE"}
        /\ pc' \in Written => pc \in Written
    BY <1>1 DEF RequestInv, Writing, Written
  <2> QED
    BY <1>1, <2>1, <2>2 DEF RequestInv
<1>2. ASSUME UNCHANGED <<part, buffer, output, received>>,
             \/ pc \in Written /\ pc' \in Written \ {"shutdown"}
             \/ pc' \in {"unwind", "EXIT_FAILURE"}
      PROVE  RequestInv'
  <2>1. given' = given
    BY <1>2 DEF given
  <2>2. /\ pc' \in Writing \cup Written \cup {"unwind", "EXIT_FAILURE", "SIGPIPE"}
        /\ pc' \notin Writing \cup {"shutdown", "SIGPIPE"}
        /\ pc' \in Written => pc \in Written
    BY <1>2 DEF Writing, Written
  <2> QED
    BY <1>2, <2>1, <2>2 DEF RequestInv
<1>3. CASE UNCHANGED webgetVars \/ OtherProgram
  BY <1>1, <1>3 DEF webgetVars, OtherProgram, programVars, serverVars
<1>4. CASE MakeSocket \/ Resolve \/ Connect \/ CallFails \/ Killed
  <2>1. UNCHANGED <<part, buffer, output, received, output_ended>>
    BY <1>4 DEF MakeSocket, Resolve, Connect, CallFails, Killed, serverVars
  <2>2. \/ pc \in Writing /\ pc' \in Writing \cup {"unwind", "EXIT_FAILURE", "SIGPIPE"}
        \/ pc' \in {"unwind", "EXIT_FAILURE"}
    BY <1>4 DEF MakeSocket, Resolve, Connect, CallFails, Killed, Writing
  <2> QED
    BY <1>1, <2>1, <2>2
<1>5. CASE ShutdownWrite \/ ReadResponse \/ CloseSocket \/ Return \/ Unwind
  <2>1. UNCHANGED <<part, buffer, output, received>>
    BY <1>5 DEF ShutdownWrite, ReadResponse, CloseSocket, Return, Unwind, Leave, serverVars
  <2>2. \/ pc \in Written /\ pc' \in Written \ {"shutdown"}
        \/ pc' \in {"unwind", "EXIT_FAILURE"}
    BY <1>5 DEF ShutdownWrite, ReadResponse, again, CloseSocket, Return, Unwind, Leave, Written
  <2> QED
    BY <1>2, <2>1, <2>2
<1>6. CASE ServerSends \/ ServerEnds \/ ServerResets
  BY <1>1, <1>6, Zenon DEF ServerSends, ServerEnds, ServerResets, programVars
<1> QED
  BY <1>3, <1>4, <1>5, <1>6, WriteKeepsRequest, ServerKeepsRequest DEF Next, Program

\* A part of the request that starts at its first byte is a prefix.
LEMMA RequestIsWhole ==
    ASSUME RequestInv, pc = "SIGPIPE" => reset
    PROVE  RequestArrivesWhole
<1> DEFINE lr == Len(received)
           lo == Len(output)
           s  == received \o output
<1>1. /\ received \in Seq(Char) /\ output \in Seq(Char)
      /\ given = lr + lo /\ lr + lo <= Len(Request)
      /\ \A i \in 1..lr : received[i] = Request[i]
      /\ \A i \in 1..lo : output[i] = Request[lr + i]
  BY Zenon DEF RequestInv, given
<1>2. lr \in Nat /\ lo \in Nat
  BY <1>1, LenProperties
<1>3. /\ s \in Seq(Char) /\ Len(s) = lr + lo
      /\ \A i \in 1..(lr + lo) : s[i] = IF i <= lr THEN received[i] ELSE output[i - lr]
  BY <1>1, ConcatProperties, Zenon
<1> HIDE DEF lr, lo, s
<1>4. \A i \in 1..(lr + lo) : s[i] = Request[i]
  <2> TAKE i \in 1..(lr + lo)
  <2>1. CASE i \in 1..lr
    <3>1. i <= lr
      BY <1>2, <2>1
    <3>2. s[i] = received[i] /\ received[i] = Request[i]
      BY <1>1, <1>3, <2>1, <3>1, Zenon
    <3> QED
      BY <3>2
  <2>2. CASE i \notin 1..lr
    <3>1. i - lr \in 1..lo /\ lr + (i - lr) = i /\ ~(i <= lr)
      BY <1>2, <2>2
    <3>2. s[i] = output[i - lr]
      BY <1>3, <3>1
    <3>3. output[i - lr] = Request[lr + (i - lr)]
      BY <1>1, <3>1
    <3> QED
      BY <3>1, <3>2, <3>3
  <2> QED
    BY <2>1, <2>2
<1>5. lr + lo <= Len(Request) /\ s = SubSeq(Request, 1, lr + lo)
  <2> DEFINE n == lr + lo
             t == SubSeq(Request, 1, n)
  <2>1. n \in Nat /\ n <= Len(Request) /\ Request \in Seq(Char) /\ Len(Request) \in Nat
    BY <1>1, <1>2, RequestFacts
  <2> HIDE DEF n
  <2>2. \A i \in 1..n : Request[i] \in Char
    BY <2>1, ElementOfSeq
  <2>3. /\ t \in Seq(Char) /\ Len(t) = n /\ \A i \in 1..n : t[i] = Request[i]
    <3>1. 1 \in Int /\ n \in Int /\ n - 1 + 1 = n /\ (1 <= n \/ n = 0) /\ \A i \in 1..n : 1 + i - 1 = i
      BY <2>1
    <3> QED
      BY <2>2, <3>1, SubSeqProperties
  <2>4. Len(s) = n
    BY <1>3 DEF n
  <2>5. s = t
    BY <1>3, <1>4, <2>3, <2>4, SeqEqual DEF n
  <2> QED
    BY <2>1, <2>5 DEF n
<1>6. ASSUME output_ended, output = <<>>, ~reset
      PROVE  received = Request \/ pc \in {"unwind", "EXIT_FAILURE"}
  <2>1. CASE pc \in Written
    <3>1. lo = 0
      BY <1>6 DEF lo
    <3>2. lr = Len(Request) /\ Request \in Seq(Char)
      BY <1>1, <1>2, <2>1, <3>1, RequestFacts, SMTT(30) DEF RequestInv
    <3>3. received = Request
      BY <1>1, <3>2, SeqEqual DEF lr
    <3> QED
      BY <3>3
  <2>2. CASE pc \notin Written
    BY <1>6, <2>2 DEF RequestInv
  <2> QED
    BY <2>1, <2>2
<1> QED
  BY <1>5, <1>6 DEF RequestArrivesWhole, s, lr, lo

-----------------------------------------------------------------------------
WebInv == Inv /\ FileInv /\ PrintInv /\ RequestInv /\ (pc = "SIGPIPE" => reset)

LEMMA WebInit ==
    ASSUME Init
    PROVE  WebInv
<1>1. /\ wrapper = [w \in Wrapper |-> unused] /\ refs = [w \in Wrapper |-> 0]
      /\ owner = [n \in Number |-> nobody] /\ file = [w \in Wrapper |-> released]
      /\ repeated = FALSE /\ class = [w \in Wrapper |-> "FileDescriptor"]
  BY DEF Init, SocketInit, DescriptorInit
<1>2. /\ pc \in {"socket", "elsewhere"} /\ part = 1 /\ buffer = argument(1) /\ printed = 0
      /\ connected = FALSE /\ reset = FALSE
      /\ output = <<>> /\ output_ended = FALSE
      /\ received = <<>> /\ produced = 0 /\ input_ended = FALSE
  BY DEF Init
<1>3. Inv
  <2>1. unused \in [fd : Number \cup {-1}, eof : BOOLEAN, closed : BOOLEAN]
    BY DEF unused
  <2> HIDE DEF unused
  <2>2. wrapper \in [Wrapper -> [fd : Number \cup {-1}, eof : BOOLEAN, closed : BOOLEAN]]
    BY <1>1, <2>1, Zenon
  <2>3. /\ refs \in [Wrapper -> Nat] /\ \A w \in Wrapper : refs[w] = 0
        /\ owner \in [Number -> Wrapper \cup {nobody}] /\ \A n \in Number : owner[n] = nobody
        /\ repeated \in BOOLEAN
    BY <1>1, Zenon
  <2> QED
    BY <2>2, <2>3 DEF Inv, Types, Corresponds, StillOwned
<1>4. FileInv
  <2>1. released \in [kind : Kinds \cup {"none"}, left : Nat, more : BOOLEAN]
    BY DEF released
  <2> HIDE DEF released
  <2>2. file \in [Wrapper -> [kind : Kinds \cup {"none"}, left : Nat, more : BOOLEAN]]
    BY <1>1, <2>1, Zenon
  <2>3. /\ \A w \in Wrapper : refs[w] = 0 /\ class[w] = "FileDescriptor"
        /\ class \in [Wrapper -> Classes]
    BY <1>1 DEF Classes
  <2> QED
    BY <2>2, <2>3, SMTT(30) DEF FileInv, FileTypes, EofIsReal, Live
<1>5. PrintInv
  <2>1. pc \in Before /\ pc \notin Open /\ pc \notin Done
    BY <1>2 DEF Before, Open, Done
  <2>2. ~repeated /\ 0 \in Nat /\ 0 <= 0
    BY <1>1
  <2> QED
    BY <1>2, <2>1, <2>2, Zenon DEF PrintInv
<1>6. RequestInv
  <2>1. 1 \in 1..Len(Ends) /\ Len(Request) \in Nat
    BY RequestFacts
  <2>2. /\ buffer \in Seq(Char) /\ Len(buffer) = Ends[1] - 0 /\ Len(buffer) > 0
        /\ \A i \in 1..Len(buffer) : buffer[i] = Request[0 + i]
    BY <1>2, <2>1, ArgumentIs
  <2>3. /\ received \in Seq(Char) /\ output \in Seq(Char) /\ Len(received) = 0 /\ Len(output) = 0
        /\ given = 0
    BY <1>2, EmptySeq DEF given
  <2>4. pc \in Writing /\ pc \notin Written
    BY <1>2 DEF Writing, Written
  <2> QED
    BY <1>2, <2>1, <2>2, <2>3, <2>4 DEF RequestInv
<1> QED
  BY <1>2, <1>3, <1>4, <1>5, <1>6 DEF WebInv

LEMMA WebStep ==
    ASSUME WebInv, [Next]_webgetVars
    PROVE  WebInv'
<1>1. Inv' /\ FileInv'
  BY TablesKeep DEF WebInv
<1>2. PrintInv'
  BY PrintedKeeps DEF WebInv
<1>3. RequestInv'
  BY RequestKeeps DEF WebInv
<1>4. reset => reset'
  BY Zenon DEF Next, Program, OtherProgram, CallFails, Killed, MakeSocket, Resolve, Connect, Write,
         ShutdownWrite, ReadResponse, CloseSocket, Return, Unwind, Leave, ServerReads,
         ServerSends, ServerEnds, ServerResets, serverVars, webgetVars
<1>5. pc' = "SIGPIPE" => pc = "SIGPIPE" \/ reset
  <2>1. CASE UNCHANGED webgetVars \/ OtherProgram \/ ServerReads \/ ServerSends \/ ServerEnds \/ ServerResets
    BY <2>1 DEF OtherProgram, ServerReads, ServerSends, ServerEnds, ServerResets, webgetVars, programVars
  <2>2. CASE Killed
    BY <2>2 DEF Killed
  <2>3. CASE CallFails \/ Program
    BY <2>3 DEF Program, CallFails, MakeSocket, Resolve, Connect, Write, written, ShutdownWrite,
                ReadResponse, again, CloseSocket, Return, Unwind, Leave
  <2> QED
    BY <2>1, <2>2, <2>3 DEF Next
<1> QED
  BY <1>1, <1>2, <1>3, <1>4, <1>5 DEF WebInv

LEMMA WebInvHolds == Spec => []WebInv
<1>1. Init => WebInv
  BY WebInit
<1>2. WebInv /\ [Next]_webgetVars => WebInv'
  BY WebStep
<1> QED
  BY <1>1, <1>2, PTL DEF Spec

\* Whatever a program does with its descriptors and sockets, and however many
\* there are, no close() and no destructor closes a descriptor that somebody
\* else is using, unless a number is closed a second time.
THEOREM DescriptorsStayOwned == Spec => []StillOwned
<1>1. WebInv => StillOwned
  BY DEF WebInv, Inv
<1> QED
  BY <1>1, WebInvHolds, PTL

\* And nothing stays open that no FileDescriptor refers to, even if numbers are
\* closed twice or close(2) fails.
THEOREM NothingEverLeaks == Spec => []NothingLeaks
<1>1. WebInv => NothingLeaks
  BY DEF WebInv, Inv, Corresponds, NothingLeaks, open_numbers
<1> QED
  BY <1>1, WebInvHolds, PTL

\* eof() of an open stream is never set while something can still be read.
THEOREM EofAlwaysReal == Spec => []EofIsReal
<1>1. WebInv => EofIsReal
  BY DEF WebInv, FileInv
<1> QED
  BY <1>1, WebInvHolds, PTL

\* An open socket object is always backed by a socket of its own domain and
\* type, an open TunTapFD by a tunnel.
THEOREM ClassAlwaysKind == Spec => []ClassIsKind
<1>1. WebInv => ClassIsKind
  <2> SUFFICES ASSUME WebInv, NEW w \in Wrapper, refs[w] > 0, ~wrapper[w].closed, ~repeated
               PROVE  Matches(class[w], file[reached(w)].kind)
    BY Zenon DEF ClassIsKind, Matches
  <2>1. reached(w) = w
    BY DEF WebInv, Inv, StillOwned
  <2>2. Matches(class[w], file[w].kind)
    BY DEF WebInv, FileInv, Live
  <2> QED
    BY <2>1, <2>2
<1> QED
  BY <1>1, WebInvHolds, PTL

\* webget prints only what the server has sent, and has printed all of a
\* response that the server ended when it exits with success.
THEOREM PrintedAlwaysResponse == Spec => []PrintedIsResponse
<1>1. WebInv => PrintedIsResponse
  BY DEF WebInv, PrintInv, PrintedIsResponse, Done
<1> QED
  BY <1>1, WebInvHolds, PTL

\* The server reads the request in order and without a gap, however little each
\* writev() takes, and all of it before it sees the end.
THEOREM RequestAlwaysWhole == Spec => []RequestArrivesWhole
<1>1. WebInv => RequestArrivesWhole
  BY RequestIsWhole DEF WebInv
<1> QED
  BY <1>1, WebInvHolds, PTL

=============================================================================
