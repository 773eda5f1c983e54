------------------------------- MODULE WebGet -------------------------------
(***************************************************************************)
(* The program webget: get_URL() of apps/webget.cc on a TCPSocket, with    *)
(* the connection and the server as the kernel shows them.  Each system    *)
(* call of get_URL() is a step, and may fail: then an exception unwinds    *)
(* get_URL(), which destroys the socket, and main() returns EXIT_FAILURE.  *)
(*                                                                         *)
(* Beside webget, any other program that uses the classes in any order     *)
(* (Socket) is a behaviour of this module: which program the process runs  *)
(* is decided at the start.                                                *)
(***************************************************************************)
EXTENDS Socket, Sequences

CONSTANTS
    sock,          \* get_URL()'s TCPSocket
    Char,          \* the characters of a request
    Request,       \* the bytes that the calls of write() are given, one after the other
    Ends,          \* where in Request each call's string ends
    MaxOutput,     \* how much the kernel takes before the server reads it
    ResponseSize   \* how much the server sends at most

ASSUME WebGetAssumption ==
    /\ sock \in Wrapper
    /\ Request \in Seq(Char)
    /\ Ends \in Seq(1..Len(Request)) /\ Ends # <<>> /\ Ends[Len(Ends)] = Len(Request)
    /\ \A k \in 1..(Len(Ends) - 1) : Ends[k] < Ends[k + 1]
    /\ MaxOutput \in Nat \ {0} /\ ResponseSize \in Nat /\ MaxInput > 0

VARIABLES
    pc,            \* where get_URL() is, or "elsewhere" in another program
    part, buffer,  \* the number of the current write(), and what is left of it
    printed        \* how much was written to cout

\* The connection, and the server at its other end.
VARIABLES
    connected, reset,
    output,        \* taken by the kernel and not yet read by the server
    output_ended,  \* our side of the connection is closed
    received,      \* what the server has read
    produced,      \* how much it has sent
    input_ended    \* it has closed its side

programVars == <<pc, part, buffer, printed>>
serverVars  == <<connected, reset, output, output_ended, received, produced, input_ended>>
webgetVars  == <<socketVars, programVars, serverVars>>

\* The string of the k-th call of write().
argument(k) == SubSeq(Request, (IF k = 1 THEN 0 ELSE Ends[k - 1]) + 1, Ends[k])

Init ==
    /\ SocketInit
    /\ pc \in {"socket", "elsewhere"} /\ part = 1 /\ buffer = argument(1) /\ printed = 0
    /\ connected = FALSE /\ reset = FALSE
    /\ output = <<>> /\ output_ended = FALSE
    /\ received = <<>> /\ produced = 0 /\ input_ended = FALSE

OtherProgram ==
    /\ pc = "elsewhere"
    /\ SocketNext
    /\ UNCHANGED <<programVars, serverVars>>

\* A system call fails, or getaddrinfo() does: get_URL() is left by an exception.
CallFails ==
    /\ pc \in {"resolve", "connect", "write", "shutdown", "read"}
    /\ pc' = "unwind"
    /\ UNCHANGED <<socketVars, part, buffer, printed, serverVars>>

\* The end of get_URL()'s scope: the last handle goes, and with it the
\* connection.
Leave(code) ==
    /\ Drop(sock) /\ keep_class
    /\ pc' = code
    /\ output_ended' = connected
    /\ UNCHANGED <<part, buffer, printed, connected, reset, output, received, produced, input_ended>>

MakeSocket ==
    /\ pc = "socket"
    /\ \/ NewSocket(sock, "TCPSocket") /\ pc' = "resolve"
       \/ pc' = "EXIT_FAILURE" /\ UNCHANGED socketVars
    /\ UNCHANGED <<part, buffer, printed, serverVars>>

\* Address(host, "http").
Resolve ==
    /\ pc = "resolve"
    /\ pc' = "connect"
    /\ UNCHANGED <<socketVars, part, buffer, printed, serverVars>>

Connect ==
    /\ pc = "connect"
    /\ pc' = "write" /\ connected' = TRUE
    /\ UNCHANGED <<socketVars, part, buffer, printed, reset, output, output_ended,
                   received, produced, input_ended>>

\* A write() that is content with what the first writev() has taken.
written_once(n) ==
    IF part < Len(Ends)
    THEN part' = part + 1 /\ buffer' = argument(part + 1) /\ UNCHANGED pc
    ELSE pc' = "shutdown" /\ UNCHANGED <<part, buffer>>

\* The loop of FileDescriptor::write() after writev() took n bytes: on with the
\* rest, the next write(), or the shutdown.
written(n) ==
    IF n < Len(buffer)
    THEN buffer' = SubSeq(buffer, n + 1, Len(buffer)) /\ UNCHANGED <<pc, part>>
    ELSE IF part < Len(Ends)
    THEN part' = part + 1 /\ buffer' = argument(part + 1) /\ UNCHANGED pc
    ELSE pc' = "shutdown" /\ buffer' = <<>> /\ UNCHANGED part

Write ==
    /\ pc = "write" /\ ~reset
    /\ \E n \in 1..Len(buffer) :
          /\ Len(output) + n <= MaxOutput
          /\ output' = output \o SubSeq(buffer, 1, n)
          /\ written(n)
    /\ UNCHANGED <<socketVars, printed, connected, reset, output_ended, received, produced, input_ended>>

\* Writing to a connection that is gone may raise SIGPIPE, for which webget has
\* no handler: the kernel ends it, and closes what it had open.
Killed ==
    /\ pc = "write" /\ reset
    /\ pc' = "SIGPIPE"
    /\ wrapper' = [w \in Wrapper |-> unused] /\ refs' = [w \in Wrapper |-> 0] /\ keep_class
    /\ owner' = [n \in Number |-> nobody] /\ file' = [w \in Wrapper |-> released]
    /\ UNCHANGED <<repeated, part, buffer, printed, serverVars>>

\* shutdown(SHUT_WR).
ShutdownWrite ==
    /\ pc = "shutdown" /\ ~reset
    /\ pc' = "read" /\ output_ended' = TRUE
    /\ UNCHANGED <<socketVars, part, buffer, printed, connected, reset, output,
                   received, produced, input_ended>>

\* A loop of a single read().
again_never == pc' = "close"

\* A loop that waits for closed() instead of eof().
again_until_closed == pc' = IF wrapper'[sock].closed THEN "close" ELSE "read"

\* The condition of the loop, !sock.eof().
again == pc' = IF wrapper'[sock].eof THEN "close" ELSE "read"

ReadResponse ==
    /\ pc = "read" /\ ~reset
    /\ \E bytes_read \in 0..MaxInput :
          /\ Read(sock, MaxInput, bytes_read) /\ keep_class
          /\ printed' = printed + bytes_read
    /\ again
    /\ UNCHANGED <<part, buffer, serverVars>>

CloseSocket ==
    /\ pc = "close"
    /\ \/ Close(sock) /\ pc' = "return"
       \/ CloseFails(sock) /\ pc' = "unwind"
    /\ keep_class /\ output_ended' = TRUE
    /\ UNCHANGED <<part, buffer, printed, connected, reset, output, received, produced, input_ended>>

Return == pc = "return" /\ Leave("EXIT_SUCCESS")

Unwind == pc = "unwind" /\ Leave("EXIT_FAILURE")

Program ==
    \/ MakeSocket \/ Resolve \/ Connect \/ Write \/ ShutdownWrite
    \/ ReadResponse \/ CloseSocket \/ Return \/ Unwind

-----------------------------------------------------------------------------
\* The server.

ServerReads ==
    /\ output # <<>> /\ ~reset
    /\ received' = Append(received, Head(output)) /\ output' = Tail(output)
    /\ UNCHANGED <<socketVars, programVars, connected, reset, output_ended, produced, input_ended>>

ServerSends ==
    /\ connected /\ ~reset /\ produced < ResponseSize
    /\ PeerSends(sock) /\ keep_class
    /\ produced' = produced + 1
    /\ UNCHANGED <<programVars, connected, reset, output, output_ended, received, input_ended>>

ServerEnds ==
    /\ connected /\ ~reset
    /\ PeerEnds(sock) /\ keep_class
    /\ input_ended' = TRUE
    /\ UNCHANGED <<programVars, connected, reset, output, output_ended, received, produced>>

ServerResets ==
    /\ connected /\ ~reset
    /\ reset' = TRUE
    /\ UNCHANGED <<socketVars, programVars, connected, output, output_ended, received, produced, input_ended>>

Next ==
    \/ OtherProgram
    \/ Program \/ CallFails \/ Killed
    \/ ServerReads \/ ServerSends \/ ServerEnds \/ ServerResets

Spec == Init /\ [][Next]_webgetVars

\* The program goes on, a call on a connection that was reset returns, and the
\* server reads what it is sent and ends its response some time.  No other call
\* need ever fail: read() and write() may block.
FairSpec ==
    /\ Spec
    /\ WF_webgetVars(Program)
    /\ WF_webgetVars(reset /\ (CallFails \/ Killed))
    /\ WF_webgetVars(ServerReads)
    /\ WF_webgetVars(ServerSends \/ ServerEnds)

-----------------------------------------------------------------------------
\* "print out everything the server sends back, (not just one call to read() --
\* everything)": webget never prints what was not sent, and exits with success
\* only after it has printed all of a response that the server has ended.
PrintedIsResponse ==
    /\ printed <= produced
    /\ pc \in {"close", "return", "EXIT_SUCCESS"} => printed = produced /\ input_ended

\* The server reads the four pieces of the request in order and without a gap,
\* however little each writev() took, and when it sees the end of the request
\* it has all of it, unless webget has failed.
RequestArrivesWhole ==
    /\ Len(received) + Len(output) <= Len(Request)
    /\ received \o output = SubSeq(Request, 1, Len(received) + Len(output))
    /\ output_ended /\ output = <<>> /\ ~reset =>
           received = Request \/ pc \in {"unwind", "EXIT_FAILURE"}

\* webget comes to an end and leaves no descriptor open, whatever call fails,
\* whatever the order of reads and writes and even if the server resets.
WebgetEnds ==
    pc = "socket" =>
        <>[](pc \in {"EXIT_SUCCESS", "EXIT_FAILURE", "SIGPIPE"} /\ open_numbers = {})

=============================================================================
