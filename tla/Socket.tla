------------------------------- MODULE Socket -------------------------------
(***************************************************************************)
(* Socket with TCPSocket, UDPSocket and LocalStreamSocket, and TunTapFD:   *)
(* the descriptors that are more than a FileDescriptor.  Their             *)
(* constructors ask the kernel what a descriptor is, or tell it what it    *)
(* should be, and when that fails the descriptor they have already taken   *)
(* over is destroyed with the object that was never finished.              *)
(***************************************************************************)
EXTENDS FileDescriptor

VARIABLE class   \* the class a wrapper's handles have been constructed as

socketVars == <<descriptorVars, class>>

\* The kinds of files this module tells apart; a listener is a TCP socket on
\* which listen() has been called.
Kinds == {"tcp", "listener", "udp", "unix", "tun", "other"}
PacketKinds == {"udp", "tun"}
ASSUME SocketAssumption == Kind \subseteq Kinds /\ Packets = PacketKinds

\* getsockopt() with SO_DOMAIN and SO_TYPE, which fails on what is no socket.
so_domain(kind) == IF kind = "unix" THEN "AF_UNIX"
                   ELSE IF kind \in {"tcp", "listener", "udp"} THEN "AF_INET" ELSE "error"
so_type(kind) == IF kind = "udp" THEN "SOCK_DGRAM"
                 ELSE IF kind \in {"tcp", "listener", "unix"} THEN "SOCK_STREAM" ELSE "error"

\* What the subclasses pass to Socket's constructors.
SocketClass == {"TCPSocket", "UDPSocket", "LocalStreamSocket"}
domain(c) == IF c = "LocalStreamSocket" THEN "AF_UNIX" ELSE "AF_INET"
type(c) == IF c = "UDPSocket" THEN "SOCK_DGRAM" ELSE "SOCK_STREAM"

\* A step that constructs no object of a class of its own; what is destroyed
\* has no class.
keep_class == class' = [w \in Wrapper |-> IF refs'[w] = 0 THEN "FileDescriptor" ELSE class[w]]

SocketInit == DescriptorInit /\ class = [w \in Wrapper |-> "FileDescriptor"]

\* Socket(domain, type): a TCPSocket or a UDPSocket of its own.
NewSocket(w, c) ==
    /\ Construct(w, IF c = "TCPSocket" THEN "tcp" ELSE "udp", 0, TRUE)
    /\ class' = [class EXCEPT ![w] = c]

\* A verification that forgets the domain.
verified_type_only(w, c) == reached(w) # nobody /\ so_type(file[reached(w)].kind) = type(c)

verified(w, c) ==
    /\ reached(w) # nobody
    /\ so_domain(file[reached(w)].kind) = domain(c)
    /\ so_type(file[reached(w)].kind) = type(c)

\* Socket(FileDescriptor &&fd, domain, type).
Adopt(w, c) ==
    /\ refs[w] > 0
    /\ \/ verified(w, c) /\ class' = [class EXCEPT ![w] = c] /\ UNCHANGED descriptorVars
       \/ ~verified(w, c) /\ Drop(w) /\ keep_class

\* The end of TunTapFD(devname, is_tun), after it has opened /dev/net/tun: the
\* ioctl names the device, or fails.
SetInterface(w) ==
    /\ refs[w] > 0
    /\ \/ /\ reached(w) # nobody /\ file[reached(w)].kind = "tun"
          /\ class' = [class EXCEPT ![w] = "TunTapFD"] /\ UNCHANGED descriptorVars
       \/ Drop(w) /\ keep_class

\* TCPSocket::listen().
Listen(w) ==
    /\ refs[w] > 0 /\ class[w] = "TCPSocket"
    /\ reached(w) # nobody /\ file[reached(w)].kind = "tcp"
    /\ file' = [file EXCEPT ![reached(w)].kind = "listener"]
    /\ UNCHANGED <<wrapper, refs, owner, repeated, class>>

\* TCPSocket::accept(): accept(2) opens a connected socket, and the constructor
\* verifies it.
Accept(w, new) ==
    /\ refs[w] > 0 /\ class[w] = "TCPSocket"
    /\ reached(w) # nobody /\ file[reached(w)].kind = "listener"
    /\ Construct(new, "tcp", 0, TRUE)
    /\ class' = [class EXCEPT ![new] = "TCPSocket"]

\* Socket::shutdown(SHUT_RD): the kernel ends the input.
ShutdownRead(w) ==
    /\ refs[w] > 0 /\ class[w] \in SocketClass
    /\ reached(w) # nobody /\ file[reached(w)].kind \in {"tcp", "unix"}
    /\ file' = [file EXCEPT ![reached(w)].more = FALSE]
    /\ UNCHANGED <<wrapper, refs, owner, repeated, class>>

SocketNext ==
    \/ DescriptorNext /\ keep_class
    \/ \E w \in Wrapper :
        \/ \E c \in {"TCPSocket", "UDPSocket"} : NewSocket(w, c)
        \/ \E c \in SocketClass : Adopt(w, c)
        \/ SetInterface(w)
        \/ Listen(w)
        \/ \E new \in Wrapper : Accept(w, new)
        \/ ShutdownRead(w)

SocketSpec == SocketInit /\ [][SocketNext]_socketVars

-----------------------------------------------------------------------------
\* An open object of a socket class is a socket of that class's domain and
\* type, and an open TunTapFD is a tunnel: a descriptor of another kind is
\* refused when it is moved in, and none is swapped in afterwards under the same
\* number (until a number is closed twice).
ClassIsKind ==
    \A w \in Wrapper :
        refs[w] > 0 /\ ~wrapper[w].closed /\ ~repeated =>
            LET kind == file[reached(w)].kind
            IN  /\ class[w] \in SocketClass => so_domain(kind) = domain(class[w]) /\ so_type(kind) = type(class[w])
                /\ class[w] = "TunTapFD" => kind = "tun"

=============================================================================
