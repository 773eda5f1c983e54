------------------------------- MODULE Address -------------------------------
(***************************************************************************)
(* util/address.{hh,cc}: an IPv4 address as the bytes of a sockaddr_in,    *)
(* which the kernel fills in and reads.  An IP address is the sequence of  *)
(* its four bytes, in the order of the dotted quad.                        *)
(***************************************************************************)
EXTENDS WireFormat

\* A sockaddr_in: the family in the byte order of the host (which is taken to be
\* little-endian), the port and the address in network byte order, and padding.
AF_INET == <<2, 0>>
sockaddr_in(ip, port) == AF_INET \o unparse_int(port, 2) \o ip \o [i \in 1..8 |-> 0]

\* Address(addr, size).  Of the storage only the first `size' bytes matter; the
\* kernel's IPv4 addresses always fit in.
NewAddress(addr, size) == [size |-> size, storage |-> SubSeq(addr, 1, size)]

\* Address(ip, port), which lets getaddrinfo() translate the numbers.
FromIpPort(ip, port) == NewAddress(sockaddr_in(ip, port), 16)

\* ip_port(), which lets getnameinfo() translate them back.
ip_port(a) ==
    [ip |-> SubSeq(a.storage, 5, 8), port |-> 256 * a.storage[3] + a.storage[4]]

\* ipv4_numeric(); "throws" for any address that is not an IPv4 one.
ipv4_numeric(a) ==
    IF SubSeq(a.storage, 1, 2) # AF_INET \/ a.size # 16 THEN "throws"
    ELSE FoldLeft(LAMBDA n, b : 256 * n + b, 0, SubSeq(a.storage, 5, 8))

from_ipv4_numeric(ip_address) == NewAddress(sockaddr_in(unparse_int(ip_address, 4), 0), 16)

\* operator==.
equal(a, b) == a.size = b.size /\ SubSeq(a.storage, 1, a.size) = SubSeq(b.storage, 1, a.size)

=============================================================================
