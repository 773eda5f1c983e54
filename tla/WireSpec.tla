------------------------------ MODULE WireSpec ------------------------------
(***************************************************************************)
(* The way of a segment: it is serialized to a BufferList, which           *)
(* FileDescriptor::write() passes to writev() in as many parts as that     *)
(* takes, or UDPSocket::sendto() sends as a datagram; the bytes arrive,    *)
(* changed or not, and are parsed.  A change that keeps the checksum right *)
(* is what another implementation may send: fewer bytes, or another data   *)
(* offset.                                                                 *)
(***************************************************************************)
EXTENDS Address

CONSTANTS
    Headers,   \* the headers to be sent
    Payloads,  \* the payloads
    Pseudo,    \* the checksums of the pseudo-header
    Deltas,    \* by how much a byte is changed
    IPs, Ports,   \* where datagrams come from
    MTUs          \* what UDPSocket::recv() is called with

\* serialize() throws for a smaller data offset.
ASSUME HeadersAssumption == \A h \in Headers : h \in TCPHeaderType /\ h.doff >= 5

VARIABLES
    header, payload, pseudo,   \* the segment, and what the lower layer adds
    list,                      \* the BufferList it is serialized to
    stage,                     \* how far it has come
    write_all, buffer, total_bytes_written,   \* of the call of write()
    kernel,                    \* what writev() or sendmsg() has taken
    local_address, datagram,   \* of the sending UDPSocket; recv()'s argument
    wire, change,              \* what arrives, and how it differs from that
    parsed                     \* what parse() makes of it

segment == <<header, payload, pseudo>>
writing == <<write_all, buffer, total_bytes_written, kernel>>
udp == <<local_address, datagram>>
arrival == <<wire, change, parsed>>
vars == <<segment, list, stage, writing, udp, arrival>>

none == [result |-> "none"]
no_address == NewAddress(<<>>, 0)

Init ==
    /\ header \in Headers /\ payload \in Payloads /\ pseudo \in Pseudo
    /\ list = <<>> /\ stage = "built"
    /\ write_all = TRUE /\ buffer = <<>> /\ total_bytes_written = 0 /\ kernel = <<>>
    /\ local_address = no_address
    /\ datagram = [source_address |-> no_address, payload |-> <<>>]
    /\ wire = <<>> /\ change = "none" /\ parsed = none

Serialize ==
    /\ stage = "built"
    /\ list' = segment_serialize(header, payload, pseudo)
    /\ stage' = "serialized"
    /\ UNCHANGED <<segment, writing, udp, arrival>>

-----------------------------------------------------------------------------
\* FileDescriptor::write(), with or without write_all.
Write(all) ==
    /\ stage = "serialized"
    /\ stage' = "writing" /\ write_all' = all
    /\ buffer' = views(list) /\ total_bytes_written' = 0 /\ kernel' = <<>>
    /\ UNCHANGED <<segment, list, udp, arrival>>

\* The condition of the do-while loop.
finished(left) == ~(write_all /\ view_size(left) > 0)

\* writev() is external: it takes the first n bytes of the views.
Writev(n) ==
    /\ stage = "writing"
    /\ n <= view_size(buffer)
    /\ n > 0 \/ view_size(buffer) = 0
    /\ kernel' = kernel \o SubSeq(as_iovecs(buffer), 1, n)
    /\ buffer' = view_remove_prefix(buffer, n)
    /\ total_bytes_written' = total_bytes_written + n
    /\ stage' = IF finished(buffer') THEN "written" ELSE "writing"
    /\ UNCHANGED <<segment, list, write_all, udp, arrival>>

\* writev() fails, or takes nothing of something: write() throws.
WritevFails ==
    /\ stage = "writing"
    /\ stage' = "threw"
    /\ UNCHANGED <<segment, list, writing, udp, arrival>>

-----------------------------------------------------------------------------
\* UDPSocket::sendto() of a socket bound to ip and port, or send() of a
\* connected one: sendmsg() takes all of the views.
Sendto(ip, port) ==
    /\ stage = "serialized"
    /\ local_address' = FromIpPort(ip, port)
    /\ kernel' = as_iovecs(views(list))
    /\ stage' = "sent"
    /\ UNCHANGED <<segment, list, write_all, buffer, total_bytes_written, datagram, arrival>>

\* sendmsg() fails or takes less: it throws, and the datagram is not sent.
SendtoFails ==
    /\ stage = "serialized"
    /\ stage' = "unsent"
    /\ UNCHANGED <<segment, list, writing, udp, arrival>>

\* A recv() that takes what fits in for the datagram.
oversized_never(recv_len, mtu) == FALSE

\* MSG_TRUNC makes recvfrom() return the size of the datagram, not of what it
\* could store.
oversized(recv_len, mtu) == recv_len > mtu

\* UDPSocket::recv().  When it throws, the caller's payload has been filled and
\* its source_address has not.
Recv(mtu) ==
    /\ stage = "sent"
    /\ LET stored == SubSeq(kernel, 1, Min({mtu, Len(kernel)}))
       IN  \/ /\ oversized(Len(kernel), mtu)
              /\ datagram' = [datagram EXCEPT !.payload = stored]
              /\ stage' = "threw_oversized"
              /\ UNCHANGED wire
           \/ /\ ~oversized(Len(kernel), mtu)
              /\ datagram' = [source_address |-> NewAddress(local_address.storage, local_address.size),
                              payload        |-> stored]
              /\ wire' = stored /\ stage' = "arrived"
    /\ UNCHANGED <<segment, list, writing, local_address, change, parsed>>

-----------------------------------------------------------------------------
\* The same bytes with the checksum that fits them (bytes 17 and 18).
refit(bytes) ==
    LET blank == [i \in DOMAIN bytes |-> IF i \in {17, 18} THEN 0 ELSE bytes[i]]
        cksum == value(add(NewChecksum(pseudo), blank))
    IN  [i \in DOMAIN bytes |-> IF i = 17 THEN cksum \div 256
                                ELSE IF i = 18 THEN cksum % 256 ELSE bytes[i]]

Arrive(bytes, how) ==
    /\ stage = "written" /\ write_all
    /\ wire' = bytes /\ change' = how /\ stage' = "arrived"
    /\ UNCHANGED <<segment, list, writing, udp, parsed>>

Corrupt(i, delta) == Arrive([kernel EXCEPT ![i] = (@ + delta) % 256], "byte")

\* Cut off in the header, behind the checksum field.
Truncate(n) == n < 4 * header.doff /\ Arrive(refit(SubSeq(kernel, 1, n)), "cut")

\* A data offset that is too small, or points behind the end.
ChangeOffset(doff) ==
    \/ doff < 5 /\ Arrive(refit([kernel EXCEPT ![13] = 16 * doff]), "short")
    \/ 4 * doff > Len(kernel) /\ Arrive(refit([kernel EXCEPT ![13] = 16 * doff]), "cut")

Parse ==
    /\ stage = "arrived"
    /\ parsed' = segment_parse(wire, pseudo)
    /\ stage' = "parsed"
    /\ UNCHANGED <<segment, list, writing, udp, wire, change>>

Next ==
    \/ Serialize
    \/ \E all \in BOOLEAN : Write(all)
    \/ \E n \in 0..view_size(buffer) : Writev(n)
    \/ WritevFails
    \/ \E ip \in IPs, port \in Ports : Sendto(ip, port)
    \/ SendtoFails
    \/ \E mtu \in MTUs : Recv(mtu)
    \/ Arrive(kernel, "none")
    \/ \E i \in DOMAIN kernel, delta \in Deltas : Corrupt(i, delta)
    \/ \E n \in 18..(Len(kernel) - 1) : Truncate(n)
    \/ \E doff \in 0..15 : ChangeOffset(doff)
    \/ Parse

Spec == Init /\ [][Next]_vars

-----------------------------------------------------------------------------
\* What was serialized is what is parsed, field by field, the space of the
\* options skipped and the payload complete, however the kernel cut the writes.
RoundTrip ==
    stage = "parsed" /\ change = "none" =>
        /\ parsed.result = "NoError" /\ parsed.payload = payload
        /\ \A f \in DOMAIN header \ {"cksum"} : parsed.header[f] = header[f]

\* No change of one byte, in the header or in the payload, goes unnoticed, and
\* a segment that ends before its header does is refused although its checksum
\* is right.
DamageNoticed ==
    stage = "parsed" =>
        /\ change = "byte" => parsed.result = "BadChecksum"
        /\ change = "cut" => parsed.result = "PacketTooShort"

\* How the bytes are cut up does not matter.  The sum is the same for any two
\* chunks: an odd one leaves the next byte in the low half of the word.  And
\* removing prefixes from a BufferList removes them from the string it stands
\* for, wherever they end, one after the other or at once; the size follows.
CutsDoNotMatter ==
    stage = "serialized" =>
        LET bytes == concatenate(list)
            c     == NewChecksum(pseudo)
        IN  \A n \in 0..Len(bytes) :
                /\ value(add(add(c, SubSeq(bytes, 1, n)), SubSeq(bytes, n + 1, Len(bytes))))
                     = value(add(c, bytes))
                /\ \A k \in 0..(Len(bytes) - n) :
                       LET rest == list_remove_prefix(list_remove_prefix(list, n), k)
                       IN  /\ concatenate(rest) = SubSeq(bytes, n + k + 1, Len(bytes))
                           /\ list_size(rest) = Len(bytes) - n - k

\* write() hands the kernel the bytes of the list in order, none twice and none
\* left out between two short writes, and counts them.
WrittenInOrder ==
    stage \in {"writing", "written", "threw"} =>
        /\ kernel \o as_iovecs(buffer) = concatenate(list)
        /\ total_bytes_written = Len(kernel)

\* A datagram that recv() returns is the one that was sent, all of it and with
\* the address of its sender, from which the IP address, also as a number, and
\* the port can be had back; when it does not fit, recv() throws
\* and the caller's source_address is what it was.
DatagramWhole ==
    LET source == datagram.source_address
    IN  /\ stage = "arrived" /\ local_address.size > 0 =>
               /\ datagram.payload = concatenate(list)
               /\ equal(source, local_address)
               /\ equal(FromIpPort(ip_port(source).ip, ip_port(source).port), source)
               /\ ip_port(from_ipv4_numeric(ipv4_numeric(source))) = [ip_port(source) EXCEPT !.port = 0]
        /\ stage = "threw_oversized" => source = no_address

\* "It is important to check for (at least) the following potential errors ...
\* the header's `doff` field is shorter than the minimum allowed" (tcp_header.cc):
\* a segment with such a field is not accepted.
ShortOffsetRefused ==
    stage = "parsed" /\ change = "short" => parsed.result # "NoError"

=============================================================================
