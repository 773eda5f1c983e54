----------------------------- MODULE WireFormat -----------------------------
(***************************************************************************)
(* A TCPSegment as bytes: NetParser and NetUnparser, InternetChecksum,     *)
(* TCPHeader and TCPSegment::parse() and serialize().  A byte is a number  *)
(* below 256; 32-bit sums are within what the model's integers hold.       *)
(***************************************************************************)
EXTENDS Buffers

-----------------------------------------------------------------------------
\* InternetChecksum.

NewChecksum(initial_sum) == [sum |-> initial_sum, parity |-> FALSE]

\* An add that starts every chunk with a high byte.
add_aligned(c, data) ==
    [c EXCEPT !.sum = FoldLeft(LAMBDA s, i : s + IF i % 2 = 1 THEN 256 * data[i] ELSE data[i],
                               @, [i \in DOMAIN data |-> i])]

\* add(): the bytes are in turn the high and the low half of a word, going on
\* where the last chunk left off.
add(c, data) ==
    LET high(i) == (i % 2 = 1) # c.parity
    IN  [sum    |-> FoldLeft(LAMBDA s, i : s + IF high(i) THEN 256 * data[i] ELSE data[i],
                             c.sum, [i \in DOMAIN data |-> i]),
         parity |-> c.parity # (Len(data) % 2 = 1)]

\* value(): the carries are folded in until none is left, and the bits inverted.
fold16(n) == (n \div 65536) + (n % 65536)
value(c) ==
    LET once == fold16(c.sum)
    IN  65535 - (IF once > 65535 THEN fold16(once) ELSE once)

-----------------------------------------------------------------------------
\* NetUnparser and NetParser, most significant byte first.

unparse_int(val, len) == [i \in 1..len |-> (val \div 256^(len - i)) % 256]

NewParser(buffer) == [buffer |-> buffer, error |-> "NoError"]

check_size(p, size) ==
    IF size > Len(str(p.buffer)) THEN [p EXCEPT !.error = "PacketTooShort"] ELSE p

\* A removal that takes what there is.
remove_prefix_lenient(p, n) ==
    IF p.error # "NoError" THEN p
    ELSE [p EXCEPT !.buffer = buffer_remove_prefix(@, IF n <= Len(str(@)) THEN n ELSE Len(str(@)))]

remove_prefix(p, n) ==
    LET q == check_size(p, n)
    IN  IF q.error # "NoError" THEN q ELSE [q EXCEPT !.buffer = buffer_remove_prefix(@, n)]

\* _parse_int(): the value, 0 after an error, and the parser that is left.
parse_int(p, len) ==
    LET q == check_size(p, len)
    IN  IF q.error # "NoError" THEN [val |-> 0, p |-> q]
        ELSE [val |-> FoldLeft(LAMBDA n, b : 256 * n + b, 0, SubSeq(str(q.buffer), 1, len)),
              p   |-> remove_prefix(q, len)]

-----------------------------------------------------------------------------
\* TCPHeader.  The flags are a set.

LENGTH == 20

\* The bit of each flag in its byte.
flag_bit == [urg |-> 5, ack |-> 4, psh |-> 3, rst |-> 2, syn |-> 1, fin |-> 0]
Flag == DOMAIN flag_bit

\* The members.  The numbers of 32 bits are kept below 2^31.
TCPHeaderType ==
    [sport : 0..65535, dport : 0..65535, seqno : 0..2147483647, ackno : 0..2147483647,
     doff : 0..15, flags : SUBSET Flag, win : 0..65535, cksum : 0..65535, uptr : 0..65535]

pack(flags) == FoldLeft(LAMBDA n, f : n + IF f \in flags THEN 2^flag_bit[f] ELSE 0, 0,
                        <<"urg", "ack", "psh", "rst", "syn", "fin">>)
unpack(fl_b) == {f \in Flag : (fl_b \div 2^flag_bit[f]) % 2 = 1}

\* A serialization that leaves out the options' space.
header_serialize_short(h) ==
    unparse_int(h.sport, 2) \o unparse_int(h.dport, 2)
      \o unparse_int(h.seqno, 4) \o unparse_int(h.ackno, 4)
      \o unparse_int(16 * h.doff, 1) \o unparse_int(pack(h.flags), 1)
      \o unparse_int(h.win, 2) \o unparse_int(h.cksum, 2) \o unparse_int(h.uptr, 2)

\* serialize(), for doff >= 5; it throws for less.  The rest of the advertised
\* size is filled with zeros.
header_serialize(h) ==
    unparse_int(h.sport, 2) \o unparse_int(h.dport, 2)
      \o unparse_int(h.seqno, 4) \o unparse_int(h.ackno, 4)
      \o unparse_int(16 * h.doff, 1) \o unparse_int(pack(h.flags), 1)
      \o unparse_int(h.win, 2) \o unparse_int(h.cksum, 2) \o unparse_int(h.uptr, 2)
      \o [i \in 1..(4 * h.doff - LENGTH) |-> 0]

\* parse(): the header, the parser that is left, and the result.
header_parse(p0) ==
    LET sport == parse_int(p0, 2)
        dport == parse_int(sport.p, 2)
        seqno == parse_int(dport.p, 4)
        ackno == parse_int(seqno.p, 4)
        off   == parse_int(ackno.p, 1)
        fl_b  == parse_int(off.p, 1)
        win   == parse_int(fl_b.p, 2)
        cksum == parse_int(win.p, 2)
        uptr  == parse_int(cksum.p, 2)
        doff  == off.val \div 16
        short == doff < 5
        p     == IF short THEN uptr.p ELSE remove_prefix(uptr.p, 4 * doff - LENGTH)
    IN  [header |-> [sport |-> sport.val, dport |-> dport.val, seqno |-> seqno.val,
                     ackno |-> ackno.val, doff |-> doff, flags |-> unpack(fl_b.val),
                     win |-> win.val, cksum |-> cksum.val, uptr |-> uptr.val],
         p      |-> p,
         result |-> IF short THEN "HeaderTooShort" ELSE p.error]

-----------------------------------------------------------------------------
\* TCPSegment.

\* serialize(): a BufferList of the header and the payload.  The checksum is
\* taken with the checksum field zero.
segment_serialize(header, payload, pseudo) ==
    LET blank == header_serialize([header EXCEPT !.cksum = 0])
        cksum == value(add(add(NewChecksum(pseudo), blank), payload))
    IN  append(append(<<>>, <<NewBuffer(header_serialize([header EXCEPT !.cksum = cksum]))>>),
               <<NewBuffer(payload)>>)

\* parse(): the result is the parser's, not that of the header's parse().
segment_parse(bytes, pseudo) ==
    LET h == header_parse(NewParser(NewBuffer(bytes)))
    IN  IF value(add(NewChecksum(pseudo), bytes)) # 0
        THEN [result |-> "BadChecksum"]
        ELSE [result |-> h.p.error, header |-> h.header, payload |-> str(h.p.buffer)]

=============================================================================
