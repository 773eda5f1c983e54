------------------------------- MODULE MCWire -------------------------------
(* Model-checking instances of WireSpec. *)
EXTENDS WireSpec

\* Every field has a value of its own, so that a swap is seen, and each flag is
\* set and clear.
MCHeaders ==
    {[sport |-> 258, dport |-> 772, seqno |-> seqno, ackno |-> 84281096, doff |-> doff,
      flags |-> flags, win |-> win, cksum |-> 0, uptr |-> 2314] :
        seqno \in {0, 16909060}, doff \in {5, 6}, win \in {0, 65535},
        flags \in {{}, {"syn"}, {"fin", "ack"}, {"urg", "psh", "rst"}, Flag}}
\* 127.0.0.1 and an address whose bytes are all different.
MCIPs == {<<127, 0, 0, 1>>, <<10, 20, 30, 40>>}
MCPayloads == {<<>>, <<7>>, <<255, 1>>, <<0, 9, 200>>}
=============================================================================
