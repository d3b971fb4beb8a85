------------------------------- MODULE MCHpack -------------------------------
(* Hpack with the static table's 61 entries, of which three are in use, and *)
(* four characters whose Huffman codes are shorter and longer than octets.  *)
EXTENDS Hpack, TLC

\* '0', 'a', 'x' and '!' with the codes of RFC 7541, appendix B.
MCCode ==
    48 :> <<0,0,0,0,0>> @@ 97 :> <<0,0,0,1,1>> @@ 120 :> <<1,1,1,1,0,0,1>>
    @@ 33 :> <<1,1,1,1,1,1,1,0,0,0>>

Field(k, v) == [key |-> k, value |-> v]

MCStaticTable ==
    [i \in 1..61 |->
        CASE i = 2  -> Field(<<97>>, <<48>>)
          [] i = 33 -> Field(<<120>>, NULL)
          [] OTHER  -> Field(<<0, i>>, NULL)]

MCCommonKeys == {<<120>>, <<33>>}

\* One that is in the static table, one whose key is, and one that is not; one
\* without a value, and one whose value fills the memory of the Huffman decoder.
MCFields == {Field(<<97>>, <<48>>), Field(<<120>>, <<48, 48>>), Field(<<33>>, <<97>>),
             Field(<<97>>, <<>>), Field(<<97>>, <<48, 48, 48, 48, 48, 48, 48, 48>>)}

MCFieldsWithEmpty == {Field(<<120>>, <<>>), Field(<<33>>, <<97>>)}
MCRingFields == {Field(<<120>>, <<48, 48>>), Field(<<33>>, <<97>>)}

Choose(h, t, a) == [huffman |-> h, type |-> t, add |-> a]
MCOptions == {Choose("Never", "StaticTable", "Common"), Choose("Always", "NoTable", "None")}
MCPeerOptions == {Choose("Auto", "AllTables", "Common")}

\* An entry without a value, and a string that stops too early.
MCMalformed == {<<128 + 33>>, <<64, 3, 48>>}
=============================================================================
