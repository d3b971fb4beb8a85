----------------------------- MODULE HpackHuffman -----------------------------
(***************************************************************************)
(* The Huffman coding of HPACK strings (src/http/hpack_huffman.c).  A      *)
(* string is a sequence of characters, an encoded one a sequence of        *)
(* octets, numbers below 256.  The tree of the decoder is known by the     *)
(* codes of its leaves.                                                    *)
(***************************************************************************)
EXTENDS Integers, Sequences, SequencesExt

CONSTANT Code   \* the bits of each character, in the order they are sent

\* MIN_HPACK_BITS_PER_CHAR, and the length of the code that must not occur.
MinBitsPerChar == 5
EosBits == 30

\* What the coding needs of the codes of RFC 7541, appendix B: none begins
\* another, and the ones that fill the last octet are none of them.
ASSUME CodeAssumption ==
    /\ \A c \in DOMAIN Code : Len(Code[c]) \in MinBitsPerChar..EosBits
    /\ \A c, d \in DOMAIN Code : c # d => ~IsPrefix(Code[c], Code[d])
    /\ \A c \in DOMAIN Code : Len(Code[c]) < 8 => \E i \in 1..Len(Code[c]) : Code[c][i] # 1

Bits(s) == FlattenSeq([i \in 1..Len(s) |-> Code[s[i]]])

\* hpack_huffman_get_encoded_size.
EncodedSize(s) == (Len(Bits(s)) + 7) \div 8

\* The bits of the octets and the octet of eight bits.
BitAt(octets, n) == (octets[((n - 1) \div 8) + 1] \div 2^(7 - ((n - 1) % 8))) % 2
Octet(bits) ==
    LET value[n \in 0..8] == IF n = 0 THEN 0 ELSE 2 * value[n - 1] + bits[n]
    IN  value[8]

\* hpack_huffman_encode_value_fixed_size: the last octet is filled with ones.
HuffmanEncode(s) ==
    LET bits == Bits(s)
        BitOrFill(i) == IF i <= Len(bits) THEN bits[i] ELSE 1
    IN  [n \in 1..EncodedSize(s) |-> Octet([k \in 1..8 |-> BitOrFill(8 * (n - 1) + k)])]

\* What malloc got for n octets.
MemorySize(n) == (8 * n + MinBitsPerChar - 1) \div MinBitsPerChar

\* One bit further down the tree, back to the root with a character when a
\* leaf is reached.  The characters have to leave one place of the memory free.
Walk(at, bit, size) ==
    LET node == Append(at.node, bit)
        ends == {c \in DOMAIN Code : Code[c] = node}
    IN  CASE ~at.ok -> at
          [] at.ok /\ ends # {} ->
                [ok |-> Len(at.value) + 1 < MemorySize(size), node |-> <<>>,
                 value |-> Append(at.value, CHOOSE c \in ends : TRUE)]
          [] OTHER -> [at EXCEPT !.ok = Len(node) < EosBits, !.node = node]

\* decode_bytes_huffman_impl.  The bits after the last character are not looked
\* at: the test in front of the one for the padding (buffer.size >= last_pos.pos)
\* always holds.
HuffmanDecode(octets) ==
    IF octets = <<>> THEN [ok |-> FALSE, node |-> <<>>, value |-> <<>>]
    ELSE LET at[n \in 0..(8 * Len(octets))] ==
               IF n = 0 THEN [ok |-> TRUE, node |-> <<>>, value |-> <<>>]
               ELSE Walk(at[n - 1], BitAt(octets, n), Len(octets))
         IN  at[8 * Len(octets)]
=============================================================================
