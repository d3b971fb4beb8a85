-------------------------------- MODULE Hpack --------------------------------
(***************************************************************************)
(* Header compression (src/http/hpack.c): a compressor and a decompressor  *)
(* that read and write header blocks octet by octet, each with a dynamic   *)
(* table of its own, which the blocks have to keep in step.  The           *)
(* compressor never looks at the decompressor, so it makes no difference   *)
(* when a block is read; here it is read before the next one is begun.     *)
(***************************************************************************)
EXTENDS HpackTable, HpackHuffman

CONSTANTS
    StaticTable, \* the static table, a sequence; a NULL value has only its key
    CommonKeys,  \* the keys of hpack_generated_is_common_field_key_fast
    Fields,      \* header fields to send
    Options,     \* Http2HpackCompressOptions in use
    PeerOptions, \* the ones of a peer that may send more than this compressor does
    TableSizes,  \* dynamic table sizes that are announced
    UpdateSizes, \* dynamic table sizes an encoder changes to
    Malformed,   \* octets a peer may send that are no representation
    MaxFields    \* bound: fields in a block

ASSUME HpackAssumption ==
    /\ \A o \in Options \cup PeerOptions : /\ o.huffman \in {"Auto", "Always", "Never"}
                                        /\ o.type \in {"NoTable", "StaticTable", "AllTables"}
                                        /\ o.add \in {"None", "Common", "All"}
    /\ MaxFields \in Nat

\* Strings are octets, and the fields to send have a Huffman code.
ASSUME StringAssumption ==
    /\ DOMAIN Code \subseteq 0..255
    /\ \A c \in DOMAIN Code : Code[c] \in Seq({0, 1})
    /\ Fields \subseteq [key : Seq(DOMAIN Code), value : Seq(DOMAIN Code)]
    /\ StaticTable \in Seq([key : Seq(0..255), value : {NULL} \cup Seq(0..255)])
    /\ NULL \notin [key : Seq(0..255), value : {NULL} \cup Seq(0..255)]
    /\ NULL \notin Seq(0..255)
    /\ Malformed \subseteq Seq(0..255)
    /\ TableSizes \cup UpdateSizes \subseteq Nat

VARIABLES
    enc,   \* the compressor's table
    dec,   \* the decompressor's table
    block, \* NULL, or the header block under way
    resized \* history: "no" size was announced, "grown" when none was below the
            \* compressor's, or one was ("shrunk")

vars == <<enc, dec, block, resized>>

StaticSize == Len(StaticTable)

\* data and pos are the block and the position in it, counted from 0, sent the
\* fields it stands for, got the ones that have been read; `at` is where the
\* string literal starts that could not be read.
NewBlock(options, peer) ==
    [phase |-> "writing", options |-> options, peer |-> peer, data |-> <<>>, pos |-> 0,
     sent |-> <<>>, got |-> <<>>, malformed |-> FALSE, at |-> NULL]

\* What a block may be.
Octets == 0..255
Entry == [key : Seq(Octets), value : Seq(Octets)]
Blocks == [phase : {"writing", "reading", "refused", "read"}, options : Options \cup PeerOptions,
           peer : BOOLEAN, data : Seq(Octets), pos : Nat, sent : Seq(Fields),
           got : Seq(Entry), malformed : BOOLEAN, at : Nat \cup {NULL}]

ASSUME BlockAssumption == NULL \notin Blocks

-----------------------------------------------------------------------------
(* Integers and strings.                                                   *)

Mask(prefix) == 2^prefix - 1

\* encode_hpack_variable_integer, into an octet that holds `flags`.
EncodeInt(flags, n, prefix) ==
    LET rest[v \in Nat] == IF v >= 128 THEN <<128 + (v % 128)>> \o rest[v \div 128] ELSE <<v>>
    IN  IF n < Mask(prefix) THEN <<flags + n>>
        ELSE <<flags + Mask(prefix)>> \o rest[n - Mask(prefix)]

\* Fault: a value that fills the prefix is taken for the whole.
DecodeIntFilled(data, pos, prefix) ==
    [ok |-> TRUE, value |-> data[pos + 1] % 2^prefix, pos |-> pos + 1]

First(indices) == CHOOSE i \in indices : \A j \in indices : i <= j

TwoTo(n) ==
    LET power[i \in 0..n] == IF i = 0 THEN 1 ELSE 2 * power[i - 1]
    IN  power[n]

\* decode_hpack_variable_integer: the first octet below 128 is the last one, and
\* (amount / 8) >= sizeof(HpackVariableInteger) - 1 leaves eight to look at.
DecodeInt(data, pos, prefix) ==
    LET first == data[pos + 1] % 2^prefix
        ends  == {n \in 1..8 : pos + 1 + n <= Len(data) /\ data[pos + 1 + n] < 128}
        last  == First(ends)
        sum[n \in 0..last] ==
          IF n = 0 THEN first
          ELSE sum[n - 1] + (data[pos + 1 + n] % 128) * TwoTo(7 * (n - 1))
    IN  IF first < Mask(prefix) THEN [ok |-> TRUE, value |-> first, pos |-> pos + 1]
        ELSE IF ends = {} THEN [ok |-> FALSE, value |-> 0, pos |-> pos]
        ELSE [ok |-> TRUE, value |-> sum[last], pos |-> pos + 1 + last]

\* A string as it is, and Huffman coded.
Plain(s) == EncodeInt(0, Len(s), 7) \o s
Huffman(s) == EncodeInt(128, EncodedSize(s), 7) \o HuffmanEncode(s)

\* parse_literal_string_value.  Nothing after the length is an error, for an
\* empty string too.
DecodeString(data, pos) ==
    LET fail   == [ok |-> FALSE, value |-> <<>>, pos |-> pos]
        length == DecodeInt(data, pos, 7)
        end    == length.pos + length.value
        raw    == SubSeq(data, length.pos + 1, end)
        text   == HuffmanDecode(raw)
        valid  == /\ pos < Len(data) /\ length.ok
                  /\ length.pos < Len(data) /\ end <= Len(data)
    IN  CASE ~valid -> fail
          [] valid /\ length.value = 0 -> [ok |-> TRUE, value |-> <<>>, pos |-> end]
          [] valid /\ length.value # 0 /\ data[pos + 1] >= 128 ->
                [ok |-> text.ok, value |-> text.value, pos |-> IF text.ok THEN end ELSE pos]
          [] OTHER -> [ok |-> TRUE, value |-> raw, pos |-> end]

-----------------------------------------------------------------------------
(* What the numbers and the malformed blocks may be.                       *)

\* decode_hpack_variable_integer shifts an int: four octets after the prefix is
\* what it adds up without an overflow, 28 bits.
NumberLimit == 128 * 128 * 128 * 128

ASSUME NumberAssumption ==
    /\ \A size \in TableSizes \cup UpdateSizes : StaticSize + size < NumberLimit
    /\ \A f \in Fields : \A s \in {f.key, f.value} : Len(s) < NumberLimit /\ EncodedSize(s) < NumberLimit

\* An index that stands for no field, whatever the dynamic table holds.
NoField(i) ==
    \/ i = 0
    \/ i \in 1..StaticSize /\ StaticTable[i].value = NULL
    \/ \A size \in TableSizes \cup UpdateSizes : i > StaticSize + size \div EntryOverhead

\* A literal that ends before its index or one of its strings does.
StopsEarly(octets, prefix) ==
    LET index == DecodeInt(octets, 0, prefix)
        key   == DecodeString(octets, index.pos)
    IN  /\ index.ok => index.value = 0
        /\ index.ok /\ key.ok => ~DecodeString(octets, key.pos).ok

ASSUME MalformedAssumption ==
    \A octets \in Malformed :
        /\ octets # <<>>
        /\ \/ /\ octets[1] >= 128
              /\ LET index == DecodeInt(octets, 0, 7) IN index.ok => NoField(index.value)
           \/ octets[1] \in 64..127 /\ StopsEarly(octets, 6)
           \/ octets[1] < 32 /\ StopsEarly(octets, 4)

-----------------------------------------------------------------------------
(* The compressor.                                                         *)

\* encode_single_header_field_literal_never_indexed_variant1 and variant2: with
\* the key's index or with the key itself.
NeverIndexed1Plain(i, f) == EncodeInt(16, i, 4) \o Plain(f.value)
NeverIndexed1Huffman(i, f) == EncodeInt(16, i, 4) \o Huffman(f.value)
NeverIndexed2Plain(f) == <<16>> \o Plain(f.key) \o Plain(f.value)
NeverIndexed2Huffman(f) == <<16>> \o Huffman(f.key) \o Huffman(f.value)

\* encode_single_header_field_literal_incremental_indexing_variant1, variant2.
Incremental1Plain(i, f) == EncodeInt(64, i, 6) \o Plain(f.value)
Incremental1Huffman(i, f) == EncodeInt(64, i, 6) \o Huffman(f.value)
Incremental2Plain(f) == <<64>> \o Plain(f.key) \o Plain(f.value)
Incremental2Huffman(f) == <<64>> \o Huffman(f.key) \o Huffman(f.value)

\* Whether the Huffman coding is used for the value alone, or for both.
HuffmanForValue(usage, f) ==
    usage = "Always" \/ (usage = "Auto" /\ EncodedSize(f.value) < Len(f.value))
HuffmanForBoth(usage, f) ==
    \/ usage = "Always"
    \/ /\ usage = "Auto"
       /\ EncodedSize(f.key) + EncodedSize(f.value) < Len(f.key) + Len(f.value)

NeverIndexed1(i, f, usage) ==
    IF HuffmanForValue(usage, f) THEN NeverIndexed1Huffman(i, f) ELSE NeverIndexed1Plain(i, f)
NeverIndexed2(f, usage) ==
    IF HuffmanForBoth(usage, f) THEN NeverIndexed2Huffman(f) ELSE NeverIndexed2Plain(f)
Incremental1(i, f, usage) ==
    IF HuffmanForValue(usage, f) THEN Incremental1Huffman(i, f) ELSE Incremental1Plain(i, f)
Incremental2(f, usage) ==
    IF HuffmanForBoth(usage, f) THEN Incremental2Huffman(f) ELSE Incremental2Plain(f)

Indexed(i) == EncodeInt(128, i, 7)

\* find_in_tables: the static table, then, when it is to be used and the whole
\* field has not been found, the dynamic one from its newest entry on.
FindInTables(f, useAll) ==
    LET table    == StaticTable \o (IF useAll THEN AsList(enc) ELSE <<>>)
        keys     == {i \in 1..Len(table) : table[i].key = f.key}
        all      == {i \in keys : table[i].value = f.value}
    IN  CASE all # {}  -> [type |-> "AllFound", index |-> First(all)]
          [] all = {} /\ keys # {} -> [type |-> "KeyFound", index |-> First(keys)]
          [] OTHER     -> [type |-> "NotFound", index |-> 0]

\* should_add_header_to_table.
ShouldAdd(f, add) == add = "All" \/ (add = "Common" /\ f.key \in CommonKeys)

\* encode_single_header_field_extended: the octets and whether the field is
\* inserted into the table.
EncodeExtended(f, options) ==
    LET found == FindInTables(f, options.type = "AllTables")
        add   == ShouldAdd(f, options.add)
    IN  CASE found.type = "AllFound" -> [data |-> Indexed(found.index), add |-> FALSE]
          [] found.type = "KeyFound" ->
                [add |-> add,
                 data |-> IF add THEN Incremental1(found.index, f, options.huffman)
                          ELSE NeverIndexed1(found.index, f, options.huffman)]
          [] OTHER ->
                [add |-> add,
                 data |-> IF add THEN Incremental2(f, options.huffman)
                          ELSE NeverIndexed2(f, options.huffman)]

\* http2_hpack_compress_data_simple uses no table.
EncodeField(f, options) ==
    IF options.type = "NoTable"
    THEN [data |-> NeverIndexed2(f, options.huffman), add |-> FALSE]
    ELSE EncodeExtended(f, options)

\* http2_apply_settings_frame: the table size that a SETTINGS frame announces is
\* set for the decompressor of the side that reads it, between any two blocks;
\* the compressor on the other side keeps its own.
Announce(size) ==
    /\ block = NULL
    /\ dec' = SetMax(dec, size)
    /\ resized' = CASE size < enc.max -> "shrunk"
                   [] size >= enc.max /\ resized = "no" -> "grown"
                   [] OTHER -> resized
    /\ UNCHANGED <<enc, block>>

\* http2_hpack_compress_data is called, here or by a peer.
StartBlock(options, peer) ==
    /\ block = NULL
    /\ block' = NewBlock(options, peer)
    /\ UNCHANGED <<enc, dec, resized>>

Writing == block # NULL /\ block.phase = "writing" /\ ~block.malformed

Write(data, sent) ==
    block' = [block EXCEPT !.data = @ \o data, !.sent = @ \o sent]

\* A peer's encoder may change the size of its table and say so.
UpdateSize(size) ==
    /\ Writing /\ block.peer
    /\ block.data = <<>>
    /\ Write(EncodeInt(32, size, 5), <<>>)
    /\ enc' = SetMax(enc, size)
    /\ UNCHANGED <<dec, resized>>

\* One turn of the loop over the fields.
CompressField(f) ==
    /\ Writing
    /\ Len(block.sent) < MaxFields
    /\ LET code == EncodeField(f, block.options)
       IN  /\ Write(code.data, <<f>>)
           /\ enc' = IF code.add THEN InsertEntry(enc, f) ELSE enc
    /\ UNCHANGED <<dec, resized>>

\* It may send a literal without indexing, which this compressor does not.
PeerLiteral(f) ==
    /\ Writing /\ block.peer
    /\ Len(block.sent) < MaxFields
    /\ Write(<<0>> \o Plain(f.key) \o Plain(f.value), <<f>>)
    /\ UNCHANGED <<enc, dec, resized>>

\* Or something that is no representation at all.
PeerMalformed(octets) ==
    /\ Writing /\ block.peer
    /\ block' = [block EXCEPT !.data = @ \o octets, !.malformed = TRUE]
    /\ UNCHANGED <<enc, dec, resized>>

\* The block is complete; without a field there is none.
EndBlock ==
    /\ block # NULL /\ block.phase = "writing"
    /\ block.data # <<>>
    /\ block' = [block EXCEPT !.phase = "reading"]
    /\ UNCHANGED <<enc, dec, resized>>

-----------------------------------------------------------------------------
(* The decompressor: one action per representation, chosen by the bits of  *)
(* its first octet.                                                        *)

Reading == block # NULL /\ block.phase = "reading"

NextIn(low, high) ==
    /\ Reading
    /\ block.pos < Len(block.data)
    /\ block.data[block.pos + 1] \in low..high

\* An error ends the block and, with it, the connection.
Refuse(at) ==
    /\ block' = [block EXCEPT !.phase = "refused", !.at = at]
    /\ UNCHANGED dec

Got(field, pos) ==
    block' = [block EXCEPT !.got = Append(@, field), !.pos = pos]

\* hpack_get_table_entry_at.
GetTableEntryAt(i) ==
    CASE i = 0 -> NULL
      [] i \in 1..StaticSize -> StaticTable[i]
      [] i > StaticSize /\ dec.count <= i - StaticSize - 1 -> NULL
      [] OTHER -> At(dec, i - StaticSize - 1)

\* In the release build an entry without a value cannot be used as a whole.
ParseIndexed ==
    /\ NextIn(128, 255)
    /\ LET index == DecodeInt(block.data, block.pos, 7)
           entry == IF index.ok THEN GetTableEntryAt(index.value) ELSE NULL
       IN  IF entry = NULL THEN Refuse(NULL)
           ELSE IF entry.value = NULL THEN Refuse(NULL)
           ELSE Got(entry, index.pos) /\ UNCHANGED dec
    /\ UNCHANGED <<enc, resized>>

\* The key, by its index or as a string, and the value of a literal.
LiteralKey(prefix) ==
    LET index == DecodeInt(block.data, block.pos, prefix)
        entry == GetTableEntryAt(index.value)
    IN  CASE ~index.ok -> [ok |-> FALSE, value |-> <<>>, pos |-> NULL]
          [] index.ok /\ index.value = 0 -> DecodeString(block.data, index.pos)
          [] index.ok /\ index.value # 0 /\ entry = NULL ->
                [ok |-> FALSE, value |-> <<>>, pos |-> NULL]
          [] OTHER -> [ok |-> TRUE, value |-> entry.key, pos |-> index.pos]

ParseLiteral(prefix, indexing) ==
    LET key   == LiteralKey(prefix)
        value == DecodeString(block.data, key.pos)
        field == [key |-> key.value, value |-> value.value]
    IN  IF ~key.ok THEN Refuse(key.pos)
        ELSE IF ~value.ok THEN Refuse(value.pos)
        ELSE /\ Got(field, value.pos)
             /\ dec' = IF indexing THEN InsertEntry(dec, field) ELSE dec

\* Fault: what is read is not inserted into the table.
ParseIncrementalKeepsTable ==
    /\ NextIn(64, 127)
    /\ ParseLiteral(6, FALSE)
    /\ UNCHANGED <<enc, resized>>

ParseIncremental ==
    /\ NextIn(64, 127)
    /\ ParseLiteral(6, TRUE)
    /\ UNCHANGED <<enc, resized>>

ParseNeverIndexed ==
    /\ NextIn(16, 31)
    /\ ParseLiteral(4, FALSE)
    /\ UNCHANGED <<enc, resized>>

ParseWithoutIndexing ==
    /\ NextIn(0, 15)
    /\ ParseLiteral(4, FALSE)
    /\ UNCHANGED <<enc, resized>>

ParseSizeUpdate ==
    /\ NextIn(32, 63)
    /\ LET size == DecodeInt(block.data, block.pos, 5)
       IN  IF ~size.ok THEN Refuse(NULL)
           ELSE /\ block' = [block EXCEPT !.pos = size.pos]
                /\ dec' = SetMax(dec, size.value)
    /\ UNCHANGED <<enc, resized>>

\* The loop ends with the block.
Decompressed ==
    /\ Reading
    /\ block.pos >= Len(block.data)
    /\ block' = [block EXCEPT !.phase = "read"]
    /\ UNCHANGED <<enc, dec, resized>>

Deliver ==
    /\ block # NULL /\ block.phase = "read"
    /\ block' = NULL
    /\ UNCHANGED <<enc, dec, resized>>

-----------------------------------------------------------------------------
(* The specification.                                                      *)

\* get_default_hpack_state; the default size stands for any of them.
Init ==
    /\ \E size \in TableSizes : enc = EmptyTable(size) /\ dec = EmptyTable(size)
    /\ block = NULL
    /\ resized = "no"

Compress ==
    \/ \E options \in Options : StartBlock(options, FALSE)
    \/ \E f \in Fields : CompressField(f)
    \/ EndBlock

Peer ==
    \/ \E size \in TableSizes : Announce(size)
    \/ \E options \in PeerOptions : StartBlock(options, TRUE)
    \/ \E size \in UpdateSizes : UpdateSize(size)
    \/ \E f \in Fields : PeerLiteral(f)
    \/ \E octets \in Malformed : PeerMalformed(octets)

Decompress ==
    \/ ParseIndexed \/ ParseIncremental \/ ParseNeverIndexed
    \/ ParseWithoutIndexing \/ ParseSizeUpdate
    \/ Decompressed \/ Deliver

Next == Compress \/ Peer \/ Decompress

Spec == Init /\ [][Next]_vars

-----------------------------------------------------------------------------
(* Properties.                                                             *)

\* The decoder's memory for a Huffman coded string has to keep a place free
\* (decode_bytes_huffman_impl), which eight characters of five bits leave it not.
Fits(s) == s # <<>> => Len(s) < MemorySize(EncodedSize(s))

\* What is decompressed is what was compressed: whatever options, table sizes
\* and evictions went before, the fields of a block are read in order and in
\* full, and nothing that was not sent is taken for a field, of a malformed
\* block and after any announced size neither.  A well-formed block is refused
\* at a field only if that is the last one and has no value, if one of its
\* strings fills the memory of the Huffman decoder, or if an announced size has
\* taken entries from the decompressor that the compressor may refer to.
RoundTrip ==
    block # NULL =>
        /\ IsPrefix(block.got, block.sent)
        /\ block.phase = "read" => block.got = block.sent /\ ~block.malformed
        /\ block.phase = "refused" /\ ~block.malformed =>
              /\ Len(block.got) < Len(block.sent)
              /\ LET n == Len(block.got) + 1
                     f == block.sent[n]
                 IN  \/ f.value = <<>> /\ n = Len(block.sent)
                     \/ ~Fits(f.key) \/ ~Fits(f.value)
                     \/ resized = "shrunk"

\* The two tables never name different fields by one index: between blocks one
\* holds what the other does, newest first, and perhaps more.  As long as no
\* announced size was below the compressor's, the decompressor holds all that
\* the compressor does, and without any both are the same, slot for slot.
TablesInStep ==
    block = NULL =>
        /\ \/ IsPrefix(AsList(enc), AsList(dec))
           \/ IsPrefix(AsList(dec), AsList(enc))
        /\ resized # "shrunk" => IsPrefix(AsList(enc), AsList(dec))
        /\ resized = "no" => enc = dec

\* A ring keeps to its bounds through growing, shrinking and wrapping: the used
\* slots hold entries and the others none (what the fortified build asserts),
\* and the accounted size is the sum of the entries' sizes and within the
\* maximum.
RingIsClean(t) ==
    /\ t.count <= t.capacity
    /\ \A i \in Slots(t.capacity) :
          (t.entries[i] # NULL) <=> (\E n \in 0..(t.count - 1) : i = (t.start + n) % t.capacity)
    /\ t.size = SumOfSizes(t)
    /\ t.size <= t.max

RingsAreClean == RingIsClean(enc) /\ RingIsClean(dec)

\* Each table is the bounded list of RFC 7541: the ring behind it, with its
\* growing and shrinking, is not to be seen from outside.
List == INSTANCE HpackList WITH
    Entries <- Fields, Bounds <- TableSizes \cup UpdateSizes, SizeOf <- EntrySize,
    list <- AsList(dec), bound <- dec.max
ImplementsHpackList == List!Spec

\* hpack.c says where it checks the length of a string literal: "it is okay if
\* (*pos) + length == size here, that means the string literal goes until the
\* end!".  So a literal that ends with the block is not refused for its length.
LiteralMayGoToTheEnd ==
    block # NULL /\ block.phase = "refused" /\ block.at # NULL /\ ~block.malformed =>
        LET length == DecodeInt(block.data, block.at, 7)
        IN  length.pos + length.value # Len(block.data)
=============================================================================
