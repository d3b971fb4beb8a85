--------------------------- MODULE BufferedReader ---------------------------
(***************************************************************************)
(* The reader every protocol of the server reads its connection through    *)
(* (utils/buffered_reader.c).  Between two requests of an HTTP/1           *)
(* connection nothing is dropped from its buffer, so the buffer always is  *)
(* the first "size" symbols of what the peer has sent: a reader is the     *)
(* record [size, cursor, state].                                           *)
(***************************************************************************)
EXTENDS Integers, Sequences

CONSTANT
    Chunk           \* BUFFERED_READER_CHUNK_SIZE, in symbols

ASSUME ChunkAssumption == Chunk \in Nat \ {0}

CR == <<"CR">>
LF == <<"LF">>

\* HTTP_LINE_SEPERATORS.
Delimiter == <<CR, LF>>

get_buffered_reader == [size |-> 0, cursor |-> 0, state |-> "Open"]

\* Bytes in the buffer that were not handed out; none once the stream is not
\* open any more, whatever the buffer holds.
get_available_data_length(r) == IF r.state = "Open" THEN r.size - r.cursor ELSE 0

\* read_from_descriptor has written n more symbols behind the buffer.
get_more_data_partially(r, n) == [r EXCEPT !.size = @ + n]

\* One round of the loop of get_until_delimiter: the symbol under the cursor is
\* compared with the one symbol of the delimiter that is due.  A symbol that
\* differs starts the delimiter again and is not looked at a second time.
delimiter_step(index, symbol) == IF symbol = Delimiter[index + 1] THEN index + 1 ELSE 0

\* Despite its name TRUE when nothing is left: the stream was closed, or the
\* cursor has reached the end of the buffer.
has_more_data(r) == r.state = "Closed" \/ r.cursor >= r.size
=============================================================================
