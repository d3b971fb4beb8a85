------------------------------ MODULE HpackTable ------------------------------
(***************************************************************************)
(* The dynamic table of HPACK (src/http/dynamic_hpack_table.c and the size *)
(* accounting of src/http/hpack.c): a ring of slots, counted from 0, that  *)
(* grows when it is full and shrinks when three quarters are unused, with  *)
(* the newest entry at `start`.  A table is a record; the operators return *)
(* the table after the call.  Slots outside the used area are NULL, as the *)
(* fortified build of the code has them.                                   *)
(***************************************************************************)
EXTENDS Naturals, Sequences

CONSTANTS
    NULL,
    StartSize   \* IMPL_START_SIZE

ASSUME StartAssumption == StartSize \in Nat \ {0}

\* IMPL_GROWTH_FACTOR, IMPL_SHRINK_FACTOR
GrowthFactor == 2
ShrinkFactor == GrowthFactor * GrowthFactor

\* hpack_dynamic_table_get_empty.
EmptyTable(max) ==
    [entries |-> [i \in {} |-> NULL], count |-> 0, capacity |-> 0, start |-> 0,
     size |-> 0, max |-> max]

\* hpack_dynamic_table_at, for the entries in their order.
At(t, i) == t.entries[(t.start + i) % t.capacity]
AsList(t) == [i \in 1..t.count |-> At(t, i - 1)]

Slots(capacity) == 0..(capacity - 1)

\* The full ring is doubled; the entries in front of start go behind the old end.
Grow(t) ==
    LET capacity == IF t.capacity = 0 THEN StartSize ELSE t.capacity * GrowthFactor
    IN  [t EXCEPT !.capacity = capacity,
            !.entries = [i \in Slots(capacity) |->
                CASE i \in t.start..(t.count - 1) -> t.entries[i]
                  [] i \in t.count..(t.count + t.start - 1) -> t.entries[i - t.count]
                  [] OTHER -> NULL]]

\* hpack_dynamic_table_insert_at_start.
InsertAtStart(t, e) ==
    LET room  == IF t.count >= t.capacity THEN Grow(t) ELSE t
        first == (room.start + room.capacity - 1) % room.capacity
    IN  [room EXCEPT !.start = first, !.entries[first] = e, !.count = @ + 1]

Move(entries, from, to) == [entries EXCEPT ![to] = entries[from], ![from] = NULL]

\* Both loops of the shrinking: the entries go to the slots 0..count - 1, the
\* last one first or the first one first.
MoveFromEnd(t) ==
    LET moved[n \in 0..t.count] ==
          IF n = 0 THEN t.entries
          ELSE Move(moved[n - 1], (t.start + t.count - n) % t.capacity, t.count - n)
    IN  moved[t.count]

MoveFromFront(t) ==
    LET moved[n \in 0..t.count] ==
          IF n = 0 THEN t.entries
          ELSE Move(moved[n - 1], (t.start + n - 1) % t.capacity, n - 1)
    IN  moved[t.count]

\* Fault: the entries of the half that is given up stay there.
RearrangedInPlace(t, capacity) == IF t.start >= capacity THEN t.entries ELSE MoveFromFront(t)

\* The slots after the entries have been moved into the half that is kept.
Rearranged(t, capacity) ==
    CASE t.start >= capacity -> MoveFromEnd(t)
      [] t.start = 0 -> t.entries
      [] OTHER -> MoveFromFront(t)

Shrink(t, capacity) ==
    LET moved == Rearranged(t, capacity)
    IN  [t EXCEPT !.capacity = capacity, !.start = 0,
                  !.entries = [i \in Slots(capacity) |-> moved[i]]]

\* hpack_dynamic_table_pop_at_end, for a table that is not empty.
PopAtEnd(t) ==
    LET last   == (t.start + t.count - 1) % t.capacity
        popped == [t EXCEPT !.entries[last] = NULL, !.count = @ - 1]
        smaller == t.capacity \div GrowthFactor
    IN  IF popped.count < t.capacity \div ShrinkFactor /\ smaller >= StartSize
        THEN Shrink(popped, smaller) ELSE popped

-----------------------------------------------------------------------------
(* The accounting.                                                         *)

\* get_dynamic_entry_size.
EntryOverhead == 32
EntrySize(e) == Len(e.key) + Len(e.value) + EntryOverhead

\* What the entries amount to.
SumOfSizes(t) ==
    LET sum[n \in 0..t.count] == IF n = 0 THEN 0 ELSE sum[n - 1] + EntrySize(At(t, n - 1))
    IN  sum[t.count]

DropOldest(t) ==
    LET oldest == At(t, t.count - 1)
    IN  [PopAtEnd(t) EXCEPT !.size = @ - EntrySize(oldest)]

\* Fault: a table that just fits loses an entry.
EvictOneMore(t, room) ==
    LET left[n \in 0..t.count] ==
          IF n = 0 THEN t
          ELSE LET before == left[n - 1]
               IN  IF before.size >= room /\ before.count > 0 THEN DropOldest(before) ELSE before
    IN  left[t.count]

\* The loops that pop until the table is no larger than room.
Evict(t, room) ==
    LET left[n \in 0..t.count] ==
          IF n = 0 THEN t
          ELSE LET before == left[n - 1]
               IN  IF before.size > room THEN DropOldest(before) ELSE before
    IN  left[t.count]

\* insert_entry_into_dynamic_table.
InsertEntry(t, e) ==
    IF EntrySize(e) > t.max THEN EmptyTable(t.max)
    ELSE LET room == Evict(t, t.max - EntrySize(e))
         IN  [InsertAtStart(room, e) EXCEPT !.size = @ + EntrySize(e)]

\* set_hpack_compress_state_setting, set_hpack_decompress_state_setting and
\* dynamic_table_evict_entries_on_table_change.
SetMax(t, max) ==
    IF max = 0 THEN EmptyTable(0) ELSE Evict([t EXCEPT !.max = max], max)
=============================================================================
