------------------------------ MODULE HpackList ------------------------------
(***************************************************************************)
(* What a dynamic table promises: a list of header fields, the newest      *)
(* first, whose total size never exceeds a bound.  An entry that is added  *)
(* pushes out as many of the oldest ones as it takes, and all of them when *)
(* it is too large itself; a smaller bound pushes out the oldest ones too. *)
(***************************************************************************)
EXTENDS Naturals, Sequences

CONSTANTS
    Entries,    \* the header fields
    Bounds,     \* the bounds the table may get
    SizeOf(_)   \* the size an entry counts for

VARIABLES list, bound

\* The size of the first n entries of s.
Total(s, n) ==
    LET sum[i \in 0..Len(s)] == IF i = 0 THEN 0 ELSE sum[i - 1] + SizeOf(s[i])
    IN  sum[n]

\* The longest beginning of s that is no larger than room.
Newest(s, room) ==
    LET fits == {n \in 0..Len(s) : Total(s, n) <= room}
    IN  SubSeq(s, 1, CHOOSE n \in fits : \A m \in fits : m <= n)

Init == list = <<>> /\ bound \in Bounds

Add(e) ==
    /\ list' = IF SizeOf(e) > bound THEN <<>>
               ELSE <<e>> \o Newest(list, bound - SizeOf(e))
    /\ UNCHANGED bound

SetBound(b) ==
    /\ list' = Newest(list, b)
    /\ bound' = b

Next == (\E e \in Entries : Add(e)) \/ (\E b \in Bounds : SetBound(b))

Spec == Init /\ [][Next]_<<list, bound>>
=============================================================================
