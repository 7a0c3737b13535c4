------------------------------ MODULE LogRing ------------------------------
(***************************************************************************)
(* The ring in which the compat layer keeps its log for rtw88ctl           *)
(* (rtw88_compat.c: rtw88_log_append, rtw88_printk, rtw88_read_log).  A     *)
(* ring is a record [cell, head, tail]; the loops run with the log lock     *)
(* held, so that a message, or a read, is one operator here.  A character   *)
(* is a number: only its identity and its place matter.                     *)
(***************************************************************************)
EXTENDS Naturals, Sequences, SequencesExt

CONSTANTS LogSize      \* sizeof(rtw88_log_ring), 8192 in the code

ASSUME LogSizeAssumption == LogSize \in Nat /\ LogSize > 1

Slots == 0 .. LogSize - 1

EmptyRing == [cell |-> [i \in Slots |-> 0], head |-> 0, tail |-> 0]

\* A plausible mistake: the full ring is not noticed and becomes an empty one.
PutCharNoTail(r, c) ==
    [cell |-> [r.cell EXCEPT ![r.head] = c],
     head |-> (r.head + 1) % LogSize, tail |-> r.tail]

\* A plausible mistake: the head does not wrap.
PutCharNoWrap(r, c) ==
    [cell |-> [r.cell EXCEPT ![r.head] = c], head |-> r.head + 1,
     tail |-> IF r.head + 1 = r.tail THEN (r.tail + 1) % LogSize ELSE r.tail]

\* One round of the loop of rtw88_log_append: the oldest character gives way
\* when the head runs into the tail.
PutChar(r, c) ==
    LET h == (r.head + 1) % LogSize
    IN  [cell |-> [r.cell EXCEPT ![r.head] = c],
         head |-> h,
         tail |-> IF h = r.tail THEN (r.tail + 1) % LogSize ELSE r.tail]

\* ring[n] is the ring when n characters of the message are in it.
rtw88_log_append(r, msg) ==
    LET ring[n \in 0 .. Len(msg)] == IF n = 0 THEN r ELSE PutChar(ring[n - 1], msg[n])
    IN  ring[Len(msg)]

\* What rtw88_read_log leaves in the ring: max_len characters fewer, or none.
Unread(r) == (r.head + LogSize - r.tail) % LogSize

ReadCount(r, max) == IF Unread(r) < max THEN Unread(r) ELSE max

rtw88_read_log(r, max) ==
    [r EXCEPT !.tail = (@ + ReadCount(r, max)) % LogSize]

\* The characters a read of everything would return, oldest first.
Contents(r) == [i \in 1 .. Unread(r) |-> r.cell[(r.tail + i - 1) % LogSize]]

\* rtw88_printk and rtw88_dev_printk: a message above the level is dropped.
Passes(level, at) == ~(level > at)
=============================================================================
