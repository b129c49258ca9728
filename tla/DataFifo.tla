------------------------------ MODULE DataFifo -------------------------------
(***************************************************************************)
(* The storage of a data queue (tn_utils.c): an array used as a ring, with *)
(* the index of the oldest element and of the next free place.  It keeps   *)
(* no count: the ring is empty when the indices are equal, so it is full   *)
(* one element before its array is.                                        *)
(*                                                                         *)
(* A storage is a record f of the four fields of TN_DQUE.                  *)
(***************************************************************************)
EXTENDS Integers, Sequences

CONSTANTS Elem, MaxEntries  \* MaxEntries \in Nat

FifoState == [data_fifo : [0 .. MaxEntries - 1 -> Elem], num_entries : 0 .. MaxEntries,
              tail_cnt : Nat, header_cnt : Nat]

\* Indices start over at the end of the array.
Wrap(i, n) == IF i >= n THEN 0 ELSE i

\* Takes the array for empty again when its last place is filled.
Bug_Full(f) == f.header_cnt = f.tail_cnt - 1
Full(f) == \/ f.num_entries <= 0
           \/ f.tail_cnt = 0 /\ f.header_cnt = f.num_entries - 1
           \/ f.header_cnt = f.tail_cnt - 1
Empty(f) == f.num_entries <= 0 \/ f.tail_cnt = f.header_cnt

\* A full storage is left as it is.
dque_fifo_write(f, data_ptr) ==
  IF Full(f) THEN f
  ELSE [f EXCEPT !.data_fifo[f.header_cnt] = data_ptr,
                 !.header_cnt = Wrap(@ + 1, f.num_entries)]

Oldest(f) == f.data_fifo[f.tail_cnt]
dque_fifo_read(f) == [f EXCEPT !.tail_cnt = Wrap(@ + 1, f.num_entries)]

-----------------------------------------------------------------------------
\* What it stores, oldest first.
Stored(f) == IF f.header_cnt >= f.tail_cnt THEN f.header_cnt - f.tail_cnt
             ELSE f.header_cnt - f.tail_cnt + f.num_entries
Place(f, i) == IF f.tail_cnt + i >= f.num_entries
               THEN f.tail_cnt + i - f.num_entries ELSE f.tail_cnt + i
Contents(f) == [i \in 1 .. Stored(f) |-> f.data_fifo[Place(f, i - 1)]]

\* The number of elements it can store.
Room(f) == IF f.num_entries = 0 THEN 0 ELSE f.num_entries - 1
=============================================================================
