-------------------------------- MODULE Ring --------------------------------
(***************************************************************************)
(* The byte ring of the console (src/io/console.rs, struct Ring), with its *)
(* indices.  A byte is the number of its write.                            *)
(***************************************************************************)
EXTENDS Naturals, Sequences, SequencesExt

CONSTANT RING_SIZE

ASSUME RingAssumption == RING_SIZE \in Nat \ {0}

Slots == 0..(RING_SIZE - 1)

\* Indices go round.
Slot(i) == i % RING_SIZE

EmptyRing ==
    [buf |-> [i \in Slots |-> 0], head |-> 0, tail |-> 0, full |-> FALSE,
     dropped |-> 0]

Used(r) ==
    IF r.full THEN RING_SIZE
    ELSE IF r.head >= r.tail THEN r.head - r.tail
    ELSE RING_SIZE - r.tail + r.head

Free(r) == RING_SIZE - Used(r)

\* One round of the loop in write: on a full ring the tail moves too.
WriteByte(r, b) ==
    LET head == Slot(r.head + 1)
        next == [r EXCEPT !.buf[r.head] = b, !.head = head]
    IN  IF r.full
        THEN [next EXCEPT !.tail = Slot(r.tail + 1),
                          !.dropped = r.dropped + 1]
        ELSE [next EXCEPT !.full = (head = r.tail)]

Write(r, bytes) == FoldLeft(WriteByte, r, bytes)

\* How many bytes one read takes: up to the wrap, up to the reader's buffer.
ReadLen(r, cap) ==
    IF Used(r) = 0 THEN 0
    ELSE LET contiguous == IF r.head > r.tail THEN r.head - r.tail
                           ELSE RING_SIZE - r.tail
         IN  IF contiguous < cap THEN contiguous ELSE cap

ReadBytes(r, cap) == [i \in 1..ReadLen(r, cap) |-> r.buf[r.tail + i - 1]]

\* The ring after a read, which also takes the count of overwritten bytes.
\* Mutant: a read that leaves the ring marked full.
AfterReadStillFull(r, cap) ==
    [r EXCEPT !.tail = Slot(r.tail + ReadLen(r, cap)), !.dropped = 0]

AfterRead(r, cap) ==
    [r EXCEPT !.tail = Slot(r.tail + ReadLen(r, cap)),
              !.full = (r.full /\ ReadLen(r, cap) = 0),
              !.dropped = 0]

\* The unread bytes, oldest first.
Contents(r) == [i \in 1..Used(r) |-> r.buf[Slot(r.tail + i - 1)]]
=============================================================================
