--------------------------- MODULE OverwriteQueue ---------------------------
(***************************************************************************)
(* What the console ring promises: a bounded queue of bytes that never     *)
(* refuses a writer.  When it is full the oldest bytes give way and are    *)
(* counted; everything else comes out once, in the order it went in.       *)
(* Bytes are numbered in the order they are written since the last reset.   *)
(* ConsoleBoot implements this module.                                     *)
(***************************************************************************)
EXTENDS Naturals, Sequences, FiniteSetsExt

CONSTANT Capacity, MaxLine

VARIABLES queue,   \* the unread bytes, oldest first
          lost,    \* bytes that gave way
          batch,   \* the bytes read last
          taken    \* bytes read so far

vars == <<queue, lost, batch, taken>>

Init == queue = << >> /\ lost = 0 /\ batch = << >> /\ taken = 0

Written == Len(queue) + lost + taken

\* A line of k bytes goes in; the newest Capacity bytes stay.
Put(k) ==
    LET all    == queue \o [i \in 1..k |-> Written + i]
        excess == Max({0, Len(all) - Capacity})
    IN  /\ queue' = SubSeq(all, excess + 1, Len(all))
        /\ lost' = lost + excess
        /\ UNCHANGED <<batch, taken>>

Get(k) ==
    /\ batch' = SubSeq(queue, 1, k)
    /\ taken' = taken + k
    /\ queue' = SubSeq(queue, k + 1, Len(queue))
    /\ UNCHANGED lost

\* A reset empties the memory the queue is in.
Restart == queue' = << >> /\ lost' = 0 /\ batch' = << >> /\ taken' = 0

Next == (\E k \in 1..MaxLine : Put(k)) \/ (\E k \in 0..Len(queue) : Get(k)) \/ Restart

Spec == Init /\ [][Next]_vars
=============================================================================
