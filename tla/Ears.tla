-------------------------------- MODULE Ears --------------------------------
(***************************************************************************)
(* What a listener promises (m5stack-core-hil/src/listen.rs): bytes only   *)
(* ever arrive at the end, and a wait matches the first pattern no earlier *)
(* wait has looked past.                                                   *)
(***************************************************************************)
EXTENDS Naturals, Sequences

CONSTANTS Pattern, Newline  \* bytes: the last one of the pattern, and '\n'

VARIABLES
    heard,   \* every byte so far
    cursor,  \* how many of them waits have looked past
    floor    \* how many of them belong to earlier captures

vars == <<heard, cursor, floor>>

Init == heard = <<>> /\ cursor = 0 /\ floor = 0

Hear ==
    /\ Len(heard') > Len(heard)
    /\ SubSeq(heard', 1, Len(heard)) = heard
    /\ UNCHANGED <<cursor, floor>>

\* at holds the first b after the first from bytes.
IsNext(b, at, from) ==
    /\ at \in (from + 1) .. Len(heard)
    /\ heard[at] = b
    /\ \A k \in (from + 1) .. (at - 1) : heard[k] # b

\* The matched line is looked past, up to its newline if that has come.
Match ==
    /\ \E at \in 1 .. Len(heard) :
        /\ IsNext(Pattern, at, cursor)
        /\ \/ \E end \in 1 .. Len(heard) : IsNext(Newline, end, at) /\ cursor' = end - 1
           \/ /\ \A k \in (at + 1) .. Len(heard) : heard[k] # Newline
              /\ cursor' = Len(heard)
    /\ UNCHANGED <<heard, floor>>

\* What has been heard belongs to the boot before.
Boundary == cursor' = Len(heard) /\ floor' = Len(heard) /\ UNCHANGED heard

Next == Hear \/ Match \/ Boundary

Spec == Init /\ [][Next]_vars

=============================================================================
