------------------------------ MODULE BusTurns ------------------------------
(***************************************************************************)
(* What the SPI2 arbiter promises its users, and nothing of how: users     *)
(* line up in the order they asked, only the one at the head of the line   *)
(* may select its chip, at most one chip is selected at any time, and the  *)
(* line keeps moving.  "Serving permits in arrival order makes both waits  *)
(* structural rather than statistical" (src/board/spi2.rs, SPI2_FAIR).     *)
(* Spi2Bus implements this module.                                         *)
(***************************************************************************)
EXTENDS Naturals, Sequences, SequencesExt

CONSTANT Users

VARIABLES line,      \* users in arrival order; the head has the turn
          selected   \* users whose chip-select is low

vars == <<line, selected>>

Init == line = << >> /\ selected = {}

\* A user that is not in line asks for the bus.
Join(u) ==
    /\ ~Contains(line, u)
    /\ line' = Append(line, u)
    /\ UNCHANGED selected

\* A user gives up waiting, or ends its turn, with its chip deselected.
Leave(i) ==
    /\ line[i] \notin selected
    /\ line' = RemoveAt(line, i)
    /\ UNCHANGED selected

\* The user whose turn it is selects its chip.
Select ==
    /\ line # << >>
    /\ selected = {}
    /\ selected' = {Head(line)}
    /\ UNCHANGED line

Deselect ==
    /\ selected # {}
    /\ selected' = {}
    /\ UNCHANGED line

Next ==
    \/ \E u \in Users : Join(u)
    \/ \E i \in 1..Len(line) : Leave(i)
    \/ Select
    \/ Deselect

\* Every turn ends: the head deselects its chip and leaves.
EndTurn == Deselect \/ (line # << >> /\ Leave(1))

Spec == Init /\ [][Next]_vars /\ WF_vars(EndTurn)
=============================================================================
