--------------------------- MODULE Spi2BusProofs ---------------------------
(***************************************************************************)
(* Theorems about Spi2Bus, for any users, any waiter slots and any         *)
(* configs that meet its assumptions: exclusion, order, what a turn starts *)
(* from, and that it implements BusTurns.                                  *)
(***************************************************************************)
EXTENDS Spi2Bus, SequenceTheorems, TLAPS

\* Removing a waiter leaves a queue of users behind.
LEMMA RemoveAtType ==
    ASSUME NEW S, NEW q \in Seq(S), NEW i \in 1..Len(q)
    PROVE  RemoveAt(q, i) \in Seq(S)
<1>1. SubSeq(q, 1, i - 1) \in Seq(S)
  OBVIOUS
<1>2. SubSeq(q, i + 1, Len(q)) \in Seq(S)
  OBVIOUS
<1> QED BY <1>1, <1>2 DEF RemoveAt

\* The waiters behind the removed one move up by one, the others stay.
LEMMA RemoveAtElement ==
    ASSUME NEW S, NEW q \in Seq(S), NEW i \in 1..Len(q)
    PROVE  /\ Len(RemoveAt(q, i)) = Len(q) - 1
           /\ \A k \in 1..(Len(q) - 1) :
                  RemoveAt(q, i)[k] = IF k < i THEN q[k] ELSE q[k + 1]
<1> DEFINE front == SubSeq(q, 1, i - 1)
           back  == SubSeq(q, i + 1, Len(q))
<1>1. /\ front \in Seq(S) /\ Len(front) = i - 1
      /\ \A k \in 1..(i - 1) : front[k] = q[k]
  <2>1. \A k \in 1..(i - 1) : q[k] \in S
    OBVIOUS
  <2> QED BY <2>1, SubSeqProperties
<1>2. /\ back \in Seq(S) /\ Len(back) = Len(q) - i
      /\ \A k \in 1..(Len(q) - i) : back[k] = q[k + i]
  <2>1. \A k \in (i + 1)..Len(q) : q[k] \in S
    OBVIOUS
  <2>2. /\ back \in Seq(S) /\ Len(back) = Len(q) - i
        /\ \A k \in 1..(Len(q) - (i + 1) + 1) : back[k] = q[(i + 1) + k - 1]
    BY <2>1, SubSeqProperties
  <2> QED BY <2>2
<1>3. RemoveAt(q, i) = front \o back
  BY DEF RemoveAt
<1> HIDE DEF front, back
<1>4. /\ Len(front \o back) = Len(front) + Len(back)
      /\ \A k \in 1..(Len(front) + Len(back)) :
             (front \o back)[k] = IF k <= Len(front) THEN front[k]
                                  ELSE back[k - Len(front)]
  BY <1>1, <1>2, ConcatProperties
<1> QED BY <1>1, <1>2, <1>3, <1>4

\* The kinds of users never share one.
LEMMA Kinds ==
    /\ Displays \subseteq Fair /\ Prepared \subseteq Fair /\ Inner \subseteq Fair
    /\ Fair \subseteq Users /\ Raw \subseteq Users
    /\ \A u \in Fair : u \notin Raw /\ u # NoUser
    /\ \A u \in Users : u \in Raw \/ u \in Fair
BY BusAssumption, UsersAssumption DEF Fair, Users


-----------------------------------------------------------------------------
(* Type correctness, together with the states each kind of user passes     *)
(* through: only these may stand in the queue or own the permit.           *)

KindOfState ==
    \A u \in Users :
        /\ pc[u] \in {"enter", "queued", "granted", "release"} => u \in Fair
        /\ pc[u] \in {"guard", "command", "setconfig", "setwait", "invalidate"} =>
               u \in Prepared
        /\ pc[u] = "transfer" => u \notin Prepared

TypeInv == TypeOK /\ KindOfState

LEMMA TypeInit == Init => TypeInv
<1> SUFFICES ASSUME Init PROVE TypeInv
  OBVIOUS
<1>1. pc \in [Users -> States] /\ KindOfState
  BY DEF Init, States, KindOfState
<1>2. config \in [Users -> Configs] /\ live \in CardConfigs /\ clock \in Configs
  BY BusAssumption DEF Init, Configs
<1>3. queue \in Seq(Fair) /\ permit \in Fair \cup {NoUser}
  BY DEF Init
<1>4. held \in [{"disp", "card"} -> Int] /\ pad \in [out : BOOLEAN, low : BOOLEAN]
  BY DEF Init
<1> QED
  BY <1>1, <1>2, <1>3, <1>4 DEF Init, TypeInv, TypeOK

USE DEF At, Goto, hwVars, busVars, padVars, cfgVars

LEMMA TypeStep ==
    ASSUME TypeInv, NEW u \in Users, Advance(u) \/ TakeMutex(u) \/ Choose(u)
    PROVE  TypeInv'
<1> USE Kinds, BusAssumption
        DEF TypeInv, TypeOK, KindOfState, States, TurnStates, BusStates, Configs
<1>1. CASE AcquireNow(u)
  BY <1>1 DEF AcquireNow, Got, Counter
<1>2. CASE Enqueue(u)
  BY <1>2 DEF Enqueue
<1>3. CASE TurnedAway(u)
  BY <1>3 DEF TurnedAway
<1>4. CASE Grant(u)
  BY <1>4 DEF Grant, Got, Counter
<1>5. CASE TakeTurn(u)
  BY <1>5 DEF TakeTurn
<1>6. CASE LockPending(u)
  BY <1>6 DEF LockPending
<1>7. CASE StartTransfer(u)
  <2>1. CASE config[u] \in Rejected
    BY <1>7, <2>1 DEF StartTransfer
  <2>2. CASE config[u] \notin Rejected
    <3>1. /\ pc' = [pc EXCEPT ![u] = "transfer"]
          /\ clock' = config[u] /\ cardConfigured' = FALSE
          /\ cs' = [cs EXCEPT ![u] = IF u \in Absent THEN "high" ELSE "low"]
          /\ u \notin Prepared
          /\ UNCHANGED <<busVars, padVars, cfgVars, held>>
      BY <1>7, <2>2 DEF StartTransfer, Select
    <3>2. cs' \in [Users -> {"low", "high"}]
      BY <3>1
    <3> QED BY <3>1, <3>2
  <2> QED BY <2>1, <2>2
<1>8. CASE EndTransfer(u)
  BY <1>8 DEF EndTransfer
<1>9. CASE OpenGuard(u)
  BY <1>9 DEF OpenGuard
<1>10. CASE DropGuard(u)
  BY <1>10 DEF DropGuard, Rel, Counter
<1>11. CASE Invalidate(u)
  BY <1>11 DEF Invalidate
<1>12. CASE Unlock(u)
  BY <1>12 DEF Unlock
<1>13. CASE Release(u)
  BY <1>13 DEF Release, Rel, Counter
<1>14. CASE Lock(u)
  BY <1>14 DEF Lock
<1>15. CASE LockForInvalidate(u)
  BY <1>15 DEF LockForInvalidate
<1>16. CASE Enter(u)
  BY <1>16 DEF Enter
<1>17. CASE CancelQueued(u)
  BY RemoveAtType, <1>17 DEF CancelQueued
<1>18. CASE CancelLock(u)
  BY <1>18 DEF CancelLock
<1>19. CASE StartCommand(u)
  BY <1>19 DEF StartCommand, Select
<1>20. CASE ApplyLive(u)
  BY <1>20 DEF ApplyLive
<1>21. CASE StoreConfig(u)
  BY <1>21 DEF StoreConfig
<1>22. CASE SetDeviceConfig(u)
  BY <1>22 DEF SetDeviceConfig
<1>23. CASE SetConfigPending(u)
  BY <1>23 DEF SetConfigPending
<1>24. CASE CancelSetConfig(u)
  BY <1>24 DEF CancelSetConfig
<1> QED
  BY <1>1, <1>2, <1>3, <1>4, <1>5, <1>6, <1>7, <1>8, <1>9, <1>10, <1>11, <1>12, <1>13, <1>14, <1>15, <1>16, <1>17, <1>18, <1>19, <1>20, <1>21, <1>22,
     <1>23, <1>24
  DEF Advance, TakeMutex, Choose

LEMMA TypeStutter == TypeInv /\ UNCHANGED vars => TypeInv'
BY DEF vars, TypeInv, TypeOK, KindOfState

LEMMA TypeInvariant == Spec => []TypeInv
<1>1. TypeInv /\ [Next]_vars => TypeInv'
  BY TypeStep, TypeStutter DEF Next
<1> QED
  BY <1>1, TypeInit, PTL DEF Spec

\* Every variable keeps its type, whatever the users, clocks and queue length.
THEOREM TypeCorrect == Spec => []TypeOK
<1>1. TypeInv => TypeOK
  BY DEF TypeInv
<1> QED
  BY <1>1, TypeInvariant, PTL

-----------------------------------------------------------------------------
(* Mutual exclusion.  The permit and the mutex each belong to exactly the  *)
(* users whose future stands inside them, and a chip is selected only      *)
(* inside both.                                                            *)

HoldsPermit == \A u \in Fair : pc[u] \in TurnStates <=> permit = u

HoldsMutex ==
    \A u \in Users : pc[u] \in BusStates \cup {"invalidate"} <=> owner = u

ChipSelected ==
    \A u \in Users : cs[u] = "low" => pc[u] \in {"transfer", "command"}

TurnInv == HoldsPermit /\ HoldsMutex /\ ChipSelected

LEMMA TurnInit == Init => TurnInv
BY Kinds, BusAssumption
DEF Init, TurnInv, HoldsPermit, HoldsMutex, ChipSelected, TurnStates, BusStates

LEMMA TurnStep ==
    ASSUME TypeInv, TurnInv, NEW u \in Users,
           Advance(u) \/ TakeMutex(u) \/ Choose(u)
    PROVE  TurnInv'
<1> USE Kinds, BusAssumption
        DEF TurnInv, HoldsPermit, HoldsMutex, ChipSelected, TurnStates,
            BusStates, TypeInv, TypeOK, KindOfState
<1>1. CASE AcquireNow(u)
  BY <1>1 DEF AcquireNow, Got, PermitFree
<1>2. CASE Enqueue(u)
  BY <1>2 DEF Enqueue
<1>3. CASE TurnedAway(u)
  BY <1>3 DEF TurnedAway
<1>4. CASE Grant(u)
  BY <1>4 DEF Grant, Got
<1>5. CASE TakeTurn(u)
  BY <1>5 DEF TakeTurn
<1>6. CASE LockPending(u)
  BY <1>6 DEF LockPending
<1>7. CASE StartTransfer(u)
  <2>1. CASE config[u] \in Rejected
    BY <1>7, <2>1 DEF StartTransfer
  <2>2. CASE config[u] \notin Rejected
    <3>1. pc' = [pc EXCEPT ![u] = "transfer"] /\ UNCHANGED <<permit, owner>>
      BY <1>7, <2>2 DEF StartTransfer
    <3>2. \A v \in Users : cs'[v] = "low" => v = u \/ cs[v] = "low"
      BY <1>7, <2>2 DEF StartTransfer, Select
    <3>3. ChipSelected'
      BY <3>1, <3>2
    <3> QED BY <1>7, <3>1, <3>3 DEF StartTransfer
  <2> QED BY <2>1, <2>2
<1>8. CASE EndTransfer(u)
  BY <1>8 DEF EndTransfer
<1>9. CASE OpenGuard(u)
  BY <1>9 DEF OpenGuard
<1>10. CASE DropGuard(u)
  BY <1>10 DEF DropGuard, Rel
<1>11. CASE Invalidate(u)
  BY <1>11 DEF Invalidate
<1>12. CASE Unlock(u)
  BY <1>12 DEF Unlock
<1>13. CASE Release(u)
  BY <1>13 DEF Release, Rel
<1>14. CASE Lock(u)
  BY <1>14 DEF Lock
<1>15. CASE LockForInvalidate(u)
  BY <1>15 DEF LockForInvalidate
<1>16. CASE Enter(u)
  BY <1>16 DEF Enter
<1>17. CASE CancelQueued(u)
  BY <1>17 DEF CancelQueued
<1>18. CASE CancelLock(u)
  BY <1>18 DEF CancelLock
<1>19. CASE StartCommand(u)
  BY <1>19 DEF StartCommand, Select
<1>20. CASE ApplyLive(u)
  BY <1>20 DEF ApplyLive
<1>21. CASE StoreConfig(u)
  BY <1>21 DEF StoreConfig
<1>22. CASE SetDeviceConfig(u)
  BY <1>22 DEF SetDeviceConfig
<1>23. CASE SetConfigPending(u)
  BY <1>23 DEF SetConfigPending
<1>24. CASE CancelSetConfig(u)
  BY <1>24 DEF CancelSetConfig
<1> QED
  BY <1>1, <1>2, <1>3, <1>4, <1>5, <1>6, <1>7, <1>8, <1>9, <1>10, <1>11,
     <1>12, <1>13, <1>14, <1>15, <1>16, <1>17, <1>18, <1>19, <1>20, <1>21, <1>22,
     <1>23, <1>24
  DEF Advance, TakeMutex, Choose

LEMMA TurnStutter == TurnInv /\ UNCHANGED vars => TurnInv'
BY DEF vars, TurnInv, HoldsPermit, HoldsMutex, ChipSelected

LEMMA TurnsHeld == Spec => [](TypeInv /\ TurnInv)
<1>1. TypeInv /\ TurnInv /\ [Next]_vars => (TypeInv /\ TurnInv)'
  BY TypeStep, TypeStutter, TurnStep, TurnStutter DEF Next
<1> QED
  BY <1>1, TypeInit, TurnInit, PTL DEF Spec

\* At most one chip is selected at any time, by the owner of the mutex, who
\* unless it skipped the arbiter also holds the permit: whatever the number of
\* users and the paths they take, so also with a finish card outside the queue.
THEOREM ChipExclusion == Spec => []OneSelected
<1>1. TypeInv /\ TurnInv => OneSelected
  BY Kinds
  DEF TurnInv, HoldsPermit, HoldsMutex, ChipSelected, TurnStates, BusStates,
      OneSelected, TypeInv, TypeOK
<1> QED
  BY <1>1, TurnsHeld, PTL

-----------------------------------------------------------------------------
(* The card's terms.  card_configured is never TRUE with settings the card *)
(* did not choose, except while its set_config is on the way to clear it,  *)
(* or a display that has the mutex is.                                     *)

AboutToTransfer == \E d \in Displays : pc[d] = "locked"

TermsKnown ==
    \A c \in Prepared :
        /\ cardConfigured
        /\ pc[c] \notin {"setconfig", "setwait", "invalidate"}
        /\ ~AboutToTransfer
        => clock \in {config[c], live}

\* A set_config that can be dropped waits for a display, which clears the record.
SetConfigNotNeeded ==
    \A c \in Prepared \cap Quitters :
        pc[c] = "setwait" /\ cardConfigured => AboutToTransfer

PanelForeign ==
    \A d \in Displays :
        /\ config[d] = DisplayConfig
        /\ pc[d] \in {"transfer", "unlock"} => ~cardConfigured

GuardConfigured ==
    \A c \in Prepared :
        pc[c] \in {"guard", "command"} =>
            cardConfigured \/ config[c] \in Rejected

TermsInv == TermsKnown /\ SetConfigNotNeeded /\ PanelForeign /\ GuardConfigured

\* Only a display holds up the set_config of a card that may drop it.
OnlyDisplaysWait == Prepared \cap Quitters # {} => Inner = {} /\ Raw = {}

LEMMA TermsStep ==
    ASSUME OnlyDisplaysWait, TypeInv, TurnInv, TermsInv, NEW u \in Users,
           Advance(u) \/ TakeMutex(u) \/ Choose(u)
    PROVE  TermsInv'
<1> USE Kinds, BusAssumption, UsersAssumption
        DEF TermsInv, TermsKnown, SetConfigNotNeeded, PanelForeign,
            GuardConfigured, AboutToTransfer, TurnInv, HoldsMutex, BusStates,
            TypeInv, TypeOK, KindOfState
<1>1. CASE AcquireNow(u)
  BY <1>1 DEF AcquireNow, Got, PermitFree
<1>2. CASE Enqueue(u)
  BY <1>2 DEF Enqueue
<1>3. CASE TurnedAway(u)
  BY <1>3 DEF TurnedAway
<1>4. CASE Grant(u)
  BY <1>4 DEF Grant, Got
<1>5. CASE TakeTurn(u)
  BY <1>5 DEF TakeTurn
<1>6. CASE LockPending(u)
  BY <1>6 DEF LockPending
<1>7. CASE StartTransfer(u)
  <2>1. CASE config[u] \in Rejected
    BY <1>7, <2>1 DEF StartTransfer
  <2>2. CASE config[u] \notin Rejected
    BY <1>7, <2>2 DEF StartTransfer
  <2> QED BY <2>1, <2>2
<1>8. CASE EndTransfer(u)
  BY <1>8 DEF EndTransfer
<1>9. CASE OpenGuard(u)
  <2>1. /\ u \in Prepared /\ pc[u] = "locked" /\ owner = u
        /\ pc' = [pc EXCEPT ![u] = "guard"] /\ config' = config /\ live' = live
        /\ clock' = IF Reconfigures(u) THEN config[u] ELSE clock
        /\ cardConfigured' = (cardConfigured \/ Reconfigures(u))
    BY <1>9 DEF OpenGuard
  <2>2. ~AboutToTransfer /\ ~AboutToTransfer'
    BY <2>1
  <2>3. TermsKnown' /\ SetConfigNotNeeded'
    BY <2>1, <2>2 DEF Reconfigures
  <2>4. PanelForeign'
    BY <2>1
  <2>5. GuardConfigured'
    BY <2>1 DEF Reconfigures
  <2> QED BY <2>3, <2>4, <2>5
<1>10. CASE DropGuard(u)
  BY <1>10 DEF DropGuard, Rel
<1>11. CASE Invalidate(u)
  BY <1>11 DEF Invalidate
<1>12. CASE Unlock(u)
  BY <1>12 DEF Unlock
<1>13. CASE Release(u)
  BY <1>13 DEF Release, Rel
<1>14. CASE Lock(u)
  BY <1>14 DEF Lock
<1>15. CASE LockForInvalidate(u)
  BY <1>15 DEF LockForInvalidate
<1>16. CASE Enter(u)
  BY <1>16 DEF Enter
<1>17. CASE CancelQueued(u)
  BY <1>17 DEF CancelQueued
<1>18. CASE CancelLock(u)
  BY <1>18 DEF CancelLock
<1>19. CASE StartCommand(u)
  BY <1>19 DEF StartCommand, Select
<1>20. CASE ApplyLive(u)
  BY <1>20 DEF ApplyLive
<1>21. CASE StoreConfig(u)
  BY <1>21 DEF StoreConfig
<1>22. CASE SetDeviceConfig(u)
  BY <1>22 DEF SetDeviceConfig
<1>23. CASE SetConfigPending(u)
  <2>1. /\ u \in Prepared /\ pc[u] = "setconfig" /\ owner \in Users
        /\ pc' = [pc EXCEPT ![u] = "setwait"] /\ owner # u
        /\ UNCHANGED <<cardConfigured, clock, config, live>>
    BY <1>23 DEF SetConfigPending
  <2>2. AboutToTransfer' = AboutToTransfer
    BY <2>1
  <2>3. TermsKnown' /\ PanelForeign' /\ GuardConfigured'
    BY <2>1, <2>2
  <2>4. ASSUME u \in Quitters, cardConfigured
        PROVE  AboutToTransfer
    <3>1. owner \in Displays /\ pc[owner] \in {"locked", "transfer", "unlock"}
      BY <2>1, <2>4 DEF OnlyDisplaysWait, Users
    <3> QED BY <2>4, <3>1
  <2> QED BY <2>1, <2>2, <2>3, <2>4
<1>24. CASE CancelSetConfig(u)
  BY <1>24 DEF CancelSetConfig
<1> QED
  BY <1>1, <1>2, <1>3, <1>4, <1>5, <1>6, <1>7, <1>8, <1>9, <1>10, <1>11,
     <1>12, <1>13, <1>14, <1>15, <1>16, <1>17, <1>18, <1>19, <1>20, <1>21, <1>22,
     <1>23, <1>24
  DEF Advance, TakeMutex, Choose

\* A card with a guard open runs at its stored config or the one it chose on
\* the guard, never at the display's, however turns, cancelled frames and clock
\* raises interleave. A clock raise may be dropped too, where only displays can
\* make it wait: any other holder of the mutex may leave the record as it is.
THEOREM CardTerms ==
    ASSUME OnlyDisplaysWait
    PROVE  Spec => []CardOnOwnTerms
<1>1. Init => TermsInv
  BY Kinds, UsersAssumption
  DEF Init, TermsInv, TermsKnown, SetConfigNotNeeded, PanelForeign, GuardConfigured
<1>2. TermsInv /\ UNCHANGED vars => TermsInv'
  BY DEF vars, TermsInv, TermsKnown, SetConfigNotNeeded, PanelForeign,
         GuardConfigured, AboutToTransfer
<1>3. TypeInv /\ TurnInv /\ TermsInv /\ [Next]_vars => TermsInv'
  BY <1>2, OnlyDisplaysWait, TermsStep DEF Next
<1>4. TypeInv /\ TurnInv /\ TermsInv => CardOnOwnTerms
  <2>1. ASSUME TypeInv, TurnInv, TermsInv, NEW c \in Prepared,
               pc[c] \in {"guard", "command"}
        PROVE  ~AboutToTransfer
    BY <2>1, Kinds, UsersAssumption
    DEF AboutToTransfer, TurnInv, HoldsMutex, BusStates, TypeInv, KindOfState
  <2> QED BY <2>1 DEF TermsInv, TermsKnown, GuardConfigured, CardOnOwnTerms
<1> QED
  BY <1>1, <1>3, <1>4, TurnsHeld, PTL DEF Spec

-----------------------------------------------------------------------------
(* The pad.  A guard hands GPIO35 back only when the settings are foreign. *)
(* That is enough because a display that took the pad and was cancelled    *)
(* before it took the mutex was held up by set_config, which is about to   *)
(* make the settings foreign.                                              *)

PadOwned ==
    pad.out /\ cardConfigured =>
        \/ \E d \in Displays : pc[d] \in {"lock", "locked"}
        \/ \E c \in Prepared : pc[c] = "invalidate"

GuardMiso == \A c \in Prepared : pc[c] \in {"guard", "command"} => ~pad.out

DisplayConfigured == \A d \in Displays : config[d] = DisplayConfig

MisoInv == PadOwned /\ GuardMiso /\ DisplayConfigured

LEMMA MisoStep ==
    ASSUME Raw = {}, TypeInv, TurnInv, MisoInv, NEW u \in Users,
           Advance(u) \/ TakeMutex(u) \/ Choose(u)
    PROVE  MisoInv'
<1> USE Kinds, BusAssumption, UsersAssumption
        DEF MisoInv, PadOwned, GuardMiso, DisplayConfigured, TurnInv,
            HoldsPermit, HoldsMutex, TurnStates, BusStates, TypeInv, TypeOK,
            KindOfState
<1>1. CASE AcquireNow(u)
  BY <1>1 DEF AcquireNow, Got, PermitFree
<1>2. CASE Enqueue(u)
  BY <1>2 DEF Enqueue
<1>3. CASE TurnedAway(u)
  BY <1>3 DEF TurnedAway
<1>4. CASE Grant(u)
  BY <1>4 DEF Grant, Got
<1>5. CASE TakeTurn(u)
  BY <1>5 DEF TakeTurn
<1>6. CASE LockPending(u)
  BY <1>6 DEF LockPending
<1>7. CASE StartTransfer(u)
  <2>1. CASE config[u] \in Rejected
    BY <1>7, <2>1 DEF StartTransfer
  <2>2. CASE config[u] \notin Rejected
    BY <1>7, <2>2 DEF StartTransfer
  <2> QED BY <2>1, <2>2
<1>8. CASE EndTransfer(u)
  BY <1>8 DEF EndTransfer
<1>9. CASE OpenGuard(u)
  BY <1>9 DEF OpenGuard
<1>10. CASE DropGuard(u)
  BY <1>10 DEF DropGuard, Rel
<1>11. CASE Invalidate(u)
  BY <1>11 DEF Invalidate
<1>12. CASE Unlock(u)
  BY <1>12 DEF Unlock
<1>13. CASE Release(u)
  BY <1>13 DEF Release, Rel
<1>14. CASE Lock(u)
  BY <1>14 DEF Lock
<1>15. CASE LockForInvalidate(u)
  BY <1>15 DEF LockForInvalidate
<1>16. CASE Enter(u)
  BY <1>16 DEF Enter
<1>17. CASE CancelQueued(u)
  BY <1>17 DEF CancelQueued
<1>18. CASE CancelLock(u)
  BY <1>18 DEF CancelLock
<1>19. CASE StartCommand(u)
  BY <1>19 DEF StartCommand, Select
<1>20. CASE ApplyLive(u)
  BY <1>20 DEF ApplyLive
<1>21. CASE StoreConfig(u)
  BY <1>21 DEF StoreConfig
<1>22. CASE SetDeviceConfig(u)
  BY <1>22 DEF SetDeviceConfig
<1>23. CASE SetConfigPending(u)
  BY <1>23 DEF SetConfigPending
<1>24. CASE CancelSetConfig(u)
  BY <1>24 DEF CancelSetConfig
<1> QED
  BY <1>1, <1>2, <1>3, <1>4, <1>5, <1>6, <1>7, <1>8, <1>9, <1>10, <1>11,
     <1>12, <1>13, <1>14, <1>15, <1>16, <1>17, <1>18, <1>19, <1>20, <1>21, <1>22,
     <1>23, <1>24
  DEF Advance, TakeMutex, Choose

\* With one display and no card outside a guard, the panel is clocked at the DC
\* level it recorded: nobody touches the pad between TakeTurn and the transfer.
PanelDc ==
    \A d \in Displays :
        pc[d] \in {"lock", "lockwait", "locked", "transfer"} =>
            pad = [out |-> TRUE, low |-> dcLow]

LEMMA PanelStep ==
    ASSUME Raw = {}, Inner = {}, \A d, e \in Displays : d = e,
           TypeInv, TurnInv, PanelDc, NEW u \in Users,
           Advance(u) \/ TakeMutex(u) \/ Choose(u)
    PROVE  PanelDc'
<1> USE Kinds, BusAssumption, UsersAssumption
        DEF PanelDc, TurnInv, HoldsPermit, TurnStates, BusStates, TypeInv,
            TypeOK, KindOfState
<1>1. CASE AcquireNow(u)
  BY <1>1 DEF AcquireNow, Got, PermitFree
<1>2. CASE Enqueue(u)
  BY <1>2 DEF Enqueue
<1>3. CASE TurnedAway(u)
  BY <1>3 DEF TurnedAway
<1>4. CASE Grant(u)
  BY <1>4 DEF Grant, Got
<1>5. CASE TakeTurn(u)
  BY <1>5 DEF TakeTurn
<1>6. CASE LockPending(u)
  BY <1>6 DEF LockPending
<1>7. CASE StartTransfer(u)
  <2>1. CASE config[u] \in Rejected
    BY <1>7, <2>1 DEF StartTransfer
  <2>2. CASE config[u] \notin Rejected
    BY <1>7, <2>2 DEF StartTransfer
  <2> QED BY <2>1, <2>2
<1>8. CASE EndTransfer(u)
  BY <1>8 DEF EndTransfer
<1>9. CASE OpenGuard(u)
  BY <1>9 DEF OpenGuard
<1>10. CASE DropGuard(u)
  BY <1>10 DEF DropGuard, Rel
<1>11. CASE Invalidate(u)
  BY <1>11 DEF Invalidate
<1>12. CASE Unlock(u)
  BY <1>12 DEF Unlock
<1>13. CASE Release(u)
  BY <1>13 DEF Release, Rel
<1>14. CASE Lock(u)
  BY <1>14 DEF Lock
<1>15. CASE LockForInvalidate(u)
  BY <1>15 DEF LockForInvalidate
<1>16. CASE Enter(u)
  BY <1>16 DEF Enter
<1>17. CASE CancelQueued(u)
  BY <1>17 DEF CancelQueued
<1>18. CASE CancelLock(u)
  BY <1>18 DEF CancelLock
<1>19. CASE StartCommand(u)
  BY <1>19 DEF StartCommand, Select
<1>20. CASE ApplyLive(u)
  BY <1>20 DEF ApplyLive
<1>21. CASE StoreConfig(u)
  BY <1>21 DEF StoreConfig
<1>22. CASE SetDeviceConfig(u)
  BY <1>22 DEF SetDeviceConfig
<1>23. CASE SetConfigPending(u)
  BY <1>23 DEF SetConfigPending
<1>24. CASE CancelSetConfig(u)
  BY <1>24 DEF CancelSetConfig
<1> QED
  BY <1>1, <1>2, <1>3, <1>4, <1>5, <1>6, <1>7, <1>8, <1>9, <1>10, <1>11,
     <1>12, <1>13, <1>14, <1>15, <1>16, <1>17, <1>18, <1>19, <1>20, <1>21, <1>22,
     <1>23, <1>24
  DEF Advance, TakeMutex, Choose

\* GPIO35 follows the turn in the firmware finish_sd builds, for any configs
\* and waiter slots, with display frames cancelled at every await.
THEOREM PadSafety ==
    Raw = {} /\ Inner = {} /\ (\A d, e \in Displays : d = e) =>
        (Spec => []PadFollowsTurn)
<1> SUFFICES ASSUME Raw = {}, Inner = {}, \A d, e \in Displays : d = e
             PROVE  Spec => []PadFollowsTurn
  OBVIOUS
<1> DEFINE PadInv == MisoInv /\ PanelDc
<1>1. Init => PadInv
  BY Kinds DEF Init, MisoInv, PadOwned, GuardMiso, DisplayConfigured, PanelDc
<1>2. PadInv /\ UNCHANGED vars => PadInv'
  BY DEF vars, MisoInv, PadOwned, GuardMiso, DisplayConfigured, PanelDc
<1>3. TypeInv /\ TurnInv /\ PadInv /\ [Next]_vars => PadInv'
  BY <1>2, MisoStep, PanelStep DEF Next
<1>4. PadInv => PadFollowsTurn
  BY DEF MisoInv, GuardMiso, PanelDc, PadFollowsTurn
<1> QED
  BY <1>1, <1>3, <1>4, TurnsHeld, PTL DEF Spec

-----------------------------------------------------------------------------
(* Arrival order.  A user that waits is in the queue, and every step that  *)
(* touches queue or permit keeps the relative order of the rest.           *)

InQueue ==
    \A u \in Fair : pc[u] = "queued" => \E j \in 1..Len(queue) : queue[j] = u

LEMMA QueueStep ==
    ASSUME TypeInv, InQueue, NEW u \in Users,
           Advance(u) \/ TakeMutex(u) \/ Choose(u)
    PROVE  InQueue'
<1> USE Kinds, BusAssumption DEF InQueue, TypeInv, TypeOK
<1>1. CASE AcquireNow(u)
  BY <1>1 DEF AcquireNow, Got, PermitFree
<1>2. CASE Enqueue(u)
  <2>1. queue' = Append(queue, u) /\ queue \in Seq(Fair) /\ u \in Fair
    BY <1>2 DEF Enqueue, KindOfState
  <2>2. /\ Len(queue') = Len(queue) + 1
        /\ queue'[Len(queue) + 1] = u
        /\ \A k \in 1..Len(queue) : queue'[k] = queue[k]
    BY <2>1
  <2> QED BY <1>2, <2>2 DEF Enqueue
<1>3. CASE TurnedAway(u)
  BY <1>3 DEF TurnedAway
<1>4. CASE Grant(u)
  <2>1. /\ Len(queue') = Len(queue) - 1
        /\ \A k \in 1..(Len(queue) - 1) : queue'[k] = queue[k + 1]
        /\ queue[1] = u
    BY <1>4 DEF Grant
  <2>2. ASSUME NEW v \in Fair, pc'[v] = "queued"
        PROVE  \E j \in 1..Len(queue') : queue'[j] = v
    <3>1. v # u /\ pc[v] = "queued"
      BY <1>4, <2>2 DEF Grant
    <3>2. PICK j \in 1..Len(queue) : queue[j] = v
      BY <3>1
    <3>3. j - 1 \in 1..Len(queue') /\ queue'[j - 1] = v
      BY <2>1, <3>1, <3>2
    <3> QED BY <3>3
  <2> QED BY <2>2
<1>5. CASE TakeTurn(u)
  BY <1>5 DEF TakeTurn
<1>6. CASE LockPending(u)
  BY <1>6 DEF LockPending
<1>7. CASE StartTransfer(u)
  BY <1>7 DEF StartTransfer, Select
<1>8. CASE EndTransfer(u)
  BY <1>8 DEF EndTransfer
<1>9. CASE OpenGuard(u)
  BY <1>9 DEF OpenGuard
<1>10. CASE DropGuard(u)
  BY <1>10 DEF DropGuard, Rel
<1>11. CASE Invalidate(u)
  BY <1>11 DEF Invalidate
<1>12. CASE Unlock(u)
  BY <1>12 DEF Unlock
<1>13. CASE Release(u)
  BY <1>13 DEF Release, Rel
<1>14. CASE Lock(u)
  BY <1>14 DEF Lock
<1>15. CASE LockForInvalidate(u)
  BY <1>15 DEF LockForInvalidate
<1>16. CASE Enter(u)
  BY <1>16 DEF Enter
<1>17. CASE CancelQueued(u)
  <2>1. PICK i \in 1..Len(queue) : queue[i] = u /\ queue' = RemoveAt(queue, i)
    BY <1>17 DEF CancelQueued
  <2>2. /\ Len(queue') = Len(queue) - 1
        /\ \A k \in 1..(Len(queue) - 1) :
               queue'[k] = IF k < i THEN queue[k] ELSE queue[k + 1]
    <3>1. queue \in Seq(Fair)
      OBVIOUS
    <3> QED BY ONLY <2>1, <3>1, RemoveAtElement
  <2>3. ASSUME NEW v \in Fair, pc'[v] = "queued"
        PROVE  \E j \in 1..Len(queue') : queue'[j] = v
    <3>1. v # u /\ pc[v] = "queued"
      BY <1>17, <2>3 DEF CancelQueued
    <3>2. PICK j \in 1..Len(queue) : queue[j] = v
      BY <3>1
    <3>3. CASE j < i
      BY <2>2, <3>2, <3>3
    <3>4. CASE j > i
      <4>1. j - 1 \in 1..Len(queue') /\ queue'[j - 1] = v
        BY <2>2, <3>2, <3>4
      <4> QED BY <4>1
    <3> QED BY <2>1, <3>1, <3>2, <3>3, <3>4
  <2> QED BY <2>3
<1>18. CASE CancelLock(u)
  BY <1>18 DEF CancelLock
<1>19. CASE StartCommand(u)
  BY <1>19 DEF StartCommand, Select
<1>20. CASE ApplyLive(u)
  BY <1>20 DEF ApplyLive
<1>21. CASE StoreConfig(u)
  BY <1>21 DEF StoreConfig
<1>22. CASE SetDeviceConfig(u)
  BY <1>22 DEF SetDeviceConfig
<1>23. CASE SetConfigPending(u)
  BY <1>23 DEF SetConfigPending
<1>24. CASE CancelSetConfig(u)
  BY <1>24 DEF CancelSetConfig
<1> QED
  BY <1>1, <1>2, <1>3, <1>4, <1>5, <1>6, <1>7, <1>8, <1>9, <1>10, <1>11,
     <1>12, <1>13, <1>14, <1>15, <1>16, <1>17, <1>18, <1>19, <1>20, <1>21, <1>22,
     <1>23, <1>24
  DEF Advance, TakeMutex, Choose

LEMMA OrderStep ==
    ASSUME TypeInv, InQueue, NEW u \in Users,
           Advance(u) \/ TakeMutex(u) \/ Choose(u),
           NEW v \in Fair, NEW w \in Fair,
           pc[w] = "queued", pc'[w] = "queued", Ahead(v, w)'
    PROVE  Ahead(v, w)
<1> USE Kinds, BusAssumption DEF InQueue, TypeInv, TypeOK, Ahead
<1>1. CASE AcquireNow(u)
  BY <1>1 DEF AcquireNow, Got, PermitFree
<1>2. CASE Enqueue(u)
  <2>1. queue' = Append(queue, u) /\ queue \in Seq(Fair) /\ u \in Fair
    BY <1>2 DEF Enqueue, KindOfState
  <2>2. /\ Len(queue') = Len(queue) + 1
        /\ queue'[Len(queue) + 1] = u
        /\ \A k \in 1..Len(queue) : queue'[k] = queue[k]
    BY <2>1
  <2>3. w # u /\ permit' = permit
    BY <1>2 DEF Enqueue
  <2>4. CASE permit = v
    BY <2>4
  <2>5. CASE permit # v
    <3>1. PICK a \in 1..Len(queue'), b \in 1..Len(queue') :
              a < b /\ queue'[a] = v /\ queue'[b] = w
      BY <2>3, <2>5
    <3>2. b # Len(queue) + 1
      BY <2>2, <2>3, <3>1
    <3>3. Len(queue) \in Nat
      OBVIOUS
    <3>4. a \in 1..Len(queue) /\ b \in 1..Len(queue)
      BY ONLY <2>2, <3>1, <3>2, <3>3
    <3> QED BY <2>2, <3>1, <3>4
  <2> QED BY <2>4, <2>5
<1>3. CASE TurnedAway(u)
  BY <1>3 DEF TurnedAway
<1>4. CASE Grant(u)
  <2>1. /\ Len(queue') = Len(queue) - 1
        /\ \A k \in 1..(Len(queue) - 1) : queue'[k] = queue[k + 1]
        /\ queue[1] = u /\ permit' = u
    BY <1>4 DEF Grant
  <2>2. w # u
    BY <1>4 DEF Grant
  <2>3. PICK j \in 1..Len(queue) : queue[j] = w
    OBVIOUS
  <2>4. CASE v = u
    <3>1. 1 < j /\ 1 \in 1..Len(queue)
      BY <2>1, <2>2, <2>3
    <3> QED BY <2>1, <2>3, <2>4, <3>1
  <2>5. CASE v # u
    <3>1. PICK a \in 1..Len(queue'), b \in 1..Len(queue') :
              a < b /\ queue'[a] = v /\ queue'[b] = w
      BY <2>1, <2>5
    <3>2. /\ a + 1 \in 1..Len(queue) /\ b + 1 \in 1..Len(queue) /\ a + 1 < b + 1
          /\ queue[a + 1] = v /\ queue[b + 1] = w
      BY <2>1, <3>1
    <3> QED BY <3>2
  <2> QED BY <2>4, <2>5
<1>5. CASE TakeTurn(u)
  BY <1>5 DEF TakeTurn
<1>6. CASE LockPending(u)
  BY <1>6 DEF LockPending
<1>7. CASE StartTransfer(u)
  BY <1>7 DEF StartTransfer, Select
<1>8. CASE EndTransfer(u)
  BY <1>8 DEF EndTransfer
<1>9. CASE OpenGuard(u)
  BY <1>9 DEF OpenGuard
<1>10. CASE DropGuard(u)
  BY <1>10 DEF DropGuard, Rel
<1>11. CASE Invalidate(u)
  BY <1>11 DEF Invalidate
<1>12. CASE Unlock(u)
  BY <1>12 DEF Unlock
<1>13. CASE Release(u)
  BY <1>13 DEF Release, Rel
<1>14. CASE Lock(u)
  BY <1>14 DEF Lock
<1>15. CASE LockForInvalidate(u)
  BY <1>15 DEF LockForInvalidate
<1>16. CASE Enter(u)
  BY <1>16 DEF Enter
<1>17. CASE CancelQueued(u)
  <2>1. PICK i \in 1..Len(queue) : queue[i] = u /\ queue' = RemoveAt(queue, i)
    BY <1>17 DEF CancelQueued
  <2>2. /\ Len(queue') = Len(queue) - 1
        /\ \A k \in 1..(Len(queue) - 1) :
               queue'[k] = IF k < i THEN queue[k] ELSE queue[k + 1]
    <3>1. queue \in Seq(Fair)
      OBVIOUS
    <3> QED BY ONLY <2>1, <3>1, RemoveAtElement
  <2>3. CASE permit' = v
    BY <1>17, <2>3 DEF CancelQueued
  <2>4. CASE permit' # v
    <3>1. PICK a \in 1..Len(queue'), b \in 1..Len(queue') :
              a < b /\ queue'[a] = v /\ queue'[b] = w
      BY <2>4
    <3> DEFINE Old(k) == IF k < i THEN k ELSE k + 1
    <3>2. Old(a) \in 1..Len(queue) /\ Old(b) \in 1..Len(queue) /\ Old(a) < Old(b)
      BY <2>2, <3>1
    <3>3. queue[Old(a)] = v /\ queue[Old(b)] = w
      BY <2>2, <3>1
    <3> QED BY <3>2, <3>3
  <2> QED BY <2>3, <2>4
<1>18. CASE CancelLock(u)
  BY <1>18 DEF CancelLock
<1>19. CASE StartCommand(u)
  BY <1>19 DEF StartCommand, Select
<1>20. CASE ApplyLive(u)
  BY <1>20 DEF ApplyLive
<1>21. CASE StoreConfig(u)
  BY <1>21 DEF StoreConfig
<1>22. CASE SetDeviceConfig(u)
  BY <1>22 DEF SetDeviceConfig
<1>23. CASE SetConfigPending(u)
  BY <1>23 DEF SetConfigPending
<1>24. CASE CancelSetConfig(u)
  BY <1>24 DEF CancelSetConfig
<1> QED
  BY <1>1, <1>2, <1>3, <1>4, <1>5, <1>6, <1>7, <1>8, <1>9, <1>10, <1>11,
     <1>12, <1>13, <1>14, <1>15, <1>16, <1>17, <1>18, <1>19, <1>20, <1>21, <1>22,
     <1>23, <1>24
  DEF Advance, TakeMutex, Choose

\* Whoever waits is never overtaken: the queue serves arrivals in order, with
\* any number of users, cancelled waiters and full queues.
THEOREM ArrivalOrder == Spec => NoOvertaking
<1>1. Init => InQueue
  BY DEF Init, InQueue, Fair, Users
<1>2. InQueue /\ UNCHANGED vars => InQueue'
  BY DEF vars, InQueue
<1>3. TypeInv /\ InQueue /\ [Next]_vars => InQueue'
  BY <1>2, QueueStep DEF Next
<1>4. TypeInv /\ InQueue /\ [Next]_vars =>
          [\A u, v \in Fair :
              At(u, "queued") /\ At(u, "queued")' /\ Ahead(v, u)' => Ahead(v, u)]_vars
  BY OrderStep DEF Next
<1> QED
  BY <1>1, <1>3, <1>4, TypeInit, TypeInvariant, PTL DEF Spec, NoOvertaking

-----------------------------------------------------------------------------
(* The permit counters.  A card's release is counted before its mutex and  *)
(* permit go back, a device's as the permit goes back.                     *)

Counted == permit # NoUser /\ ~(permit \in Prepared /\ pc[permit] \in {"unlock", "release"})

HeldInv ==
    \A k \in {"disp", "card"} :
        held[k] = IF Counted /\ Counter(permit) = k THEN 1 ELSE 0

LEMMA HeldStep ==
    ASSUME Quitters \cap Prepared = {},
           TypeInv, TurnInv, HeldInv, NEW u \in Users,
           Advance(u) \/ TakeMutex(u) \/ Choose(u)
    PROVE  HeldInv'
<1> USE Kinds, BusAssumption, UsersAssumption
        DEF HeldInv, Counted, Counter, TurnInv, HoldsPermit, HoldsMutex,
            TurnStates, BusStates, TypeInv, TypeOK, KindOfState
<1>1. CASE AcquireNow(u)
  BY <1>1 DEF AcquireNow, Got, PermitFree
<1>2. CASE Enqueue(u)
  BY <1>2 DEF Enqueue
<1>3. CASE TurnedAway(u)
  BY <1>3 DEF TurnedAway
<1>4. CASE Grant(u)
  BY <1>4 DEF Grant, Got
<1>5. CASE TakeTurn(u)
  BY <1>5 DEF TakeTurn
<1>6. CASE LockPending(u)
  BY <1>6 DEF LockPending
<1>7. CASE StartTransfer(u)
  <2>1. CASE config[u] \in Rejected
    BY <1>7, <2>1 DEF StartTransfer
  <2>2. CASE config[u] \notin Rejected
    BY <1>7, <2>2 DEF StartTransfer
  <2> QED BY <2>1, <2>2
<1>8. CASE EndTransfer(u)
  BY <1>8 DEF EndTransfer
<1>9. CASE OpenGuard(u)
  BY <1>9 DEF OpenGuard
<1>10. CASE DropGuard(u)
  BY <1>10 DEF DropGuard, Rel
<1>11. CASE Invalidate(u)
  BY <1>11 DEF Invalidate
<1>12. CASE Unlock(u)
  BY <1>12 DEF Unlock
<1>13. CASE Release(u)
  BY <1>13 DEF Release, Rel
<1>14. CASE Lock(u)
  BY <1>14 DEF Lock
<1>15. CASE LockForInvalidate(u)
  BY <1>15 DEF LockForInvalidate
<1>16. CASE Enter(u)
  BY <1>16 DEF Enter
<1>17. CASE CancelQueued(u)
  BY <1>17 DEF CancelQueued
<1>18. CASE CancelLock(u)
  BY <1>18 DEF CancelLock
<1>19. CASE StartCommand(u)
  BY <1>19 DEF StartCommand, Select
<1>20. CASE ApplyLive(u)
  BY <1>20 DEF ApplyLive
<1>21. CASE StoreConfig(u)
  BY <1>21 DEF StoreConfig
<1>22. CASE SetDeviceConfig(u)
  BY <1>22 DEF SetDeviceConfig
<1>23. CASE SetConfigPending(u)
  BY <1>23 DEF SetConfigPending
<1>24. CASE CancelSetConfig(u)
  BY <1>24 DEF CancelSetConfig
<1> QED
  BY <1>1, <1>2, <1>3, <1>4, <1>5, <1>6, <1>7, <1>8, <1>9, <1>10, <1>11,
     <1>12, <1>13, <1>14, <1>15, <1>16, <1>17, <1>18, <1>19, <1>20, <1>21, <1>22,
     <1>23, <1>24
  DEF Advance, TakeMutex, Choose

\* `got - rel` is what a side holds: at most one turn in all, on the side of the
\* permit's holder, and nothing once the permit is free.
THEOREM CountersSound ==
    Quitters \cap Prepared = {} => (Spec => []CountersTellHolder)
<1> SUFFICES ASSUME Quitters \cap Prepared = {}
             PROVE  Spec => []CountersTellHolder
  OBVIOUS
<1>1. Init => HeldInv
  BY DEF Init, HeldInv, Counted
<1>2. HeldInv /\ UNCHANGED vars => HeldInv'
  BY DEF vars, HeldInv, Counted, Counter
<1>3. TypeInv /\ TurnInv /\ HeldInv /\ [Next]_vars => HeldInv'
  BY <1>2, HeldStep DEF Next
<1>4. HeldInv => CountersTellHolder
  BY DEF HeldInv, Counted, Counter, CountersTellHolder
<1> QED
  BY <1>1, <1>3, <1>4, TurnsHeld, PTL DEF Spec

-----------------------------------------------------------------------------
(* The refinement.  The arbiter is the line of turns of BusTurns, for any  *)
(* users, waiter slots and configs, as long as every user takes the        *)
(* permit.  The fairness half is left to TLC.                              *)

(* The permit holder in front of the waiters.                              *)

LEMMA ConsElement ==
    ASSUME NEW S, NEW p \in S, NEW q \in Seq(S)
    PROVE  /\ <<p>> \o q \in Seq(S)
           /\ Len(<<p>> \o q) = Len(q) + 1
           /\ (<<p>> \o q)[1] = p
           /\ \A k \in 1..Len(q) : (<<p>> \o q)[k + 1] = q[k]
<1>1. <<p>> \in Seq(S) /\ Len(<<p>>) = 1 /\ <<p>>[1] = p
  OBVIOUS
<1>2. /\ <<p>> \o q \in Seq(S)
      /\ Len(<<p>> \o q) = 1 + Len(q)
      /\ \A i \in 1..(1 + Len(q)) :
             (<<p>> \o q)[i] = IF i <= 1 THEN <<p>>[i] ELSE q[i - 1]
  BY <1>1, ConcatProperties
<1> QED BY <1>1, <1>2

LEMMA ConsAppend ==
    ASSUME NEW S, NEW p \in S, NEW q \in Seq(S), NEW u \in S
    PROVE  <<p>> \o Append(q, u) = Append(<<p>> \o q, u)
<1> DEFINE l == <<p>> \o Append(q, u)
           r == Append(<<p>> \o q, u)
<1>1. /\ Append(q, u) \in Seq(S) /\ Len(Append(q, u)) = Len(q) + 1
      /\ \A k \in 1..(Len(q) + 1) :
             Append(q, u)[k] = IF k = Len(q) + 1 THEN u ELSE q[k]
  OBVIOUS
<1>2. /\ l \in Seq(S) /\ Len(l) = Len(q) + 2 /\ l[1] = p
      /\ \A k \in 1..(Len(q) + 1) :
             l[k + 1] = IF k = Len(q) + 1 THEN u ELSE q[k]
  BY <1>1, ConsElement
<1>3. /\ r \in Seq(S) /\ Len(r) = Len(q) + 2 /\ r[1] = p
      /\ \A k \in 1..(Len(q) + 1) :
             r[k + 1] = IF k = Len(q) + 1 THEN u ELSE q[k]
  BY ConsElement
<1> HIDE DEF l, r
<1>4. \A i \in 1..Len(l) : l[i] = r[i]
  <2> TAKE i \in 1..Len(l)
  <2>1. CASE i = 1
    BY <2>1, <1>2, <1>3
  <2>2. CASE i # 1
    <3>1. i - 1 \in 1..(Len(q) + 1) /\ (i - 1) + 1 = i
      BY <2>2, <1>2
    <3>2. l[(i - 1) + 1] = r[(i - 1) + 1]
      BY <3>1, <1>2, <1>3
    <3> QED BY <3>1, <3>2
  <2> QED BY <2>1, <2>2
<1>5. l = r
  BY <1>2, <1>3, <1>4, SeqEqual
<1> QED BY <1>5 DEF l, r

LEMMA ConsRemoveAt ==
    ASSUME NEW S, NEW p \in S, NEW q \in Seq(S), NEW i \in 1..Len(q)
    PROVE  <<p>> \o RemoveAt(q, i) = RemoveAt(<<p>> \o q, i + 1)
<1> DEFINE c == <<p>> \o q
           d == RemoveAt(q, i)
           l == <<p>> \o d
           r == RemoveAt(c, i + 1)
<1>1. /\ c \in Seq(S) /\ Len(c) = Len(q) + 1 /\ c[1] = p
      /\ \A k \in 1..Len(q) : c[k + 1] = q[k]
  BY ConsElement
<1>2. /\ d \in Seq(S) /\ Len(d) = Len(q) - 1
      /\ \A k \in 1..(Len(q) - 1) : d[k] = IF k < i THEN q[k] ELSE q[k + 1]
  BY RemoveAtType, RemoveAtElement
<1> HIDE DEF c, d
<1>3. /\ l \in Seq(S) /\ Len(l) = Len(d) + 1 /\ l[1] = p
      /\ \A k \in 1..Len(d) : l[k + 1] = d[k]
  BY <1>2, ConsElement
<1>4. i + 1 \in 1..Len(c)
  BY <1>1
<1>5. /\ r \in Seq(S) /\ Len(r) = Len(c) - 1
      /\ \A k \in 1..(Len(c) - 1) :
             r[k] = IF k < i + 1 THEN c[k] ELSE c[k + 1]
  BY <1>1, <1>4, RemoveAtType, RemoveAtElement
<1> HIDE DEF l, r
<1>6. \A k \in 1..Len(l) : l[k] = r[k]
  <2> TAKE k \in 1..Len(l)
  <2>1. CASE k = 1
    <3>1. 1 \in 1..(Len(c) - 1) /\ 1 < i + 1
      BY <1>1
    <3>2. r[1] = c[1]
      BY <3>1, <1>5
    <3> QED BY <2>1, <3>2, <1>1, <1>3
  <2>2. CASE k # 1
    <3> DEFINE j == k - 1
    <3>1. /\ j \in 1..(Len(q) - 1) /\ j \in 1..Len(d) /\ j + 1 = k
          /\ k \in 1..(Len(c) - 1) /\ k \in 1..Len(q)
      BY <2>2, <1>1, <1>2, <1>3
    <3> HIDE DEF j
    <3>2. l[j + 1] = IF j < i THEN q[j] ELSE q[j + 1]
      BY <3>1, <1>2, <1>3
    <3>3. c[j + 1] = q[j] /\ c[k + 1] = q[k]
      BY <3>1, <1>1
    <3>4. j < i <=> k < i + 1
      BY <3>1
    <3>5. r[k] = IF j < i THEN c[k] ELSE c[k + 1]
      BY <3>1, <3>4, <1>5
    <3>6. l[k] = IF j < i THEN q[j] ELSE q[k]
      BY <3>1, <3>2
    <3>7. c[k] = q[j]
      BY <3>1, <3>3
    <3> QED BY <3>3, <3>5, <3>6, <3>7
  <2> QED BY <2>1, <2>2
<1>7. l = r
  BY <1>1, <1>2, <1>3, <1>5, <1>6, SeqEqual
<1> QED BY <1>7 DEF l, r, c, d

LEMMA ConsRemoveFirst ==
    ASSUME NEW S, NEW p \in S, NEW q \in Seq(S)
    PROVE  RemoveAt(<<p>> \o q, 1) = q
<1> DEFINE c == <<p>> \o q
           r == RemoveAt(c, 1)
<1>1. /\ c \in Seq(S) /\ Len(c) = Len(q) + 1
      /\ \A k \in 1..Len(q) : c[k + 1] = q[k]
  BY ConsElement
<1> HIDE DEF c
<1>2. 1 \in 1..Len(c)
  BY <1>1
<1>3. /\ r \in Seq(S) /\ Len(r) = Len(c) - 1
      /\ \A k \in 1..(Len(c) - 1) : r[k] = IF k < 1 THEN c[k] ELSE c[k + 1]
  BY <1>1, <1>2, RemoveAtType, RemoveAtElement
<1> HIDE DEF r
<1>4. r = q
  BY <1>1, <1>3, SeqEqual
<1> QED BY <1>4 DEF r, c

LEMMA HeadConsTail ==
    ASSUME NEW S, NEW q \in Seq(S), q # << >>
    PROVE  <<Head(q)>> \o Tail(q) = q
<1>1. /\ Head(q) \in S /\ Tail(q) \in Seq(S) /\ Len(Tail(q)) = Len(q) - 1
      /\ \A k \in 1..Len(Tail(q)) : Tail(q)[k] = q[k + 1]
      /\ Head(q) = q[1]
  BY HeadTailProperties
<1> DEFINE t == Tail(q)
           l == <<Head(q)>> \o t
<1> HIDE DEF t
<1>2. /\ l \in Seq(S) /\ Len(l) = Len(t) + 1 /\ l[1] = Head(q)
      /\ \A k \in 1..Len(t) : l[k + 1] = t[k]
  BY <1>1, ConsElement DEF t
<1> HIDE DEF l
<1>3. \A k \in 1..Len(l) : l[k] = q[k]
  <2> TAKE k \in 1..Len(l)
  <2>1. CASE k = 1
    BY <2>1, <1>1, <1>2
  <2>2. CASE k # 1
    <3>1. k - 1 \in 1..Len(t)
      BY <2>2, <1>1, <1>2 DEF t
    <3> QED BY <3>1, <1>1, <1>2 DEF t
  <2> QED BY <2>1, <2>2
<1>4. l = q
  BY <1>1, <1>2, <1>3, SeqEqual DEF t
<1> QED BY <1>4 DEF l, t

-----------------------------------------------------------------------------
(* Every waiter stands in the queue once.                                  *)

Unique ==
    /\ \A i \in 1..Len(queue) : pc[queue[i]] = "queued"
    /\ \A i, j \in 1..Len(queue) : queue[i] = queue[j] => i = j

\* The steps that leave the line as it is.
Aside(u) ==
    \/ TurnedAway(u) \/ TakeTurn(u) \/ LockPending(u) \/ Lock(u)
    \/ CancelLock(u) \/ OpenGuard(u) \/ SetConfigPending(u)
    \/ CancelSetConfig(u) \/ LockForInvalidate(u) \/ Invalidate(u)
    \/ Unlock(u) \/ Enter(u) \/ ApplyLive(u) \/ StoreConfig(u)
    \/ SetDeviceConfig(u)

Chips(u) ==
    StartTransfer(u) \/ StartCommand(u) \/ EndTransfer(u) \/ DropGuard(u)

LEMMA AsideStep ==
    ASSUME TypeInv, NEW u \in Users, Aside(u)
    PROVE  /\ queue' = queue /\ permit' = permit /\ cs' = cs
           /\ \A v \in Fair : pc[v] = "queued" => pc'[v] = "queued"
<1> USE Kinds DEF TypeInv, TypeOK
<1> QED
  BY DEF Aside, TurnedAway, TakeTurn, LockPending, Lock, CancelLock, OpenGuard,
         LockForInvalidate, Invalidate, Unlock, Enter, ApplyLive, StoreConfig,
         SetDeviceConfig, SetConfigPending, CancelSetConfig, busVars, hwVars,
         Goto, At

LEMMA ChipsStep ==
    ASSUME TypeInv, NEW u \in Users, Chips(u)
    PROVE  /\ queue' = queue /\ permit' = permit
           /\ \A v \in Fair : pc[v] = "queued" => pc'[v] = "queued"
<1> USE Kinds DEF TypeInv, TypeOK
<1> QED
  BY DEF Chips, StartTransfer, StartCommand, EndTransfer, DropGuard, Select,
         busVars, hwVars, Goto, At

LEMMA UniqueStep ==
    ASSUME TypeInv, Unique, NEW u \in Users,
           Advance(u) \/ TakeMutex(u) \/ Choose(u)
    PROVE  Unique'
<1> USE Kinds DEF Unique, TypeInv, TypeOK, At, Goto
<1>1. CASE Aside(u)
  <2>1. \A i \in 1..Len(queue) : queue[i] \in Fair
    OBVIOUS
  <2> QED BY <2>1, <1>1, AsideStep
<1>2. CASE Chips(u)
  <2>1. \A i \in 1..Len(queue) : queue[i] \in Fair
    OBVIOUS
  <2> QED BY <2>1, <1>2, ChipsStep
<1>3. CASE AcquireNow(u)
  BY <1>3 DEF AcquireNow, PermitFree
<1>4. CASE Enqueue(u)
  <2>1. queue \in Seq(Fair) /\ u \in Fair /\ queue' = Append(queue, u)
    BY <1>4 DEF Enqueue, KindOfState
  <2>2. /\ Len(queue') = Len(queue) + 1
        /\ queue'[Len(queue) + 1] = u
        /\ \A k \in 1..Len(queue) : queue'[k] = queue[k] /\ queue[k] \in Fair
    BY <2>1
  <2>3. \A k \in 1..Len(queue) : queue[k] # u
    BY <1>4 DEF Enqueue
  <2>4. pc'[u] = "queued" /\ \A v \in Fair : v # u => pc'[v] = pc[v]
    BY <1>4 DEF Enqueue
  <2>5. \A i \in 1..Len(queue') : i \in 1..Len(queue) \/ i = Len(queue) + 1
    BY <2>2
  <2>6. \A i \in 1..Len(queue') : pc'[queue'[i]] = "queued"
    BY <2>2, <2>3, <2>4, <2>5
  <2>7. \A i, j \in 1..Len(queue') : queue'[i] = queue'[j] => i = j
    BY <2>2, <2>3, <2>5
  <2> QED BY <2>6, <2>7
<1>5. CASE Grant(u)
  <2>1. /\ Len(queue') = Len(queue) - 1
        /\ \A k \in 1..(Len(queue) - 1) : queue'[k] = queue[k + 1]
        /\ queue[1] = u /\ Len(queue) > 0
        /\ \A k \in 1..Len(queue) : queue[k] \in Fair
    BY <1>5 DEF Grant
  <2>2. \A v \in Fair : v # u => pc'[v] = pc[v]
    BY <1>5 DEF Grant
  <2>3. \A k \in 1..(Len(queue) - 1) : k + 1 \in 1..Len(queue) /\ queue[k + 1] # u
    BY <2>1
  <2>4. ASSUME NEW i \in 1..Len(queue') PROVE pc'[queue'[i]] = "queued"
    <3>1. i + 1 \in 1..Len(queue) /\ queue'[i] = queue[i + 1]
      BY <2>1, <2>3
    <3>2. queue[i + 1] \in Fair /\ queue[i + 1] # u
      BY <2>1, <2>3, <3>1
    <3> QED BY <2>2, <3>1, <3>2
  <2>5. ASSUME NEW i \in 1..Len(queue'), NEW j \in 1..Len(queue'),
               queue'[i] = queue'[j]
        PROVE  i = j
    <3>1. queue[i + 1] = queue[j + 1]
      BY <2>1, <2>5
    <3>2. i + 1 = j + 1
      BY <2>1, <2>3, <3>1
    <3> QED BY <3>2, <2>1
  <2> QED BY <2>4, <2>5
<1>6. CASE Release(u)
  BY <1>6 DEF Release
<1>7. CASE CancelQueued(u)
  <2>1. PICK i \in 1..Len(queue) : queue[i] = u /\ queue' = RemoveAt(queue, i)
    BY <1>7 DEF CancelQueued
  <2>2. queue \in Seq(Fair) /\ \A k \in 1..Len(queue) : queue[k] \in Fair
    OBVIOUS
  <2>3. /\ Len(queue') = Len(queue) - 1
        /\ \A k \in 1..(Len(queue) - 1) :
               queue'[k] = IF k < i THEN queue[k] ELSE queue[k + 1]
    BY ONLY <2>1, <2>2, RemoveAtElement
  <2>4. \A v \in Fair : v # u => pc'[v] = pc[v]
    BY <1>7 DEF CancelQueued
  <2>5. \A k \in 1..Len(queue) : k # i => queue[k] # u
    BY <2>1
  <2>6. ASSUME NEW k \in 1..Len(queue') PROVE pc'[queue'[k]] = "queued"
    <3>1. CASE k < i
      BY <2>2, <2>3, <2>4, <2>5, <2>6, <3>1
    <3>2. CASE k >= i
      <4>1. k + 1 \in 1..Len(queue) /\ k + 1 # i
        BY <2>3, <2>6, <3>2
      <4> QED BY <2>2, <2>3, <2>4, <2>5, <4>1, <3>2
    <3> QED BY <3>1, <3>2
  <2>7. ASSUME NEW k \in 1..Len(queue'), NEW l \in 1..Len(queue'),
               queue'[k] = queue'[l]
        PROVE  k = l
    <3>1. /\ k \in 1..(Len(queue) - 1) /\ l \in 1..(Len(queue) - 1)
          /\ k \in 1..Len(queue) /\ k + 1 \in 1..Len(queue)
          /\ l \in 1..Len(queue) /\ l + 1 \in 1..Len(queue)
      BY <2>3
    <3>2. CASE k < i /\ l < i
      BY <2>3, <2>7, <3>1, <3>2
    <3>3. CASE k < i /\ l >= i
      BY <2>3, <2>7, <3>1, <3>3
    <3>4. CASE k >= i /\ l < i
      BY <2>3, <2>7, <3>1, <3>4
    <3>5. CASE k >= i /\ l >= i
      BY <2>3, <2>7, <3>1, <3>5
    <3> QED BY <3>2, <3>3, <3>4, <3>5
  <2> QED BY <2>6, <2>7
<1> QED
  BY <1>1, <1>2, <1>3, <1>4, <1>5, <1>6, <1>7
  DEF Advance, TakeMutex, Choose, Aside, Chips

-----------------------------------------------------------------------------
(* Every step joins the line, leaves it, selects, deselects or stutters.   *)

LineStep == [Turns!Next]_<<Line, Selected>>

LEMMA StepsAside ==
    ASSUME TypeInv, NEW u \in Users, Aside(u)
    PROVE  LineStep
BY AsideStep DEF LineStep, Line, Selected

LEMMA Chosen ==
    ASSUME Raw = {}, TypeInv, TurnInv, NEW u \in Users, cs[u] = "low"
    PROVE  permit = u /\ pc[u] \in {"transfer", "command"}
BY Kinds DEF TypeInv, TypeOK, TurnInv, HoldsPermit, ChipSelected, TurnStates,
             BusStates

LEMMA StepsChips ==
    ASSUME Raw = {}, TypeInv, TurnInv, NEW u \in Users, Chips(u)
    PROVE  LineStep
<1> USE DEF TypeInv, TypeOK, At, Goto
<1>1. queue' = queue /\ permit' = permit /\ Line' = Line
  BY ChipsStep DEF Line
<1>2. permit = u /\ u \in Fair /\ u # NoUser
  BY Kinds DEF Chips, StartTransfer, StartCommand, EndTransfer, DropGuard,
               TurnInv, HoldsPermit, TurnStates, BusStates
<1>3. Line # << >> /\ Head(Line) = u
  <2>1. Line = <<u>> \o queue /\ queue \in Seq(Fair)
    BY <1>2 DEF Line
  <2>2. Line \in Seq(Fair) /\ Len(Line) = Len(queue) + 1 /\ Line[1] = u
    BY <1>2, <2>1, ConsElement
  <2> QED BY <2>2
<1>4. CASE StartTransfer(u) \/ StartCommand(u)
  <2>1. pc[u] \in {"locked", "guard"}
    BY <1>4 DEF StartTransfer, StartCommand
  <2>2. Selected = {}
    BY <2>1, <1>2, Chosen DEF Selected
  <2>3. cs' = cs \/ cs' = [cs EXCEPT ![u] = "high"] \/ cs' = [cs EXCEPT ![u] = "low"]
    BY <1>4 DEF StartTransfer, StartCommand, Select, hwVars
  <2>4. Selected' = {} \/ Selected' = {u}
    BY <2>2, <2>3 DEF Selected
  <2>5. CASE Selected' = {}
    BY <2>2, <2>5, <1>1 DEF LineStep
  <2>6. CASE Selected' = {u}
    <3>1. Turns!Select
      BY <2>2, <2>6, <1>1, <1>3 DEF Turns!Select
    <3> QED BY <3>1 DEF LineStep, Turns!Next
  <2> QED BY <2>4, <2>5, <2>6
<1>5. CASE EndTransfer(u) \/ DropGuard(u)
  <2>1. cs' = [cs EXCEPT ![u] = "high"]
    BY <1>5 DEF EndTransfer, DropGuard
  <2>2. Selected \subseteq {u}
    BY <1>2, Chosen DEF Selected
  <2>3. Selected' = {}
    BY <2>1, <2>2 DEF Selected
  <2>4. CASE Selected = {}
    BY <2>3, <2>4, <1>1 DEF LineStep
  <2>5. CASE Selected # {}
    <3>1. Turns!Deselect
      BY <2>3, <2>5, <1>1 DEF Turns!Deselect
    <3> QED BY <3>1 DEF LineStep, Turns!Next
  <2> QED BY <2>4, <2>5
<1> QED BY <1>4, <1>5 DEF Chips

LEMMA StepsJoin ==
    ASSUME TypeInv, TurnInv, Unique, NEW u \in Users,
           AcquireNow(u) \/ Enqueue(u)
    PROVE  LineStep
<1> USE DEF TypeInv, TypeOK, At, Goto, busVars, hwVars
<1>1. u \in Fair /\ Selected' = Selected
  BY DEF AcquireNow, Enqueue, KindOfState, Selected
<1>2. Turns!Join(u)
  <2>1. CASE AcquireNow(u)
    <3>1. Line = << >> /\ Line' = <<u>> \o << >>
      BY <2>1, <1>1, Kinds DEF AcquireNow, PermitFree, Line
    <3>2. Line' = Append(Line, u)
      BY <3>1
    <3> QED BY <1>1, <3>1, <3>2 DEF Turns!Join, Turns!Contains
  <2>2. CASE Enqueue(u)
    <3>1. queue' = Append(queue, u) /\ permit' = permit /\ pc[u] = "enter"
      BY <2>2 DEF Enqueue
    <3>2. permit # u
      BY <1>1, <3>1 DEF TurnInv, HoldsPermit, TurnStates, BusStates
    <3>3. \A k \in 1..Len(queue) : queue[k] # u
      BY <3>1 DEF Unique
    <3>4. CASE permit = NoUser
      <4>1. Line = queue /\ Line' = Append(Line, u)
        BY <3>1, <3>4 DEF Line
      <4> QED BY <1>1, <3>3, <4>1 DEF Turns!Join, Turns!Contains
    <3>5. CASE permit # NoUser
      <4>1. permit \in Fair /\ queue \in Seq(Fair)
        BY <3>5
      <4>2. Line = <<permit>> \o queue /\ Line' = <<permit>> \o Append(queue, u)
        BY <3>1, <3>5 DEF Line
      <4>3. Line' = Append(Line, u)
        BY <4>1, <4>2, <1>1, ConsAppend
      <4>4. /\ Len(Line) = Len(queue) + 1 /\ Line[1] = permit
            /\ \A k \in 1..Len(queue) : Line[k + 1] = queue[k]
        BY <4>1, <4>2, ConsElement
      <4>5. ASSUME NEW i \in 1..Len(Line), Line[i] = u PROVE FALSE
        <5>1. i # 1
          BY <3>2, <4>4, <4>5
        <5>2. i - 1 \in 1..Len(queue) /\ (i - 1) + 1 = i
          BY <4>1, <4>4, <5>1
        <5>3. queue[i - 1] = u
          BY <4>4, <4>5, <5>2
        <5> QED BY <3>3, <5>2, <5>3
      <4> QED BY <1>1, <4>3, <4>5 DEF Turns!Join, Turns!Contains
    <3> QED BY <3>4, <3>5
  <2> QED BY <2>1, <2>2
<1> QED BY <1>1, <1>2 DEF LineStep, Turns!Next

LEMMA StepsGrant ==
    ASSUME TypeInv, NEW u \in Users, Grant(u)
    PROVE  LineStep
<1> USE DEF TypeInv, TypeOK
<1>1. u \in Fair /\ u # NoUser /\ Selected' = Selected
  BY Kinds DEF Grant, KindOfState, Selected, At, hwVars
<1>2. /\ Line = queue /\ queue \in Seq(Fair) /\ queue # << >>
      /\ Line' = <<Head(queue)>> \o Tail(queue)
  BY <1>1 DEF Grant, Line
<1>3. Line' = Line
  BY <1>2, HeadConsTail
<1> QED BY <1>1, <1>3 DEF LineStep

LEMMA StepsLeave ==
    ASSUME Raw = {}, TypeInv, TurnInv, NEW u \in Users,
           Release(u) \/ CancelQueued(u)
    PROVE  LineStep
<1> USE DEF TypeInv, TypeOK, At, Goto, busVars, hwVars
<1>1. Selected' = Selected /\ u \notin Selected /\ u \in Fair /\ queue \in Seq(Fair)
  BY DEF Release, CancelQueued, KindOfState, Selected, TurnInv, ChipSelected
<1>2. \E i \in 1..Len(Line) : Turns!Leave(i)
  <2>1. CASE Release(u)
    <3>1. permit = u /\ u # NoUser /\ permit' = NoUser /\ queue' = queue
      BY <2>1, <1>1, Kinds DEF Release, TurnInv, HoldsPermit, TurnStates
    <3>2. Line = <<u>> \o queue /\ Line' = queue
      BY <3>1 DEF Line
    <3>3. Line' = RemoveAt(Line, 1)
      BY <3>2, <1>1, ConsRemoveFirst
    <3>4. 1 \in 1..Len(Line) /\ Line[1] = u
      BY <3>2, <1>1, ConsElement
    <3>5. Turns!Leave(1)
      BY <3>3, <3>4, <1>1 DEF Turns!Leave, Turns!RemoveAt, RemoveAt
    <3> QED BY <3>4, <3>5
  <2>2. CASE CancelQueued(u)
    <3>1. PICK i \in 1..Len(queue) : queue[i] = u /\ queue' = RemoveAt(queue, i)
      BY <2>2 DEF CancelQueued
    <3>2. permit' = permit
      BY <2>2 DEF CancelQueued
    <3>3. CASE permit = NoUser
      <4>1. Line = queue /\ Line' = RemoveAt(Line, i)
        BY <3>1, <3>2, <3>3 DEF Line
      <4>2. Turns!Leave(i)
        BY <4>1, <3>1, <1>1 DEF Turns!Leave, Turns!RemoveAt, RemoveAt
      <4> QED BY <4>1, <4>2
    <3>4. CASE permit # NoUser
      <4>1. permit \in Fair
        BY <3>4
      <4>2. Line = <<permit>> \o queue /\ Line' = <<permit>> \o RemoveAt(queue, i)
        BY <3>1, <3>2, <3>4 DEF Line
      <4>3. Line' = RemoveAt(Line, i + 1)
        <5>1. queue \in Seq(Fair)
          BY <1>1
        <5> QED BY ONLY <4>1, <4>2, <5>1, <3>1, ConsRemoveAt
      <4>4. i + 1 \in 1..Len(Line) /\ Line[i + 1] = u
        BY <4>1, <4>2, <3>1, <1>1, ConsElement
      <4>5. Turns!Leave(i + 1)
        BY <4>3, <4>4, <1>1 DEF Turns!Leave, Turns!RemoveAt, RemoveAt
      <4> QED BY <4>4, <4>5
    <3> QED BY <3>3, <3>4
  <2> QED BY <2>1, <2>2
<1> QED BY <1>1, <1>2 DEF LineStep, Turns!Next

LEMMA StepsInLine ==
    ASSUME Raw = {}, TypeInv, TurnInv, Unique, [Next]_vars
    PROVE  LineStep
<1>1. CASE UNCHANGED vars
  BY <1>1 DEF vars, busVars, hwVars, LineStep, Line, Selected
<1>2. CASE Next
  <2>1. PICK u \in Users : Advance(u) \/ TakeMutex(u) \/ Choose(u)
    BY <1>2 DEF Next
  <2> QED
    BY <2>1, StepsAside, StepsChips, StepsJoin, StepsGrant, StepsLeave
    DEF Advance, TakeMutex, Choose, Aside, Chips
<1> QED BY <1>1, <1>2

\* Permit queue, mutex and chip-selects together are a line of turns: users line
\* up as they ask, give up or finish, and only the head selects its chip.
THEOREM ImplementsTurns ==
    Raw = {} => (Spec => Turns!Init /\ [][Turns!Next]_Turns!vars)
<1> SUFFICES ASSUME Raw = {}
             PROVE  Spec => Turns!Init /\ [][Turns!Next]_Turns!vars
  OBVIOUS
<1>1. Init => Turns!Init /\ Unique
  BY DEF Init, Turns!Init, Line, Selected, Unique
<1>2. Unique /\ UNCHANGED vars => Unique'
  BY DEF vars, busVars, Unique
<1>3. TypeInv /\ TurnInv /\ Unique /\ [Next]_vars => Unique'
  BY <1>2, UniqueStep DEF Next
<1>4. TypeInv /\ TurnInv /\ Unique /\ [Next]_vars => [Turns!Next]_Turns!vars
  BY StepsInLine DEF LineStep, Turns!vars
<1> QED
  BY <1>1, <1>3, <1>4, TurnsHeld, PTL DEF Spec
-----------------------------------------------------------------------------
(* The whole invariant: where each user stands, and where it stands in the *)
(* permit, the queue, the mutex and the chip-selects, are two accounts of  *)
(* the same thing.                                                         *)

QueueInv == InQueue /\ Unique

\* Whoever waits for the permit is in the queue, once, and nobody else is;
\* whoever was granted it and has not given it back holds it, and nobody else;
\* the same for the mutex; and a selected chip's user is at its transfer.
THEOREM TurnSafety == Spec => [](TypeInv /\ TurnInv /\ QueueInv)
<1>1. Init => QueueInv
  BY DEF Init, QueueInv, InQueue, Unique, Fair, Users
<1>2. QueueInv /\ UNCHANGED vars => QueueInv'
  BY DEF vars, busVars, QueueInv, InQueue, Unique
<1>3. TypeInv /\ QueueInv /\ [Next]_vars => QueueInv'
  BY <1>2, QueueStep, UniqueStep DEF Next, QueueInv
<1> QED
  BY <1>1, <1>3, TypeInvariant, TurnsHeld, PTL DEF Spec
=============================================================================
