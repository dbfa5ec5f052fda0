----------------------------- MODULE WifiProofs -----------------------------
(***************************************************************************)
(* Type correctness and the ownership of replies, for any number of        *)
(* callers and requests.                                                   *)
(***************************************************************************)
EXTENDS WifiControl, TLAPS

\* CTRL_LOCK is held exactly while its holder waits for a reply.
LockInv == \A c \in Callers : pc[c] = "reply" <=> holder = c

ReplyInv == TypeOK /\ LockInv /\ OwnReply

\* Where no caller holds the lock and none gave up, both signals are empty and
\* the actor has no command.
LEMMA Quiet ==
    ASSUME ReplyInv, ~abandoned, holder = None
    PROVE  cmd = None /\ job = None /\ resp = None
BY WifiAssumption DEF WifiAssumption, ReplyInv, TypeOK, OwnReply, Outstanding, Requests

LEMMA TypeInit == Init => ReplyInv
<1> SUFFICES ASSUME Init PROVE ReplyInv
  OBVIOUS
<1>1. TypeOK
  <2>1. pc \in [Callers -> {"idle", "lock", "reply"}] /\ want \in [Callers -> Kinds]
    BY DEF Init, Kinds
  <2>2. left \in 0..MaxRequests
    BY WifiAssumption DEF WifiAssumption, Init
  <2>3. desired \in BOOLEAN /\ panicked \in BOOLEAN /\ abandoned \in BOOLEAN
    BY DEF Init
  <2> QED BY <2>1, <2>2, <2>3 DEF Init, TypeOK
<1>2. LockInv
  BY WifiAssumption DEF WifiAssumption, Init, LockInv
<1>3. OwnReply
  BY DEF Init, OwnReply, Outstanding
<1> QED BY <1>1, <1>2, <1>3 DEF ReplyInv

LEMMA CallerStep ==
    ASSUME ReplyInv, NEW c \in Callers, Caller(c)
    PROVE  ReplyInv'
<1> USE WifiAssumption DEF WifiAssumption, ReplyInv, TypeOK, callerVars, actorVars, Kinds, Requests
<1>1. CASE Call(c)
  <2>1. TypeOK'
    BY <1>1 DEF Call
  <2>2. LockInv'
    BY <1>1 DEF Call, LockInv
  <2>3. OwnReply'
    BY <1>1 DEF Call, LockInv, OwnReply, Outstanding
  <2> QED BY <2>1, <2>2, <2>3
<1>2. CASE Send(c)
  <2>1. TypeOK'
    BY <1>2 DEF Send
  <2>2. LockInv'
    BY <1>2 DEF Send, LockInv
  <2>3. ~abandoned => cmd = None /\ job = None /\ resp = None
    BY <1>2, Quiet DEF Send
  <2>4. OwnReply'
    BY <1>2, <2>3 DEF Send, OwnReply, Outstanding
  <2> QED BY <2>1, <2>2, <2>4
<1>3. CASE Receive(c)
  <2>1. TypeOK'
    BY <1>3 DEF Receive
  <2>2. LockInv'
    BY <1>3 DEF Receive, LockInv
  <2>3. ~abandoned => cmd = None /\ job = None
    BY <1>3 DEF Receive, OwnReply
  <2>4. OwnReply'
    BY <1>3, <2>3 DEF Receive, OwnReply, Outstanding
  <2> QED BY <2>1, <2>2, <2>4
<1>4. CASE ReceiveOther(c)
  <2>1. TypeOK'
    BY <1>4 DEF ReceiveOther
  <2>2. LockInv'
    BY <1>4 DEF ReceiveOther, LockInv
  <2>3. OwnReply'
    BY <1>4 DEF ReceiveOther, OwnReply, Outstanding
  <2> QED BY <2>1, <2>2, <2>3
<1>5. CASE Quit(c)
  <2>1. TypeOK'
    BY <1>5 DEF Quit
  <2>2. LockInv'
    BY <1>5 DEF Quit, LockInv
  <2>3. CASE pc[c] = "reply"
    BY <1>5, <2>1, <2>2, <2>3 DEF Quit, OwnReply
  <2>4. CASE pc[c] = "lock"
    <3>1. holder # c /\ holder' = holder /\ abandoned' = abandoned
      BY <1>5, <2>4 DEF Quit, LockInv
    <3>2. holder # None => pc'[holder] = pc[holder]
      BY <1>5, <3>1 DEF Quit
    <3>3. OwnReply'
      BY <1>5, <3>1, <3>2 DEF Quit, OwnReply, Outstanding
    <3> QED BY <2>1, <2>2, <3>3
  <2> QED BY <1>5, <2>3, <2>4 DEF Quit
<1> QED BY <1>1, <1>2, <1>3, <1>4, <1>5 DEF Caller

LEMMA ActorStep ==
    ASSUME ReplyInv, Actor
    PROVE  ReplyInv'
<1> USE DEF ReplyInv, callerVars, actorVars
<1>1. LockInv'
  BY DEF Actor, Choose, Connected, ConnectFailed, BackoffOver, LinkGone,
         TakeCommand, Reply, LockInv
<1>2. CASE Choose
  BY <1>1, <1>2 DEF Choose, TypeOK, OwnReply, Outstanding
<1>3. CASE Connected
  BY <1>1, <1>3 DEF Connected, TypeOK, OwnReply, Outstanding
<1>4. CASE ConnectFailed
  BY <1>1, <1>4 DEF ConnectFailed, TypeOK, OwnReply, Outstanding
<1>5. CASE BackoffOver
  BY <1>1, <1>5 DEF BackoffOver, TypeOK, OwnReply, Outstanding
<1>6. CASE LinkGone
  BY <1>1, <1>6 DEF LinkGone, TypeOK, OwnReply, Outstanding
<1>7. CASE TakeCommand
  <2>1. job = None
    BY <1>7 DEF TakeCommand, TypeOK
  <2>2. TypeOK'
    BY <1>7, WifiAssumption
       DEF WifiAssumption, TakeCommand, Handle, TypeOK, Requests, Kinds
  <2>3. OwnReply'
    BY <1>7, <2>1 DEF TakeCommand, Handle, OwnReply, Outstanding
  <2> QED BY <1>1, <2>2, <2>3
<1>8. CASE Reply
  <2>1. TypeOK'
    BY <1>8 DEF Reply, TypeOK
  <2>2. OwnReply'
    BY <1>8 DEF Reply, TypeOK, OwnReply, Outstanding
  <2> QED BY <1>1, <2>1, <2>2
<1> QED BY <1>2, <1>3, <1>4, <1>5, <1>6, <1>7, <1>8 DEF Actor

LEMMA LinkStep ==
    ASSUME ReplyInv, JoinEnds \/ LinkLost \/ UNCHANGED vars
    PROVE  ReplyInv'
BY DEF ReplyInv, JoinEnds, LinkLost, vars, callerVars, actorVars, TypeOK,
       LockInv, OwnReply, Outstanding

THEOREM ReplyInvariant == Spec => []ReplyInv
<1>1. Init => ReplyInv
  BY TypeInit
<1>2. ReplyInv /\ [Next]_vars => ReplyInv'
  BY CallerStep, ActorStep, LinkStep DEF Next
<1> QED BY <1>1, <1>2, PTL DEF Spec

\* The station's state has the type its code gives it.
THEOREM WifiTypes == Spec => []TypeOK
<1>1. ReplyInv => TypeOK
  BY DEF ReplyInv
<1> QED BY <1>1, ReplyInvariant, PTL

\* CTRL_LOCK does what its comment says as long as no caller drops its future
\* at RESP.wait: every reply is read by the caller it answers.
THEOREM RepliesOwned == Spec => []OwnReply
<1>1. ReplyInv => OwnReply
  BY DEF ReplyInv
<1> QED BY <1>1, ReplyInvariant, PTL
=============================================================================
