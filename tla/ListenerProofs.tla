--------------------------- MODULE ListenerProofs ---------------------------
(***************************************************************************)
(* Theorems about Listener, for any number of bytes: nothing is lost, no   *)
(* wake-up is missed, and on a board whose bytes are all UTF-8 the         *)
(* listener implements Ears.                                               *)
(***************************************************************************)
EXTENDS Listener, SequenceTheorems, FiniteSetTheorems, TLAPS

\* What ties the caller, the drain thread and the port together.
LinkInv ==
    /\ source = "None" => stop /\ buf = <<>>
    /\ pc \in {"locked", "asleep"} => buf = <<>>
    /\ Len(buffer) <= Len(sent)

Inv == TypeOK /\ NothingLost /\ LinkInv

-----------------------------------------------------------------------------
(* Bytes: n of them taken from the front of t, the rest left.              *)

LEMMA Split ==
    ASSUME NEW S, NEW t \in Seq(S), NEW n \in 0 .. Len(t)
    PROVE  /\ SubSeq(t, 1, n) \in Seq(S) /\ SubSeq(t, n + 1, Len(t)) \in Seq(S)
           /\ SubSeq(t, 1, n) \o SubSeq(t, n + 1, Len(t)) = t
           /\ n > 0 => SubSeq(t, 1, n) # <<>>
<1>0. Len(t) \in Nat /\ \A i \in 1 .. Len(t) : t[i] \in S
  BY LenProperties
<1>1. SubSeq(t, 1, n) \in Seq(S) /\ Len(SubSeq(t, 1, n)) = n
  BY <1>0, SubSeqProperties
<1>2. SubSeq(t, n + 1, Len(t)) \in Seq(S)
  BY <1>0, SubSeqProperties
<1>3. SubSeq(t, 1, n) \o SubSeq(t, n + 1, Len(t)) = SubSeq(t, 1, Len(t))
  <2> DEFINE l == Len(t)
  <2>1. l \in Nat /\ 1 \in 1 .. l + 1 /\ n \in 1 - 1 .. l /\ l \in n .. l
    BY <1>0
  <2> HIDE DEF l
  <2>2. \A m \in 1 .. Len(t) + 1 : \A k \in m - 1 .. Len(t) : \A e \in k .. Len(t) :
           SubSeq(t, m, k) \o SubSeq(t, k + 1, e) = SubSeq(t, m, e)
    BY ConcatAdjacentSubSeq, Zenon
  <2>3. SubSeq(t, 1, n) \o SubSeq(t, n + 1, l) = SubSeq(t, 1, l)
    BY <2>1, <2>2, Zenon DEF l
  <2> QED BY <2>3 DEF l
<1>4. n > 0 => SubSeq(t, 1, n) # <<>>
  <2>1. n \in Nat
    BY <1>0
  <2>2. Len(<<>>) = 0
    OBVIOUS
  <2> QED BY <1>1, <2>1, <2>2
<1>5. SubSeq(t, 1, Len(t)) = t
  BY SubSeqFull
<1> QED BY <1>1, <1>2, <1>3, <1>4, <1>5, Zenon

\* What is found is not in front of where the search starts.
LEMMA FoundBehind ==
    ASSUME TypeOK, NEW at \in 1 .. Len(buffer),
           NEW end \in 1 .. (Len(buffer) + 1), Found(at, end)
    PROVE  /\ Start \in Nat /\ Start <= Len(buffer) /\ Start < end
           /\ LossyLen(Start + 1, end - 1) \in Nat
<1>1. Len(buffer) \in Nat /\ cursor \in Nat
  BY LenProperties DEF TypeOK
<1>2. Start \in Nat /\ Start <= Len(buffer) /\ Start < end
  BY <1>1 DEF Start, Found, IsFirst
<1> DEFINE G == {k \in (Start + 1) .. (end - 1) : buffer[k] = "garbled"}
<1>3. Cardinality(G) \in Nat
  <2>1. IsFiniteSet((Start + 1) .. (end - 1))
    BY <1>1, <1>2, FS_Interval
  <2>2. IsFiniteSet(G)
    BY <2>1, FS_Subset
  <2> QED BY <2>2, FS_CardinalityType
<1> QED BY <1>1, <1>2, <1>3 DEF LossyLen

-----------------------------------------------------------------------------
(* Types.                                                                  *)

\* The caller's own part of TypeOK.
CallerTypes ==
    /\ pc \in {"idle", "loop", "read", "locked", "asleep"}
    /\ mode \in Waits \cup {"quiesce", "none"}
    /\ over \in BOOLEAN /\ late \in BOOLEAN
    /\ outcome \in {"none", "Matched", "DeadlineExpired", "SourceFailed", "Quiet", "NotQuiet"}

LEMMA CallerOnly ==
    ASSUME TypeOK, CallerTypes', UNCHANGED <<source, earVars, drainVars, portVars>>
    PROVE  TypeOK'
BY DEF TypeOK, CallerTypes, earVars, drainVars, portVars

LEMMA CallerSteps ==
    ASSUME TypeOK,
           \/ DeadlineExpired \/ NoSource \/ CallRead \/ ReadFails \/ ReadSilent
           \/ ReadParks \/ Sleep \/ TimeUp \/ Late
           \/ \E method \in Waits \cup {"quiesce"} : Call(method)
    PROVE  TypeOK'
<1>1. CallerTypes
  BY DEF TypeOK, CallerTypes
<1>2. UNCHANGED <<source, earVars, drainVars, portVars>>
  BY DEF DeadlineExpired, NoSource, CallRead, ReadFails, ReadSilent, ReadParks, Sleep,
         TimeUp, Late, Call
<1>3. ASSUME DeadlineExpired \/ NoSource \/ ReadFails \/ ReadSilent
      PROVE  CallerTypes'
  BY <1>1, <1>3 DEF CallerTypes, DeadlineExpired, NoSource, ReadFails, ReadSilent,
                    Return, Failed
<1>4. ASSUME CallRead \/ ReadParks \/ Sleep \/ TimeUp \/ Late
      PROVE  CallerTypes'
  BY <1>1, <1>4 DEF CallerTypes, CallRead, ReadParks, Sleep, TimeUp, Late
<1>5. ASSUME NEW method \in Waits \cup {"quiesce"}, Call(method)
      PROVE  CallerTypes'
  BY <1>1, <1>5 DEF CallerTypes, Call
<1>6. CallerTypes'
  BY <1>3, <1>4, <1>5
<1> QED BY <1>2, <1>6, CallerOnly

LEMMA TypeCaller ==
    ASSUME TypeOK, Caller
    PROVE  TypeOK'
<1> USE DEF TypeOK, earVars, callerVars, drainVars, portVars, Waits, Return, Failed
<1>1. CASE Matched
  <2>1. PICK at \in 1 .. Len(buffer), end \in 1 .. (Len(buffer) + 1) :
            Found(at, end) /\ cursor' = cursor + LossyLen(Start + 1, end - 1)
    BY <1>1 DEF Matched
  <2>2. cursor' \in Nat
    BY <2>1, FoundBehind
  <2> QED BY <1>1, <2>2 DEF Matched
<1>2. CASE ReadTakes
  <2>1. buffer' \in Seq(Bytes) /\ Len(buffer') = Len(buffer) + Len(buf)
    BY <1>2, ConcatProperties DEF ReadTakes
  <2>2. Len(buffer) \in Nat /\ Len(buf) \in Nat
    BY LenProperties
  <2>3. floor' \in 0 .. Len(buffer')
    BY <1>2, <2>1, <2>2 DEF ReadTakes
  <2>4. /\ buf' \in Seq(Bytes) /\ chunk' = chunk /\ reader' = reader
        /\ UNCHANGED <<source, cursor, err, stop, tty, portUp, sent>>
    BY <1>2 DEF ReadTakes
  <2>5. /\ pc' \in {"idle", "loop"} /\ mode' \in {mode, "none"}
        /\ over' \in BOOLEAN /\ late' \in BOOLEAN
        /\ outcome' \in {outcome, "NotQuiet"}
    BY <1>2 DEF ReadTakes
  <2> QED BY <2>1, <2>3, <2>4, <2>5
<1> QED BY <1>1, <1>2, CallerSteps DEF Caller

LEMMA TypeDrain ==
    ASSUME TypeOK, Drain \/ PortError
    PROVE  TypeOK'
<1> USE DEF TypeOK, earVars, callerVars, drainVars, portVars, Notify
<1>1. CASE PortRead
  <2>1. PICK n \in 1 .. Len(tty) :
            chunk' = SubSeq(tty, 1, n) /\ tty' = SubSeq(tty, n + 1, Len(tty))
    BY <1>1 DEF PortRead
  <2>2. chunk' \in Seq(Bytes) /\ tty' \in Seq(Bytes) /\ chunk' # <<>>
    <3>1. tty \in Seq(Bytes) /\ n \in 0 .. Len(tty) /\ n > 0
      BY <2>1, LenProperties
    <3> HIDE DEF TypeOK
    <3> QED BY <2>1, <3>1, Split
  <2>3. /\ reader' = "store"
        /\ UNCHANGED <<source, earVars, callerVars, buf, err, stop, portUp, sent>>
    BY <1>1 DEF PortRead
  <2> QED BY <2>2, <2>3
<1>2. CASE Store
  <2>1. buf' \in Seq(Bytes)
    BY <1>2, ConcatProperties DEF Store
  <2>2. chunk' = <<>> /\ chunk' \in Seq(Bytes) /\ reader' \in {"read", "gone"}
    BY <1>2 DEF Store
  <2> QED BY <1>2, <2>1, <2>2 DEF Store
<1>3. CASE ReadTimesOut
  BY <1>3 DEF ReadTimesOut
<1>4. CASE PortError
  BY <1>4 DEF PortError
<1>5. CASE ReportError
  BY <1>5 DEF ReportError
<1> QED BY <1>1, <1>2, <1>3, <1>4, <1>5 DEF Drain

LEMMA TypeOthers ==
    ASSUME TypeOK, LinkInv,
           \/ Boundary \/ ReleasePort \/ Reopen
           \/ \E b \in Bytes : Send(b)
           \/ Unplug \/ Replug
    PROVE  TypeOK'
<1> USE DEF TypeOK, earVars, callerVars, drainVars, portVars, Waits
<1>0. /\ Len(buffer) \in Nat /\ Len(sent) \in Nat /\ MaxBytes \in Nat
      /\ Len(sent) <= MaxBytes
  BY LenProperties, BytesAssumption
<1>1. CASE Boundary
  BY <1>0, <1>1 DEF Boundary
<1>2. CASE ReleasePort
  BY <1>2 DEF ReleasePort
<1>3. CASE Reopen
  <2>1. Len(sent') <= MaxBytes
    BY <1>0, <1>3 DEF Reopen, LinkInv
  <2> QED BY <1>3, <2>1 DEF Reopen
<1>4. CASE \E b \in Bytes : Send(b)
  <2>1. PICK b \in Bytes : Send(b)
    BY <1>4
  <2>2. /\ tty' \in Seq(Bytes) /\ sent' \in Seq(Bytes)
        /\ Len(sent') <= MaxBytes
    BY <1>0, <2>1, AppendProperties DEF Send
  <2> QED BY <2>1, <2>2 DEF Send
<1>5. CASE Unplug \/ Replug
  <2>1. /\ portUp' \in BOOLEAN
        /\ UNCHANGED <<source, earVars, callerVars, drainVars, tty, sent>>
    BY <1>5 DEF Unplug, Replug
  <2> QED BY <2>1
<1> QED BY <1>1, <1>2, <1>3, <1>4, <1>5

LEMMA TypeStep ==
    ASSUME TypeOK, LinkInv, [Next]_vars
    PROVE  TypeOK'
<1>1. CASE UNCHANGED vars
  BY <1>1 DEF TypeOK, vars, earVars, callerVars, drainVars, portVars
<1> QED BY <1>1, TypeCaller, TypeDrain, TypeOthers, CallerSteps DEF Next

-----------------------------------------------------------------------------
(* The way of a byte.                                                      *)

LEMMA Assoc ==
    ASSUME NEW s \in Seq(Bytes), NEW t \in Seq(Bytes), NEW u \in Seq(Bytes)
    PROVE  (s \o t) \o u = s \o (t \o u)
BY ConcatAssociative

LEMMA WayStep ==
    ASSUME TypeOK, LinkInv, NothingLost, [Next]_vars
    PROVE  NothingLost'
<1> USE DEF NothingLost, earVars, callerVars, drainVars, portVars
<1>1. CASE UNCHANGED <<source, buffer, buf, chunk, tty, sent>>
  BY <1>1
<1>0. /\ buffer \in Seq(Bytes) /\ buf \in Seq(Bytes)
      /\ chunk \in Seq(Bytes) /\ tty \in Seq(Bytes)
      /\ buffer \o buf \in Seq(Bytes)
      /\ (buffer \o buf) \o chunk \in Seq(Bytes)
  BY ConcatProperties DEF TypeOK
<1>2. CASE ReadTakes
  <2>1. buffer' \o buf' = buffer \o buf
    BY <1>0, <1>2, ConcatEmptySeq DEF ReadTakes
  <2> QED BY <1>2, <2>1 DEF ReadTakes
<1>3. CASE PortRead
  <2>1. PICK n \in 1 .. Len(tty) :
            chunk' = SubSeq(tty, 1, n) /\ tty' = SubSeq(tty, n + 1, Len(tty))
    BY <1>3 DEF PortRead
  <2>2. chunk' \in Seq(Bytes) /\ tty' \in Seq(Bytes) /\ chunk' \o tty' = tty
    <3>1. n \in 0 .. Len(tty)
      BY <1>0, <2>1, LenProperties
    <3> QED BY <1>0, <2>1, <3>1, Split
  <2>3. (buffer \o buf) \o chunk = buffer \o buf
    BY <1>0, <1>3, ConcatEmptySeq DEF PortRead, TypeOK
  <2>4. ((buffer \o buf) \o chunk') \o tty' = (buffer \o buf) \o tty
    <3> DEFINE held == buffer \o buf
    <3>1. held \in Seq(Bytes)
      BY <1>0
    <3> HIDE DEF held
    <3>2. (held \o chunk') \o tty' = held \o (chunk' \o tty')
      BY <2>2, <3>1, Assoc, Zenon
    <3> QED BY <2>2, <3>2 DEF held
  <2> QED BY <1>3, <2>3, <2>4 DEF PortRead
<1>4. CASE Store
  <2>1. CASE source = "Some"
    <3>1. buffer \o (buf \o chunk) = (buffer \o buf) \o chunk
      <4>1. buffer \in Seq(Bytes) /\ buf \in Seq(Bytes) /\ chunk \in Seq(Bytes)
        BY <1>0
      <4> QED BY <4>1, Assoc
    <3>2. (buffer' \o buf') \o chunk' = (buffer \o buf) \o chunk
      BY <1>0, <1>4, <2>1, <3>1, ConcatEmptySeq DEF Store
    <3> QED BY <1>4, <3>2 DEF Store
  <2>2. CASE source # "Some"
    BY <1>4, <2>2 DEF Store
  <2> QED BY <2>1, <2>2
<1>5. CASE ReleasePort
  BY <1>5 DEF ReleasePort
<1>6. CASE Reopen
  <2>1. buf' = <<>> /\ chunk' = <<>> /\ tty' = <<>> /\ sent' = buffer' /\ buffer' = buffer
    BY <1>6 DEF Reopen, LinkInv, TypeOK
  <2> QED BY <1>0, <2>1, ConcatEmptySeq
<1>7. CASE \E b \in Bytes : Send(b)
  <2>1. PICK b \in Bytes : Send(b)
    BY <1>7
  <2> DEFINE held == (buffer \o buf) \o chunk
  <2>2. <<b>> \in Seq(Bytes)
    OBVIOUS
  <2>3. held \o (tty \o <<b>>) = (held \o tty) \o <<b>>
    <3>1. held \in Seq(Bytes) /\ tty \in Seq(Bytes)
      BY <1>0
    <3> HIDE DEF held
    <3> QED BY <2>2, <3>1, Assoc
  <2>4. tty' = tty \o <<b>>
    BY <1>0, <2>1, AppendIsConcat DEF Send
  <2>5. sent' = sent \o <<b>>
    BY <2>1, AppendIsConcat DEF Send, TypeOK
  <2> QED BY <2>1, <2>3, <2>4, <2>5 DEF Send
<1>8. \/ UNCHANGED <<source, buffer, buf, chunk, tty, sent>>
      \/ ReadTakes \/ PortRead \/ Store \/ ReleasePort \/ Reopen
      \/ \E b \in Bytes : Send(b)
  BY DEF Next, vars, Caller, Drain, Call, Matched, DeadlineExpired, NoSource, CallRead,
         ReadFails, ReadSilent, ReadParks, Sleep, TimeUp, Late, Boundary,
         ReadTimesOut, PortError, ReportError, Unplug, Replug, Return
<1> QED BY <1>1, <1>2, <1>3, <1>4, <1>5, <1>6, <1>7, <1>8

-----------------------------------------------------------------------------
(* The invariant.                                                          *)

LEMMA LinkStep ==
    ASSUME TypeOK, LinkInv, NothingLost, [Next]_vars
    PROVE  LinkInv'
<1> USE DEF LinkInv, earVars, callerVars, drainVars, portVars
<1>0. /\ Len(buffer) \in Nat /\ Len(sent) \in Nat
      /\ pc \in {"idle", "loop", "read", "locked", "asleep"}
      /\ source \in {"Some", "None"}
  BY LenProperties DEF TypeOK
<1>1. CASE UNCHANGED <<source, buffer, sent, buf, stop>> /\ pc' \notin {"locked", "asleep"}
  BY <1>1
<1>2. CASE UNCHANGED <<source, buffer, sent, buf, stop, pc>>
  BY <1>2
<1>3. CASE ReadParks \/ Sleep
  BY <1>0, <1>3 DEF ReadParks, Sleep
<1>4. CASE ReadTakes
  <2>1. source = "Some"
    BY <1>0, <1>4 DEF ReadTakes
  <2>2. /\ buffer \o buf \in Seq(Bytes) /\ chunk \in Seq(Bytes) /\ tty \in Seq(Bytes)
        /\ (buffer \o buf) \o chunk \in Seq(Bytes)
    BY ConcatProperties DEF TypeOK
  <2>3. /\ Len(((buffer \o buf) \o chunk) \o tty) =
               Len(buffer \o buf) + Len(chunk) + Len(tty)
        /\ Len(buffer \o buf) \in Nat /\ Len(chunk) \in Nat /\ Len(tty) \in Nat
    BY <2>2, ConcatProperties, LenProperties
  <2>4. sent = ((buffer \o buf) \o chunk) \o tty
    BY <2>1 DEF NothingLost
  <2>5. Len(buffer \o buf) <= Len(sent)
    BY <2>3, <2>4
  <2>6. /\ buffer' = buffer \o buf /\ sent' = sent /\ source' = source
        /\ pc' \in {"idle", "loop"}
    BY <1>4 DEF ReadTakes, Return
  <2> QED BY <2>1, <2>5, <2>6
<1>5. CASE Store
  BY <1>0, <1>5 DEF Store, Notify
<1>6. CASE ReportError
  BY <1>0, <1>6 DEF ReportError, Notify
<1>7. CASE ReleasePort
  BY <1>7 DEF ReleasePort
<1>8. CASE Reopen
  BY <1>0, <1>8 DEF Reopen
<1>9. CASE \E b \in Bytes : Send(b)
  <2>1. PICK b \in Bytes : Send(b)
    BY <1>9
  <2>2. Len(sent') = Len(sent) + 1
    BY <2>1, AppendProperties DEF Send, TypeOK
  <2> QED BY <1>0, <2>1, <2>2 DEF Send
<1>10. \/ UNCHANGED <<source, buffer, sent, buf, stop>> /\ pc' \notin {"locked", "asleep"}
       \/ UNCHANGED <<source, buffer, sent, buf, stop, pc>>
       \/ ReadParks \/ Sleep \/ ReadTakes \/ Store \/ ReportError
       \/ ReleasePort \/ Reopen \/ \E b \in Bytes : Send(b)
  BY DEF Next, vars, Caller, Drain, Call, Matched, DeadlineExpired, NoSource, CallRead,
         ReadFails, ReadSilent, TimeUp, Late, Boundary, PortRead,
         ReadTimesOut, PortError, Unplug, Replug, Return
<1> QED BY <1>1, <1>2, <1>3, <1>4, <1>5, <1>6, <1>7, <1>8, <1>9, <1>10

LEMMA InvInit == Init => Inv
<1> SUFFICES ASSUME Init PROVE Inv
  OBVIOUS
<1>1. <<>> \in Seq(Bytes) /\ Len(<<>>) = 0
  BY EmptySeq
<1>2. TypeOK
  <2>1. MaxBytes \in Nat
    BY BytesAssumption
  <2>2. /\ buffer = <<>> /\ buf = <<>> /\ chunk = <<>> /\ tty = <<>> /\ sent = <<>>
        /\ cursor = 0 /\ floor = 0
    BY DEF Init
  <2>3. /\ buffer \in Seq(Bytes) /\ cursor \in Nat /\ floor \in 0 .. Len(buffer)
        /\ Len(sent) <= MaxBytes
    BY <1>1, <2>1, <2>2
  <2>4. /\ buf \in Seq(Bytes) /\ chunk \in Seq(Bytes) /\ tty \in Seq(Bytes)
        /\ sent \in Seq(Bytes)
    BY <1>1, <2>2
  <2>5. chunk # <<>> <=> reader = "store"
    BY <2>2 DEF Init
  <2> QED BY <2>3, <2>4, <2>5 DEF Init, TypeOK, Waits
<1>3. NothingLost
  BY <1>1, ConcatEmptySeq DEF Init, NothingLost
<1>4. LinkInv
  BY <1>1 DEF Init, LinkInv
<1> QED BY <1>2, <1>3, <1>4 DEF Inv

LEMMA InvStep == Inv /\ [Next]_vars => Inv'
  BY TypeStep, WayStep, LinkStep DEF Inv

\* The inductive invariant: types, the way of each byte, and what the
\* caller's place and the port's state say about the bytes collected.
THEOREM ListenerInvariant == Spec => []Inv
  BY InvInit, InvStep, PTL DEF Spec

\* Listener and drain thread keep their types whatever the board sends.
THEOREM ListenerTypes == Spec => []TypeOK
<1>1. Inv => TypeOK
  BY DEF Inv
<1> QED BY <1>1, ListenerInvariant, PTL

\* Every byte a board sends while its port is held is heard, collected or
\* on its way, once and in order, for any number of bytes and reads.
THEOREM KeepsEveryByte == Spec => []NothingLost
<1>1. Inv => NothingLost
  BY DEF Inv
<1> QED BY <1>1, ListenerInvariant, PTL

\* The mutex closes the window between the look at buf and the wait.
THEOREM WakesForBytes == Spec => []NoLostWakeup
<1>1. Inv => NoLostWakeup
  BY DEF Inv, LinkInv, NoLostWakeup
<1> QED BY <1>1, ListenerInvariant, PTL

-----------------------------------------------------------------------------
(* The ears.                                                               *)

\* Without broken bytes the searched string is as long as the bytes.
LEMMA CleanLength ==
    ASSUME "garbled" \notin Bytes, buffer \in Seq(Bytes),
           NEW i \in Nat, NEW j \in Nat, 1 <= i, j <= Len(buffer)
    PROVE  LossyLen(i, j) = j + 1 - i
<1> DEFINE G == {k \in i .. j : buffer[k] = "garbled"}
<1>1. \A k \in i .. j : buffer[k] \in Bytes
  BY LenProperties
<1>2. G = {}
  BY <1>1
<1>3. Cardinality(G) = 0
  BY <1>2, FS_EmptySet
<1> HIDE DEF G
<1>4. LossyLen(i, j) = (j + 1 - i) + 2 * Cardinality(G)
  BY DEF LossyLen, G
<1> QED BY <1>3, <1>4

LEMMA Prefix ==
    ASSUME NEW S, NEW s \in Seq(S), NEW t \in Seq(S), t # <<>>
    PROVE  Len(s \o t) > Len(s) /\ SubSeq(s \o t, 1, Len(s)) = s
<1>1. /\ s \o t \in Seq(S) /\ Len(s \o t) = Len(s) + Len(t)
      /\ Len(s) \in Nat /\ Len(t) \in Nat /\ Len(t) # 0
  BY ConcatProperties, LenProperties, EmptySeq
<1>2. CASE s = <<>>
  <2>1. Len(s) = 0
    BY <1>2
  <2>2. SubSeq(s \o t, 1, Len(s)) = <<>>
    BY <2>1, SubSeqEmpty
  <2> QED BY <1>1, <1>2, <2>2
<1>3. CASE s # <<>>
  <2>1. 1 \in 1 .. Len(s) /\ Len(s) \in 1 .. Len(s)
    BY <1>1, <1>3, EmptySeq
  <2>2. SubSeq(s \o t, 1, Len(s)) = SubSeq(s, 1, Len(s))
    BY <2>1, SubSeqOfConcat1
  <2> QED BY <1>1, <2>2, SubSeqFull
<1> QED BY <1>2, <1>3

LEMMA EarStep ==
    ASSUME "garbled" \notin Bytes, TypeOK, CursorInBuffer, [Next]_vars
    PROVE  CursorInBuffer' /\ [E!Next]_E!vars
<1> USE DEF CursorInBuffer
<1>0. /\ buffer \in Seq(Bytes) /\ buf \in Seq(Bytes)
      /\ Len(buffer) \in Nat /\ cursor \in Nat
  BY LenProperties DEF TypeOK
<1>1. CASE UNCHANGED earVars
  BY <1>1 DEF earVars, E!vars
<1>2. CASE ReadTakes
  <2>1. /\ buffer' = buffer \o buf /\ buf # <<>>
        /\ cursor' = cursor /\ floor' = floor
    BY <1>2 DEF ReadTakes
  <2>2. Len(buffer') > Len(buffer) /\ SubSeq(buffer', 1, Len(buffer)) = buffer
    BY <1>0, <2>1, Prefix
  <2>3. Len(buffer') \in Nat
    BY <1>0, <2>1, ConcatProperties, LenProperties
  <2>4. E!Hear
    BY <2>1, <2>2 DEF E!Hear
  <2> QED BY <1>0, <2>1, <2>2, <2>3, <2>4 DEF E!Next
<1>3. CASE Boundary
  BY <1>0, <1>3 DEF Boundary, E!Next, E!Boundary
<1>4. CASE Matched
  <2>1. PICK at \in 1 .. Len(buffer), end \in 1 .. (Len(buffer) + 1) :
            Found(at, end) /\ cursor' = cursor + LossyLen(Start + 1, end - 1)
    BY <1>4 DEF Matched
  <2>2. Start = cursor
    BY <1>0 DEF Start
  <2>3. Start < end
    BY <2>1, FoundBehind
  <2>4. LossyLen(Start + 1, end - 1) = end - 1 - cursor
    <3>1. Start + 1 \in Nat /\ end - 1 \in Nat /\ 1 <= Start + 1 /\ end - 1 <= Len(buffer)
      BY <1>0, <2>1, <2>2
    <3>2. LossyLen(Start + 1, end - 1) = (end - 1) + 1 - (Start + 1)
      BY <1>0, <3>1, CleanLength
    <3> QED BY <1>0, <2>1, <2>2, <3>2
  <2>5. cursor' = end - 1 /\ buffer' = buffer /\ floor' = floor
    BY <1>0, <1>4, <2>1, <2>4 DEF Matched
  <2>6. E!IsNext("pattern", at, cursor)
    BY <2>1, <2>2 DEF Found, IsFirst, E!IsNext
  <2>7. \/ end \in 1 .. Len(buffer) /\ E!IsNext("newline", end, at)
        \/ /\ end = Len(buffer) + 1
           /\ \A k \in (at + 1) .. Len(buffer) : buffer[k] # "newline"
    BY <2>1 DEF Found, IsFirst, E!IsNext
  <2>8. end = Len(buffer) + 1 => cursor' = Len(buffer)
    BY <1>0, <2>5
  <2>9. E!Match
    BY <2>5, <2>6, <2>7, <2>8 DEF E!Match
  <2> QED BY <1>0, <2>1, <2>5, <2>9 DEF E!Next
<1>5. UNCHANGED earVars \/ ReadTakes \/ Boundary \/ Matched
  BY DEF Next, vars, Caller, Drain, Call, DeadlineExpired, NoSource, CallRead,
         ReadFails, ReadSilent, ReadParks, Sleep, TimeUp, Late, ReleasePort, Reopen,
         PortRead, Store, ReadTimesOut, PortError, ReportError, Send, Unplug, Replug
<1> QED BY <1>1, <1>2, <1>3, <1>4, <1>5

\* If every byte is UTF-8 the listener, its thread and the search are the
\* ears: bytes only arrive, and a wait matches the first pattern that no
\* wait has looked past.
THEOREM ImplementsEars ==
    "garbled" \notin Bytes => (Spec => HearsAndMatches)
<1> SUFFICES ASSUME "garbled" \notin Bytes
             PROVE  Spec => HearsAndMatches
  OBVIOUS
<1>1. Init => E!Init /\ CursorInBuffer
  BY EmptySeq DEF Init, E!Init, CursorInBuffer
<1>2. TypeOK /\ CursorInBuffer /\ [Next]_vars => CursorInBuffer' /\ [E!Next]_E!vars
  BY EarStep
<1> QED BY <1>1, <1>2, ListenerTypes, PTL DEF Spec, HearsAndMatches, E!Spec

\* On such a board the cursor never leaves what was heard, so no line is
\* skipped.
THEOREM CursorStays ==
    "garbled" \notin Bytes => (Spec => []CursorInBuffer)
<1> SUFFICES ASSUME "garbled" \notin Bytes
             PROVE  Spec => []CursorInBuffer
  OBVIOUS
<1>1. Init => CursorInBuffer
  BY EmptySeq DEF Init, CursorInBuffer
<1>2. TypeOK /\ CursorInBuffer /\ [Next]_vars => CursorInBuffer'
  BY EarStep
<1> QED BY <1>1, <1>2, ListenerTypes, PTL DEF Spec
=============================================================================
