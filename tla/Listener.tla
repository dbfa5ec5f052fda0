------------------------------ MODULE Listener ------------------------------
(***************************************************************************)
(* The ears of a hardware run: a Listener (m5stack-core-hil/src/listen.rs) *)
(* over a DrainedSource (serial.rs), whose thread drains the port into     *)
(* buf, under a mutex with a condition variable, whether or not anybody    *)
(* waits for a pattern.                                                    *)
(*                                                                         *)
(* A byte is the last one of the pattern, a newline, one that is not UTF-8 *)
(* or any other.  Time is a choice: a budget may run out at any moment.    *)
(***************************************************************************)
EXTENDS Naturals, Sequences, FiniteSets

CONSTANTS
    Bytes,     \* what the board can send, a subset of AllBytes
    MaxBytes   \* bound: bytes sent in a run

AllBytes == {"pattern", "newline", "garbled", "other"}

ASSUME BytesAssumption == Bytes \subseteq AllBytes /\ MaxBytes \in Nat

VARIABLES
    source,   \* Listener::source, None while across_reset has let go of it
    buffer,   \* Listener::buffer
    cursor,   \* Listener::cursor
    floor,    \* Listener::capture_floor
    pc,       \* where the caller stands
    mode,     \* the method it is in, "none" if none
    over,     \* the method's deadline has passed
    late,     \* quiesce's quiet_for has passed
    outcome,  \* what the last method returned
    buf,      \* DrainedSource::buf
    err,      \* DrainedSource::err is Some
    stop,     \* DrainedSource::stop
    reader,   \* where the drain thread stands
    chunk,    \* the bytes it has read and not yet stored
    tty,      \* external: bytes in the kernel
    portUp,   \* external: the device is there
    sent      \* history: bytes for this listener, since the port was opened

callerVars == <<pc, mode, over, late, outcome>>
earVars == <<buffer, cursor, floor>>
drainVars == <<buf, err, stop, reader, chunk>>
portVars == <<tty, portUp, sent>>
vars == <<source, earVars, callerVars, drainVars, portVars>>

Init ==
    /\ source = "Some" /\ buffer = <<>> /\ cursor = 0 /\ floor = 0
    /\ pc = "idle" /\ mode = "none" /\ over = FALSE /\ late = FALSE
    /\ outcome = "none"
    /\ buf = <<>> /\ err = FALSE /\ stop = FALSE /\ reader = "read" /\ chunk = <<>>
    /\ tty = <<>> /\ portUp = TRUE /\ sent = <<>>

-----------------------------------------------------------------------------
(* The listener.                                                           *)

Waits == {"wait_for", "wait_for_line"}

Call(method) ==
    /\ pc = "idle"
    /\ pc' = "loop" /\ mode' = method /\ outcome' = "none"
    /\ UNCHANGED <<source, earVars, over, late, drainVars, portVars>>

Failed == IF mode = "quiesce" THEN "NotQuiet" ELSE "SourceFailed"

Return(result) ==
    /\ pc' = "idle" /\ outcome' = result
    /\ mode' = "none" /\ over' = FALSE /\ late' = FALSE

\* at is the first place of b after the first from bytes.
IsFirst(b, at, from) ==
    /\ at \in (from + 1) .. Len(buffer)
    /\ buffer[at] = b
    /\ \A k \in (from + 1) .. (at - 1) : buffer[k] # b

\* The length of bytes i .. j of the buffer in from_utf8_lossy's string,
\* where a byte that is not UTF-8 becomes the three of U+FFFD.
LossyLen(i, j) ==
    (j + 1 - i) + 2 * Cardinality({k \in i .. j : buffer[k] = "garbled"})

Start == IF cursor < Len(buffer) THEN cursor ELSE Len(buffer)

\* scan finds the pattern at byte at, in a line that ends before byte end.
Found(at, end) ==
    /\ IsFirst("pattern", at, Start)
    /\ \/ end \in 1 .. Len(buffer) /\ IsFirst("newline", end, at)
       \/ /\ mode = "wait_for" /\ end = Len(buffer) + 1
          /\ \A k \in (at + 1) .. Len(buffer) : buffer[k] # "newline"

Hit == \E at \in 1 .. Len(buffer), end \in 1 .. (Len(buffer) + 1) : Found(at, end)

\* Mutant: the cursor moves past the last pattern, not the first.
MatchedLast ==
    /\ pc = "loop" /\ mode \in Waits /\ Hit
    /\ cursor' = Len(buffer)
    /\ Return("Matched")
    /\ UNCHANGED <<source, buffer, floor, drainVars, portVars>>

\* wait: the pattern is there.
Matched ==
    /\ pc = "loop" /\ mode \in Waits
    /\ \E at \in 1 .. Len(buffer), end \in 1 .. (Len(buffer) + 1) :
        /\ Found(at, end)
        /\ cursor' = cursor + LossyLen(Start + 1, end - 1)
    /\ Return("Matched")
    /\ UNCHANGED <<source, buffer, floor, drainVars, portVars>>

\* wait: no match, and no time left.
DeadlineExpired ==
    /\ pc = "loop" /\ mode \in Waits /\ ~Hit /\ over
    /\ Return("DeadlineExpired")
    /\ UNCHANGED <<source, earVars, drainVars, portVars>>

\* No port: a wait fails, quiesce is false.
NoSource ==
    /\ pc = "loop" /\ source = "None"
    /\ mode \in Waits => ~Hit /\ ~over
    /\ Return(Failed)
    /\ UNCHANGED <<source, earVars, drainVars, portVars>>

CallRead ==
    /\ pc = "loop" /\ source = "Some"
    /\ mode \in Waits => ~Hit /\ ~over
    /\ pc' = "read" /\ late' = FALSE
    /\ UNCHANGED <<source, earVars, mode, over, outcome, drainVars, portVars>>

\* read_available, under the mutex: the drain thread has failed.
ReadFails ==
    /\ pc = "read" /\ err
    /\ Return(Failed)
    /\ UNCHANGED <<source, earVars, drainVars, portVars>>

\* read_available takes what there is, and the listener absorbs it; quiesce
\* gives up when its time is over.
ReadTakes ==
    /\ pc = "read" /\ ~err /\ buf # <<>>
    /\ buffer' = buffer \o buf /\ buf' = <<>>
    /\ IF mode = "quiesce" /\ over THEN Return("NotQuiet")
       ELSE pc' = "loop" /\ UNCHANGED <<mode, over, late, outcome>>
    /\ UNCHANGED <<source, cursor, floor, err, stop, reader, chunk, portVars>>

\* Nothing came and the read's time is up: a wait looks again, quiesce has
\* its silence.
NoTime == IF mode = "quiesce" THEN late ELSE over

ReadSilent ==
    /\ pc = "read" /\ ~err /\ buf = <<>> /\ NoTime
    /\ IF mode = "quiesce" THEN Return("Quiet")
       ELSE pc' = "loop" /\ UNCHANGED <<mode, over, late, outcome>>
    /\ UNCHANGED <<source, earVars, drainVars, portVars>>

\* Nothing yet: the mutex is held until the thread is on the condition
\* variable, but err is not under this mutex.
ReadParks ==
    /\ pc = "read" /\ ~err /\ buf = <<>> /\ ~NoTime
    /\ pc' = "locked"
    /\ UNCHANGED <<source, earVars, mode, over, late, outcome, drainVars, portVars>>

Sleep ==
    /\ pc = "locked" /\ pc' = "asleep"
    /\ UNCHANGED <<source, earVars, mode, over, late, outcome, drainVars, portVars>>

\* Mutant: the time that is left is not looked at after a wake-up.
TimeUpForgotten ==
    /\ pc = "asleep"
    /\ pc' = "read"
    /\ UNCHANGED <<source, earVars, mode, over, late, outcome, drainVars, portVars>>

\* wait_timeout runs out: the whole budget of a wait, quiesce's quiet_for.
TimeUp ==
    /\ pc = "asleep"
    /\ pc' = "read"
    /\ over' = (over \/ mode \in Waits) /\ late' = (late \/ mode = "quiesce")
    /\ UNCHANGED <<source, earVars, mode, outcome, drainVars, portVars>>

\* The deadline passes while the caller is busy.
Late ==
    /\ pc \in {"loop", "read", "locked"} /\ ~over
    /\ over' = TRUE
    /\ UNCHANGED <<source, earVars, pc, mode, late, outcome, drainVars, portVars>>

\* reset_attached, before it resets: discard_backlog and begin_capture.
Boundary ==
    /\ pc = "idle"
    /\ cursor' = Len(buffer) /\ floor' = Len(buffer)
    /\ UNCHANGED <<source, buffer, callerVars, drainVars, portVars>>

\* across_reset drops the source: bytes nobody took are gone with it.
ReleasePort ==
    /\ pc = "idle" /\ source = "Some"
    /\ source' = "None" /\ stop' = TRUE
    /\ buf' = <<>>
    /\ UNCHANGED <<earVars, callerVars, err, reader, chunk, portVars>>

\* reconnect opens the port again; it outlasts the old thread's last read.
Reopen ==
    /\ pc = "idle" /\ source = "None" /\ portUp /\ reader = "gone"
    /\ source' = "Some"
    /\ err' = FALSE /\ stop' = FALSE /\ reader' = "read"
    /\ tty' = <<>> /\ sent' = buffer
    /\ UNCHANGED <<earVars, callerVars, buf, chunk, portUp>>

Caller ==
    \/ Matched \/ DeadlineExpired \/ NoSource \/ CallRead
    \/ ReadFails \/ ReadTakes \/ ReadSilent \/ ReadParks \/ Sleep \/ TimeUp

-----------------------------------------------------------------------------
(* The drain thread.                                                       *)

\* notify_all reaches whoever is asleep by then.
Notify == IF pc = "asleep" THEN "read" ELSE pc

\* Mutant: a read that timed out counts as bytes.
PortReadEmpty ==
    /\ reader = "read"
    /\ \E n \in 0 .. Len(tty) :
        chunk' = SubSeq(tty, 1, n) /\ tty' = SubSeq(tty, n + 1, Len(tty))
    /\ reader' = "store"
    /\ UNCHANGED <<source, earVars, callerVars, buf, err, stop, portUp, sent>>

\* read returns what has come.
PortRead ==
    /\ reader = "read" /\ tty # <<>>
    /\ \E n \in 1 .. Len(tty) :
        chunk' = SubSeq(tty, 1, n) /\ tty' = SubSeq(tty, n + 1, Len(tty))
    /\ reader' = "store"
    /\ UNCHANGED <<source, earVars, callerVars, buf, err, stop, portUp, sent>>

\* Mutant: what the caller has not taken yet is replaced.
StoreOverwrites ==
    /\ reader = "store" /\ pc # "locked"
    /\ buf' = IF source = "Some" THEN chunk ELSE buf
    /\ chunk' = <<>> /\ reader' = IF stop THEN "gone" ELSE "read"
    /\ pc' = Notify
    /\ UNCHANGED <<source, earVars, mode, over, late, outcome, err, stop, portVars>>

\* Mutant: the bytes are not stored under the mutex.
StoreUnlocked ==
    /\ reader = "store"
    /\ buf' = IF source = "Some" THEN buf \o chunk ELSE buf
    /\ chunk' = <<>> /\ reader' = IF stop THEN "gone" ELSE "read"
    /\ pc' = Notify
    /\ UNCHANGED <<source, earVars, mode, over, late, outcome, err, stop, portVars>>

\* Under the mutex: keep the bytes and wake the caller.  Once the source is
\* dropped nobody sees the buffer any more.
Store ==
    /\ reader = "store" /\ pc # "locked"
    /\ buf' = IF source = "Some" THEN buf \o chunk ELSE buf
    /\ chunk' = <<>> /\ reader' = IF stop THEN "gone" ELSE "read"
    /\ pc' = Notify
    /\ UNCHANGED <<source, earVars, mode, over, late, outcome, err, stop, portVars>>

\* A read times out: silence, and time to look at stop.
ReadTimesOut ==
    /\ reader = "read" /\ stop
    /\ reader' = "gone"
    /\ UNCHANGED <<source, earVars, callerVars, buf, err, stop, chunk, portVars>>

\* The device is gone: err is stored, and only then the caller notified.
PortError ==
    /\ reader = "read" /\ ~portUp
    /\ err' = TRUE /\ reader' = "failed"
    /\ UNCHANGED <<source, earVars, callerVars, buf, stop, chunk, portVars>>

ReportError ==
    /\ reader = "failed"
    /\ reader' = "gone" /\ pc' = Notify
    /\ UNCHANGED <<source, earVars, mode, over, late, outcome, buf, err, stop, chunk, portVars>>

\* A dead port may as well be silent for ever: PortError is not promised.
Drain == PortRead \/ Store \/ ReadTimesOut \/ ReportError

-----------------------------------------------------------------------------
(* The board and its USB device, external.                                 *)

Send(b) ==
    /\ portUp /\ Len(sent) < MaxBytes
    /\ tty' = Append(tty, b) /\ sent' = Append(sent, b)
    /\ UNCHANGED <<source, earVars, callerVars, drainVars, portUp>>

Unplug ==
    /\ portUp /\ portUp' = FALSE
    /\ UNCHANGED <<source, earVars, callerVars, drainVars, tty, sent>>

\* The device is back, for a port opened after this.
Replug ==
    /\ ~portUp /\ portUp' = TRUE
    /\ source = "None"
    /\ UNCHANGED <<source, earVars, callerVars, drainVars, tty, sent>>

Next ==
    \/ \E method \in Waits \cup {"quiesce"} : Call(method)
    \/ Caller \/ Late
    \/ Boundary \/ ReleasePort \/ Reopen
    \/ Drain \/ PortError
    \/ \E b \in Bytes : Send(b)
    \/ Unplug \/ Replug

Spec ==
    /\ Init /\ [][Next]_vars
    /\ WF_vars(Caller) /\ WF_vars(Drain) /\ SF_vars(Store)

-----------------------------------------------------------------------------
TypeOK ==
    /\ source \in {"Some", "None"}
    /\ buffer \in Seq(Bytes) /\ cursor \in Nat /\ floor \in 0 .. Len(buffer)
    /\ pc \in {"idle", "loop", "read", "locked", "asleep"}
    /\ mode \in Waits \cup {"quiesce", "none"}
    /\ over \in BOOLEAN /\ late \in BOOLEAN
    /\ outcome \in {"none", "Matched", "DeadlineExpired", "SourceFailed", "Quiet", "NotQuiet"}
    /\ buf \in Seq(Bytes) /\ err \in BOOLEAN /\ stop \in BOOLEAN
    /\ reader \in {"read", "store", "failed", "gone"}
    /\ chunk \in Seq(Bytes) /\ (chunk # <<>> <=> reader = "store")
    /\ tty \in Seq(Bytes) /\ portUp \in BOOLEAN /\ sent \in Seq(Bytes)
    /\ Len(sent) <= MaxBytes

\* While the port is held every byte the board sent is in one place, in its
\* order: heard, collected by the thread, or still on its way.  Nothing is
\* lost between two waits (serial.rs:943-961).
NothingLost ==
    source = "Some" => sent = buffer \o buf \o chunk \o tty

\* Whoever sleeps on the condition variable has nothing to take: a byte is
\* an event, and none falls between the look at buf and the wait
\* (serial.rs:963-967, 1062-1083).
NoLostWakeup == pc = "asleep" => buf = <<>>

\* The listener, its thread and the lossy search together are the ears:
\* bytes arrive in order, waits match the first pattern not looked past
\* (listen.rs:186-236, 328-340).
E == INSTANCE Ears WITH Pattern <- "pattern", Newline <- "newline", heard <- buffer
HearsAndMatches == E!Spec

\* Every wait and every quiesce comes to an end (listen.rs:212-236, 311-326).
WaitEnds == pc # "idle" ~> pc = "idle"

\* The cursor is "how far into `buffer` waits have already looked"
\* (listen.rs:89).
CursorInBuffer == cursor <= Len(buffer)

=============================================================================
