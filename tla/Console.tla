------------------------------ MODULE Console ------------------------------
(***************************************************************************)
(* The serial console (src/io/console.rs): log producers that never block, *)
(* dump producers that wait for room, one drain task, the ring between     *)
(* them and the two signals that wake them.                                *)
(*                                                                         *)
(* Producers and drain run on any core, so every critical section of RING  *)
(* and every signal is a step of its own.                                  *)
(***************************************************************************)
EXTENDS Ring, FiniteSets

CONSTANTS
    Loggers,    \* tasks that log through push_line
    Dumpers,    \* tasks that call send_line
    LineLens,   \* lengths of formatted lines
    MaxLines,   \* bound: lines the producers write between them
    Scratch,    \* bytes the drain reads at a time
    NoTask      \* nobody

Producers == Loggers \cup Dumpers

\* LINE_CAP < RING_SIZE: a line always fits an empty ring.
ASSUME ConsoleAssumption ==
    /\ LineLens \subseteq 1..RING_SIZE
    /\ Scratch \in Nat \ {0}
    /\ MaxLines \in Nat
    /\ Loggers \cap Dumpers = {}
    /\ NoTask \notin Producers

VARIABLES
    ring,       \* RING
    pc,         \* where each producer stands
    line,       \* length of the line it has formatted
    left,       \* bound: lines that may still be written
    drainSig,   \* DRAIN_SIGNAL is signalled
    spaceSig,   \* SPACE_SIGNAL is signalled
    waiter,     \* the task whose waker SPACE_SIGNAL holds
    asleep,     \* dumpers that returned Pending and were not woken since
    dpc,        \* where the drain task stands
    scratch,    \* the slice it read last
    accum,      \* drop_accum
    reported,   \* history: bytes announced by [CONSOLE-DROP nB] markers
    taken,      \* history: bytes the drain has read
    newest      \* history: the newest of them

prodVars  == <<pc, line, left>>
sigVars   == <<drainSig, spaceSig, waiter, asleep>>
delivery  == <<scratch, accum, reported, taken, newest>>
drainVars == <<dpc, delivery>>
vars == <<ring, prodVars, sigVars, drainVars>>

Lost == ring.dropped + accum + reported
Written == Used(ring) + Lost + taken
NewBytes(n) == [i \in 1..n |-> Written + i]

Init ==
    /\ ring = EmptyRing
    /\ pc = [t \in Producers |-> "idle"]
    /\ line = [t \in Producers |-> 0]
    /\ left \in 0..MaxLines
    /\ drainSig = FALSE /\ spaceSig = FALSE
    /\ waiter = NoTask /\ asleep = {}
    /\ dpc = "read" /\ scratch = << >> /\ accum = 0
    /\ reported = 0 /\ taken = 0 /\ newest = 0

Goto(t, l) == pc' = [pc EXCEPT ![t] = l]

-----------------------------------------------------------------------------
(* Producers.                                                              *)

\* format_line: a truncated, terminated line of some length.
FormatLine(t) ==
    /\ pc[t] = "idle" /\ left > 0
    /\ left' = left - 1
    /\ \E n \in LineLens : line' = [line EXCEPT ![t] = n]
    /\ Goto(t, "write")
    /\ UNCHANGED <<ring, sigVars, drainVars>>

\* push_line: into the ring whatever room there is.
PushWrite(t) ==
    /\ t \in Loggers /\ pc[t] = "write"
    /\ ring' = Write(ring, NewBytes(line[t]))
    /\ Goto(t, "signal")
    /\ UNCHANGED <<line, left, sigVars, drainVars>>

\* DRAIN_SIGNAL.signal: latches, and wakes the drain if it waits.
SignalDrain(t) ==
    /\ pc[t] = "signal"
    /\ drainSig' = TRUE
    /\ line' = [line EXCEPT ![t] = 0]
    /\ Goto(t, "idle")
    /\ UNCHANGED <<ring, left, spaceSig, waiter, asleep, drainVars>>

\* send_line, the check and the write under one lock.
SendWrite(t) ==
    /\ t \in Dumpers /\ pc[t] = "write"
    /\ Free(ring) >= line[t]
    /\ ring' = Write(ring, NewBytes(line[t]))
    /\ Goto(t, "signal")
    /\ UNCHANGED <<line, left, sigVars, drainVars>>

SendNoRoom(t) ==
    /\ t \in Dumpers /\ pc[t] = "write"
    /\ Free(ring) < line[t]
    /\ Goto(t, "wait")
    /\ UNCHANGED <<ring, line, left, sigVars, drainVars>>

\* SPACE_SIGNAL.wait is polled and finds it signalled: the line is tried again.
\* A task whose waker was taken away without a wake is never polled.
SpaceReady(t) ==
    /\ pc[t] = "wait" /\ t \notin asleep
    /\ spaceSig
    /\ spaceSig' = FALSE
    /\ Goto(t, "write")
    /\ UNCHANGED <<ring, line, left, drainSig, waiter, asleep, drainVars>>

\* It is polled and finds nothing: it leaves its waker, and wakes the task
\* whose waker it replaces, for the signal holds one.
SpacePending(t) ==
    /\ pc[t] = "wait" /\ t \notin asleep
    /\ ~spaceSig
    /\ waiter' = t
    /\ asleep' = (asleep \ {waiter}) \cup {t}
    /\ UNCHANGED <<ring, prodVars, drainSig, spaceSig, drainVars>>

-----------------------------------------------------------------------------
(* The drain task.                                                         *)

\* The slice goes to scratch; the histories follow it.
Receive ==
    LET slice == ReadBytes(ring, Scratch)
    IN  /\ scratch' = slice
        /\ taken' = taken + Len(slice)
        /\ newest' = IF slice = << >> THEN newest ELSE Last(slice)

\* The next slice and the overwrite count in one lock.
DrainRead ==
    /\ dpc = "read"
    /\ Receive
    /\ accum' = accum + ring.dropped
    /\ ring' = AfterRead(ring, Scratch)
    /\ dpc' = "report"
    /\ UNCHANGED <<reported, prodVars, sigVars>>

\* The marker: due at once when the ring is empty, else every 250 ms, which
\* may or may not have passed.
DrainReport ==
    /\ dpc = "report"
    /\ accum > 0
    /\ reported' = reported + accum
    /\ accum' = 0
    /\ dpc' = "deliver"
    /\ UNCHANGED <<ring, scratch, taken, newest, prodVars, sigVars>>

\* Mutant: the rate limit holds back the marker of an episode that has ended.
DrainHoldReportAlways ==
    /\ dpc = "report"
    /\ dpc' = "deliver"
    /\ UNCHANGED <<ring, delivery, prodVars, sigVars>>

DrainHoldReport ==
    /\ dpc = "report"
    /\ accum = 0 \/ scratch # << >>
    /\ dpc' = "deliver"
    /\ UNCHANGED <<ring, delivery, prodVars, sigVars>>

\* Nothing was read: wait for DRAIN_SIGNAL and read again.
DrainWake ==
    /\ dpc = "deliver" /\ scratch = << >>
    /\ drainSig
    /\ drainSig' = FALSE
    /\ dpc' = "read"
    /\ UNCHANGED <<ring, delivery, prodVars, spaceSig, waiter, asleep>>

\* Mutant: the space signal wakes its waiter and is not latched.
DrainFreedUnlatched ==
    /\ dpc = "deliver" /\ scratch # << >>
    /\ spaceSig' = (waiter # NoTask)
    /\ waiter' = NoTask
    /\ asleep' = asleep \ {waiter}
    /\ dpc' = "send"
    /\ UNCHANGED <<ring, delivery, prodVars, drainSig>>

\* Bytes were read: SPACE_SIGNAL.signal latches and wakes its one waiter.
DrainFreed ==
    /\ dpc = "deliver" /\ scratch # << >>
    /\ spaceSig' = TRUE
    /\ waiter' = NoTask
    /\ asleep' = asleep \ {waiter}
    /\ dpc' = "send"
    /\ UNCHANGED <<ring, delivery, prodVars, drainSig>>

\* write_all to the sink, outside the lock.
DrainSend ==
    /\ dpc = "send"
    /\ dpc' = "read"
    /\ UNCHANGED <<ring, delivery, prodVars, sigVars>>

-----------------------------------------------------------------------------
Produce(t) ==
    \/ PushWrite(t) \/ SignalDrain(t)
    \/ SendWrite(t) \/ SendNoRoom(t) \/ SpaceReady(t) \/ SpacePending(t)

Drain ==
    \/ DrainRead \/ DrainReport \/ DrainHoldReport
    \/ DrainWake \/ DrainFreed \/ DrainSend
=============================================================================
