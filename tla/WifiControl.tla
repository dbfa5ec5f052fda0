---------------------------- MODULE WifiControl ----------------------------
(***************************************************************************)
(* The WiFi station (src/driver/radio/wifi.rs, mod sta): callers of        *)
(* WifiControl, the actor that owns the controller, and the signals CMD    *)
(* and RESP between them.                                                  *)
(*                                                                         *)
(* A step is the code between two awaits.  The controller (esp-radio) is   *)
(* external: an association succeeds, fails or is lost at any time.        *)
(***************************************************************************)
EXTENDS Integers

CONSTANTS
    Callers,      \* tasks that use WifiControl
    Quitters,     \* those that may drop their future, as under a timeout
    MaxRequests,  \* bound: requests made between them
    None          \* an empty signal, a free lock

ASSUME WifiAssumption ==
    /\ Quitters \subseteq Callers
    /\ MaxRequests \in Nat
    /\ None \notin Callers

Kinds == {"scan", "connect", "disconnect"}
Requests == [by : Callers, kind : Kinds]

\* Response::Scan or Response::Unit.
Shape(kind) == IF kind = "scan" THEN "scan" ELSE "unit"

VARIABLES
    pc,         \* where each caller's future stands
    want,       \* the command it was called for
    holder,     \* the caller holding CTRL_LOCK
    cmd,        \* CMD: the latched command
    resp,       \* RESP: the request whose reply is latched
    apc,        \* where the actor stands
    job,        \* the command it handles
    desired,    \* desired_up
    link,       \* external: the state of the association
    panicked,   \* an unreachable! was reached, the firmware has halted
    abandoned,  \* history: a future was dropped while it waited for a reply
    left        \* bound: requests that may still be made

callerVars == <<pc, want, holder, left>>
actorVars  == <<apc, job, desired>>
vars == <<callerVars, cmd, resp, actorVars, link, panicked, abandoned>>

Init ==
    /\ pc = [c \in Callers |-> "idle"]
    /\ want = [c \in Callers |-> "scan"]
    /\ holder = None /\ cmd = None /\ resp = None
    /\ apc = "top" /\ job = None
    /\ desired = TRUE
    /\ link = "down"
    /\ panicked = FALSE /\ abandoned = FALSE
    /\ left = MaxRequests

-----------------------------------------------------------------------------
(* Callers.                                                                *)

\* scan_with, connect or disconnect is called and waits for CTRL_LOCK.
Call(c) ==
    /\ pc[c] = "idle" /\ left > 0
    /\ \E k \in Kinds : want' = [want EXCEPT ![c] = k]
    /\ pc' = [pc EXCEPT ![c] = "lock"]
    /\ left' = left - 1
    /\ UNCHANGED <<holder, cmd, resp, actorVars, link, panicked, abandoned>>

\* Mutant: nothing keeps a second command from going out.
SendUnlocked(c) ==
    /\ pc[c] = "lock"
    /\ holder' = c
    /\ cmd' = [by |-> c, kind |-> want[c]]
    /\ pc' = [pc EXCEPT ![c] = "reply"]
    /\ UNCHANGED <<want, left, resp, actorVars, link, panicked, abandoned>>

\* With the lock it signals CMD, over whatever CMD holds.
Send(c) ==
    /\ pc[c] = "lock" /\ holder = None
    /\ holder' = c
    /\ cmd' = [by |-> c, kind |-> want[c]]
    /\ pc' = [pc EXCEPT ![c] = "reply"]
    /\ UNCHANGED <<want, left, resp, actorVars, link, panicked, abandoned>>

\* RESP.wait returns a reply of the right shape; the lock goes.
Receive(c) ==
    /\ pc[c] = "reply" /\ resp # None
    /\ Shape(resp.kind) = Shape(want[c])
    /\ resp' = None
    /\ holder' = None
    /\ pc' = [pc EXCEPT ![c] = "idle"]
    /\ UNCHANGED <<want, left, cmd, actorVars, link, panicked, abandoned>>

\* The reply has the other shape: unreachable!, and on_panic halts.
ReceiveOther(c) ==
    /\ pc[c] = "reply" /\ resp # None
    /\ Shape(resp.kind) # Shape(want[c])
    /\ resp' = None
    /\ panicked' = TRUE
    /\ UNCHANGED <<callerVars, cmd, actorVars, link, abandoned>>

\* The future is dropped: the guard frees the lock, the signals stay.
Quit(c) ==
    /\ c \in Quitters /\ pc[c] \in {"lock", "reply"}
    /\ holder' = IF holder = c THEN None ELSE holder
    /\ abandoned' = (abandoned \/ pc[c] = "reply")
    /\ pc' = [pc EXCEPT ![c] = "idle"]
    /\ UNCHANGED <<want, left, cmd, resp, actorVars, link, panicked>>

-----------------------------------------------------------------------------
(* The actor.                                                              *)

\* The head of run_actor's loop.
Choose ==
    /\ apc = "top"
    /\ apc' = CASE desired /\ link # "up" -> "connecting"
                [] desired /\ link = "up" -> "linked"
                [] OTHER -> "parked"
    /\ link' = IF desired /\ link # "up" THEN "joining" ELSE link
    /\ UNCHANGED <<callerVars, cmd, resp, job, desired, panicked, abandoned>>

\* connect_async returns Ok.
Connected ==
    /\ apc = "connecting"
    /\ link' = "up"
    /\ apc' = "top"
    /\ UNCHANGED <<callerVars, cmd, resp, job, desired, panicked, abandoned>>

\* Mutant: after a failure it waits for a command only.
ConnectFailedParks ==
    /\ apc = "connecting"
    /\ link' = "down"
    /\ apc' = "parked"
    /\ UNCHANGED <<callerVars, cmd, resp, job, desired, panicked, abandoned>>

\* connect_async returns Err: back off two seconds.
ConnectFailed ==
    /\ apc = "connecting"
    /\ link' = "down"
    /\ apc' = "backoff"
    /\ UNCHANGED <<callerVars, cmd, resp, job, desired, panicked, abandoned>>

BackoffOver ==
    /\ apc = "backoff"
    /\ apc' = "top"
    /\ UNCHANGED <<callerVars, cmd, resp, job, desired, link, panicked,
                   abandoned>>

\* wait_for_disconnect_async returns.
LinkGone ==
    /\ apc = "linked" /\ link # "up"
    /\ apc' = "top"
    /\ UNCHANGED <<callerVars, cmd, resp, job, desired, link, panicked,
                   abandoned>>

\* handle: scan and disconnect await the controller, connect answers at once.
Handle(r) ==
    /\ desired' = CASE r.kind = "connect" -> TRUE
                    [] r.kind = "disconnect" -> FALSE
                    [] OTHER -> desired
    /\ \/ /\ r.kind = "connect"
          /\ resp' = r
          /\ apc' = "top"
          /\ job' = None
       \/ /\ r.kind # "connect"
          /\ apc' = "handling"
          /\ job' = r
          /\ UNCHANGED resp

\* Mutant: a command that ends the back-off is not handled.
TakeCommandDropped ==
    /\ cmd # None
    /\ cmd' = None
    /\ IF apc = "backoff"
       THEN apc' = "top" /\ UNCHANGED <<desired, resp, job>>
       ELSE /\ apc \in {"connecting", "linked", "parked"}
            /\ Handle(cmd)
    /\ UNCHANGED <<callerVars, link, panicked, abandoned>>

\* CMD.wait returns in any of the three selects or alone.  It is polled after
\* the other future, so a loss of the link is seen first.
TakeCommand ==
    /\ apc \in {"connecting", "backoff", "linked", "parked"}
    /\ apc = "linked" => link = "up"
    /\ cmd # None
    /\ cmd' = None
    /\ Handle(cmd)
    /\ UNCHANGED <<callerVars, link, panicked, abandoned>>

\* Mutant: the reply is sent and the command stays to be handled again.
ReplyKeepsCommand ==
    /\ apc = "handling"
    /\ resp' = job
    /\ apc' = "top"
    /\ link' \in (IF job.kind = "disconnect" THEN {link, "down"} ELSE {link})
    /\ UNCHANGED <<callerVars, cmd, job, desired, panicked, abandoned>>

\* scan_async or disconnect_async returns: RESP.signal, over what RESP holds.
\* A disconnect that returns an error may leave the link as it is.
Reply ==
    /\ apc = "handling"
    /\ resp' = job
    /\ job' = None
    /\ apc' = "top"
    /\ link' \in (IF job.kind = "disconnect" THEN {link, "down"} ELSE {link})
    /\ UNCHANGED <<callerVars, cmd, desired, panicked, abandoned>>

-----------------------------------------------------------------------------
(* The controller on its own.                                              *)

\* An attempt whose future was dropped still ends one way or the other.
JoinEnds ==
    /\ link = "joining" /\ apc # "connecting"
    /\ link' \in {"up", "down"}
    /\ UNCHANGED <<callerVars, cmd, resp, actorVars, panicked, abandoned>>

LinkLost ==
    /\ link = "up"
    /\ link' = "down"
    /\ UNCHANGED <<callerVars, cmd, resp, actorVars, panicked, abandoned>>

-----------------------------------------------------------------------------
Actor ==
    \/ Choose \/ Connected \/ ConnectFailed \/ BackoffOver \/ LinkGone
    \/ TakeCommand \/ Reply

Caller(c) ==
    \/ Call(c) \/ Send(c) \/ Receive(c) \/ ReceiveOther(c) \/ Quit(c)

Next ==
    /\ ~panicked
    /\ Actor \/ JoinEnds \/ LinkLost \/ \E c \in Callers : Caller(c)

\* Tasks that are ready are polled and the controller answers.  CMD is looked
\* at in the first poll of every select, when the other future is fresh, so a
\* command is not passed over for ever; and an access point in range is joined
\* in the end, if it is tried often enough.
Fairness ==
    /\ WF_vars(~panicked /\ Actor)
    /\ SF_vars(~panicked /\ TakeCommand)
    /\ SF_vars(~panicked /\ Connected)
    /\ \A c \in Callers :
         WF_vars(~panicked /\ (Send(c) \/ Receive(c) \/ ReceiveOther(c)))

Spec == Init /\ [][Next]_vars /\ Fairness

-----------------------------------------------------------------------------
(* Properties.                                                             *)

TypeOK ==
    /\ pc \in [Callers -> {"idle", "lock", "reply"}]
    /\ want \in [Callers -> Kinds]
    /\ holder \in Callers \cup {None}
    /\ cmd \in Requests \cup {None}
    /\ resp \in Requests \cup {None}
    /\ job \in Requests \cup {None}
    /\ apc \in {"top", "connecting", "backoff", "linked", "parked", "handling"}
    /\ (apc = "handling") <=> (job # None)
    /\ desired \in BOOLEAN /\ panicked \in BOOLEAN /\ abandoned \in BOOLEAN
    /\ link \in {"down", "joining", "up"}
    /\ left \in 0..MaxRequests

\* Where a request can be on its way to being answered.
Outstanding == {cmd, job, resp} \ {None}

\* As long as no caller dropped its future at RESP.wait: whatever is latched or
\* being handled is the lock holder's own request, and in one place only, so
\* each reply reaches the caller it answers and clobbers nothing.
OwnReply ==
    ~abandoned =>
        /\ \A r \in Outstanding :
              /\ r.by = holder
              /\ pc[holder] = "reply"
              /\ r.kind = want[holder]
        /\ cmd # None => job = None /\ resp = None
        /\ job # None => resp = None

\* Abandoned or not, no caller waits for ever: a stale reply is read too early
\* but one is always coming.
Answered ==
    \A c \in Callers : pc[c] = "reply" ~> pc[c] # "reply" \/ panicked

\* The station rejoins after every loss and every failed attempt, unless it was
\* told to stay down.
Rejoins == []<>(~desired \/ link = "up" \/ panicked)

\* What the code asserts and a dropped future refutes: "scan command yields a
\* scan response", "unit command yields a unit response".
RightShape ==
    \A c \in Callers :
        pc[c] = "reply" /\ resp # None => Shape(resp.kind) = Shape(want[c])
=============================================================================
