-------------------------------- MODULE HilProofs --------------------------------
(* The claim on the board, the run that holds it, what that run has heard and   *)
(* what it may conclude, for any processes, images, command lines, hosts and    *)
(* number of captures.                                                          *)
EXTENDS HilRun, SequenceTheorems, TLAPS

--------------------------------------------------------------------------------
(* The lock. What a run does to it is to leave, as the process that holds it.   *)

RunnerHolds ==
  /\ runner \in Procs \cup {None}
  /\ (runner = None) = (pc = "idle")
  /\ runner # None => claim[runner] = "held"

Leaves(p) == claim[p] = "held" /\ Goes(p, "leaving") /\ UNCHANGED <<file, linked, raced>>

LockStep ==
  \/ \E p \in Procs : Check(p) \/ Create(p) \/ WritePid(p) \/ Remove(p) \/ Die(p) \/ Leaves(p)
  \/ UNCHANGED lockVars

InRun == pc # "idle" /\ UNCHANGED <<lockVars, runner>> /\ pc' # "idle"

RunLeaves == pc # "idle" /\ Returns

USE DEF Go, RunStays

LEMMA RunStep ==
  ASSUME Step
  PROVE  InRun \/ RunLeaves
<1> USE DEF InRun, RunLeaves
<1>1. CASE QuiesceGivesUp \/ QuiesceSilent
  BY <1>1 DEF QuiesceGivesUp, QuiesceSilent, Boundary
<1>2. CASE ProbeResets \/ ReleaseLines \/ PullEn \/ ReleaseEn \/ LetGo \/ ToolResets \/ Reopen
  BY <1>2 DEF ProbeResets, ReleaseLines, PullEn, ReleaseEn, PulseStays, LetGo, ToolResets, Reopen, AfterReset
<1>3. CASE PortFails
  BY <1>3 DEF PortFails, Fails, Waits
<1>4. CASE Hear \/ ReadMatched \/ ReadExpired \/ Retry
  BY <1>4 DEF Hear, ReadMatched, ReadExpired, Retry, Matches, Waits
<1>5. CASE RefuteRun \/ Succeed \/ HoledCapture \/ AwaitExpired \/ CaptureExpired \/ WriteFails
  BY <1>5 DEF RefuteRun, Succeed, HoledCapture, AwaitExpired, CaptureExpired, WriteFails, Fails, Judging
<1>6. CASE Accept \/ DecideWrite \/ Write
  BY <1>6 DEF Accept, DecideWrite, Write, Judging
<1>7. CASE AwaitMatched \/ CaptureEnds
  BY <1>7 DEF AwaitMatched, CaptureEnds, Matches
<1> QED BY <1>1, <1>2, <1>3, <1>4, <1>5, <1>6, <1>7 DEF Step

LEMMA BoardStepStays ==
  ASSUME BoardStep
  PROVE  UNCHANGED <<lockVars, runner, pc, cmd, match, heard, holed, flash, capVars, isoVars, held, cfgVars>>
BY DEF BoardStep, Speak, Overrun, SpeakMarker, Chatter, BoardStays

\* Who holds the board, and what becomes of the lock.
LEMMA RunnerStep ==
  ASSUME LockTypeOK, RunnerHolds, [Next]_vars
  PROVE  RunnerHolds' /\ LockStep
<1> USE OtherAssumption DEF RunnerHolds, LockStep, LockTypeOK, Goes, lockVars
<1>1. ASSUME NEW p \in Procs, Claim(p)
      PROVE  RunnerHolds' /\ LockStep
  <2>1. runner' = runner /\ pc' = pc /\ (Check(p) \/ Create(p) \/ WritePid(p) \/ Remove(p))
    BY <1>1 DEF Claim, OthersStay
  <2>2. claim[p] # "held" /\ \E s \in Stages : claim' = [claim EXCEPT ![p] = s]
    BY <2>1 DEF Check, Create, WritePid, Remove, Stages
  <2> QED BY <2>1, <2>2
<1>2. ASSUME NEW p \in Procs, OpenFails(p)
      PROVE  RunnerHolds' /\ LockStep
  BY <1>2 DEF OpenFails, Leaves
<1>3. ASSUME NEW p \in Procs, NEW c \in Commands[p], Open(p, c)
      PROVE  RunnerHolds' /\ LockStep
  BY <1>3 DEF Open
<1>4. ASSUME NEW p \in Procs, Kill(p)
      PROVE  RunnerHolds' /\ LockStep
  <2>1. Die(p) /\ claim' = [claim EXCEPT ![p] = "gone"]
    BY <1>4 DEF Kill, Die
  <2>2. CASE p # runner
    BY <1>4, <2>1, <2>2 DEF Kill, OthersStay
  <2>3. CASE p = runner
    BY <1>4, <2>1, <2>3 DEF Kill, Cleared
  <2> QED BY <2>2, <2>3
<1>5. CASE QuiesceHears \/ InRun
  BY <1>5 DEF QuiesceHears, InRun
<1>6. CASE RunLeaves
  BY <1>6 DEF RunLeaves, Returns, Cleared, Leaves
<1>7. CASE BoardStep
  BY <1>7, BoardStepStays
<1>8. CASE UNCHANGED vars
  BY <1>8 DEF vars
<1> QED
  BY <1>1, <1>2, <1>3, <1>4, <1>5, <1>6, <1>7, <1>8, RunStep DEF Next, Start

\* Nobody but its one claimant has the file, unless two acquires overlapped.
LockInv ==
  /\ LockTypeOK
  /\ ~raced =>
       /\ \A p, q \in Acquiring \cup Holders : p = q
       /\ \A p \in Holders : file = p
       /\ \A p \in Procs : claim[p] = "created" => file = "empty" /\ p \in linked

LEMMA LockKept ==
  ASSUME LockInv, LockStep
  PROVE  LockInv'
<1> USE ProcsAssumption DEF LockInv, LockTypeOK, Goes, NoPid, Stages, Acquiring, Holders, Alive
<1>1. ASSUME NEW p \in Procs, Check(p)
      PROVE  LockInv'
  BY <1>1 DEF Check
<1>2. ASSUME NEW p \in Procs, Create(p)
      PROVE  LockInv'
  BY <1>2 DEF Create
<1>3. ASSUME NEW p \in Procs, WritePid(p)
      PROVE  LockInv'
  BY <1>3 DEF WritePid
<1>4. ASSUME NEW p \in Procs, Remove(p)
      PROVE  LockInv'
  BY <1>4 DEF Remove, RaceEndsWith
<1>5. ASSUME NEW p \in Procs, Die(p)
      PROVE  LockInv'
  BY <1>5 DEF Die, RaceEndsWith
<1>6. ASSUME NEW p \in Procs, Leaves(p)
      PROVE  LockInv'
  BY <1>6 DEF Leaves
<1>7. CASE UNCHANGED lockVars
  BY <1>7 DEF lockVars
<1> QED BY <1>1, <1>2, <1>3, <1>4, <1>5, <1>6, <1>7 DEF LockStep

LEMMA LockInvariant == Spec => [](LockInv /\ RunnerHolds)
<1>1. Init => LockInv /\ RunnerHolds
  BY ProcsAssumption, OtherAssumption
  DEF Init, LockInit, LockInv, LockTypeOK, RunnerHolds, NoPid, Stages, Acquiring, Holders
<1>2. LockInv /\ RunnerHolds /\ [Next]_vars => (LockInv /\ RunnerHolds)'
  BY RunnerStep, LockKept DEF LockInv
<1> QED BY <1>1, <1>2, PTL DEF Spec

\* The board has one owner, for any number of processes started and killed at
\* any point, unless two that were inside acquire at a time, or others that came
\* beside them, still run.
THEOREM BoardClaimed == Spec => []OneClaimUnlessRaced
<1>1. LockInv => OneClaimUnlessRaced
  BY DEF LockInv, OneClaimUnlessRaced, OneClaim
<1> QED BY <1>1, LockInvariant, PTL

--------------------------------------------------------------------------------
(* Lines                                                                        *)

\* What a boot of an image may print.
Spoken(image) == IF Build[image].app_desc THEN {"identity", "banner", "up"} ELSE {"banner", "up"}

\* An identity line is that of the image, whole or cut short.
Honest(image) ==
  {l \in Lines : l.what = "identity" =>
     /\ Build[image].app_desc
     /\ IF l.cut THEN l.says \in CutSays[image] ELSE l.says = Says[image]}

Fresh == {l \in Lines : ~l.stale}

LEMMA SaysTyped ==
  ASSUME NEW i \in OnBoard
  PROVE  Says[i] \in Identities /\ CutSays[i] \subseteq Identities
BY DEF Identities, Says, CutSays

LEMMA BootSpoken ==
  ASSUME NEW i \in OnBoard
  PROVE  Boot(i) \in Seq(Spoken(i))
<1>1. CASE i \in Dead
  BY <1>1 DEF Boot
<1>2. CASE i \notin Dead /\ ~Build[i].app_desc
  <2>1. Boot(i) = <<"banner", "up">>
    BY <1>2 DEF Boot
  <2> QED BY <1>2, <2>1 DEF Spoken
<1>3. CASE i \notin Dead /\ Build[i].app_desc
  <2>1. Boot(i) = <<"identity", "banner", "up">>
    BY <1>3 DEF Boot
  <2> QED BY <1>3, <2>1 DEF Spoken
<1> QED BY <1>1, <1>2, <1>3

LEMMA LineHonest ==
  ASSUME NEW i \in OnBoard, NEW what \in Spoken(i)
  PROVE  Line(what, i) \in Honest(i) /\ Line(what, i) \in Fresh
BY SaysTyped DEF Line, Honest, Fresh, Lines, Spoken

LEMMA CutHonest ==
  ASSUME NEW i \in OnBoard, Build[i].app_desc, NEW says \in CutSays[i]
  PROVE  LET l == [Line("identity", i) EXCEPT !.says = says, !.cut = TRUE]
         IN  l \in Honest(i) /\ l \in Fresh
BY SaysTyped DEF Line, Honest, Fresh, Lines

LEMMA AgedHonest ==
  ASSUME NEW i \in OnBoard, NEW s \in Seq(Honest(i))
  PROVE  Aged(s) \in Seq(Honest(i))
<1>1. \A k \in DOMAIN s : s[k] \in Honest(i)
  OBVIOUS
<1>2. \A l \in Honest(i) : [l EXCEPT !.stale = TRUE] \in Honest(i)
  BY DEF Honest, Lines
<1>3. DOMAIN s = 1..Len(s) /\ Len(s) \in Nat
  OBVIOUS
<1> QED BY <1>1, <1>2, <1>3 DEF Aged

LEMMA HonestLines ==
  ASSUME NEW i, NEW s \in Seq(Honest(i))
  PROVE  s \in Seq(Lines)
BY DEF Honest

LEMMA NothingAged == Aged(<< >>) = << >>
BY DEF Aged

LEMMA NoneYet == \A S : << >> \in Seq(S)
OBVIOUS

LEMMA Longer ==
  ASSUME NEW S, NEW s \in Seq(S), NEW t \in Seq(S), NEW l \in S
  PROVE  Append(s, l) \in Seq(S) /\ s \o t \in Seq(S)
OBVIOUS

LEMMA Shorter ==
  ASSUME NEW S, NEW s \in Seq(S), NEW k \in DOMAIN s
  PROVE  s[k] \in S /\ SubSeq(s, k + 1, Len(s)) \in Seq(S)
<1>1. k + 1 \in 1..(Len(s) + 1)
  OBVIOUS
<1>2. \A j \in (k + 1)..Len(s) : s[j] \in S
  OBVIOUS
<1> QED BY <1>1, <1>2

LEMMA HeadAndTail ==
  ASSUME NEW S, NEW s \in Seq(S), s # << >>
  PROVE  Head(s) \in S /\ Tail(s) \in Seq(S)
OBVIOUS

--------------------------------------------------------------------------------
(* The invariant                                                                *)

BeforeReset == {"reset", "pull_en", "tool_reset"}
AfterTheReset == Waits \cup {"release_en", "reopen", "judge", "finish"}
PortGone == {"tool_reset", "reopen", "write", "reopen_written"}
Rewritten == {"quiesce", "write", "reopen_written"}

\* What is on its way is the board's own; what was heard too, from the reset to
\* the next write.
Heard ==
  /\ flash \in OnBoard /\ todo \in Seq(Spoken(flash))
  /\ held \in BOOLEAN
  /\ pc \in PortGone => ~held /\ wire = << >>
  /\ wire \in Seq(Honest(flash))
  /\ heard \in Seq(Lines)
  /\ pc \notin Rewritten => heard \in Seq(Honest(flash))

\* Until the reset nothing is heard, and a silent board has nothing on its way;
\* after it both are of this boot, unless bytes slipped in between.
OfThisBoot ==
  /\ isolation \in {"Clean", "Chatty"}
  /\ pc \notin AfterTheReset => match = {}
  /\ pc \in BeforeReset => heard = << >> /\ (isolation = "Clean" => wire \in Seq(Fresh))
  /\ pc \in AfterTheReset /\ isolation = "Clean" /\ ~slipped =>
       wire \in Seq(Fresh) /\ heard \in Seq(Fresh)

\* What was concluded so far.
Concluded ==
  /\ stage \in {"first", "verify"}
  /\ pc = "judge" /\ capture.kind = "Identified" =>
       /\ Build[flash].app_desc /\ capture.says # None
       /\ capture.says = Says[flash] \/ ("cut" \in match /\ capture.says \in CutSays[flash])
  /\ (pc # "idle" /\ stage = "verify") \/ pc \in {"release", "write", "reopen_written"} =>
       "ensure_image" \in cmd.flags /\ "read_identity" \notin cmd.flags /\ Want # None
  /\ pc \in {"await", "capture", "finish"} =>
       /\ "read_identity" \notin cmd.flags
       /\ cmd.flags \cap {"expect_image", "ensure_image"} # {} => SameFirmware(Elf, flash)

RunInv == Heard /\ OfThisBoot /\ MatchIsThisBoot /\ Concluded


LEMMA RunInit == Init => RunInv
BY ImagesAssumption, NoneYet
DEF Init, RunInv, Heard, OfThisBoot, MatchIsThisBoot, Concluded, BeforeReset, AfterTheReset,
    PortGone, Waits, Capture

--------------------------------------------------------------------------------
(* What is heard                                                                *)

LEMMA RestartHeard ==
  ASSUME NEW image \in OnBoard, Restart(image)
  PROVE  flash' \in OnBoard /\ flash' = image /\ todo' \in Seq(Spoken(flash'))
BY BootSpoken DEF Restart

LEMMA LinesHeard ==
  ASSUME Heard, NEW want, SetControlLines(want)
  PROVE  flash' = flash /\ todo' \in Seq(Spoken(flash))
<1>1. CASE EnLow(want)
  BY <1>1, NoneYet DEF SetControlLines
<1>2. CASE ~EnLow(want) /\ inReset
  BY <1>2, RestartHeard DEF SetControlLines, Heard, Restart
<1>3. CASE ~EnLow(want) /\ ~inReset
  BY <1>3 DEF SetControlLines, Heard, boardVars
<1> QED BY <1>1, <1>2, <1>3

LEMMA BoardHeard ==
  ASSUME Heard, BoardStep
  PROVE  Heard'
<1> USE DEF Heard
<1>0. /\ UNCHANGED <<flash, pc, heard, held>>
  BY DEF BoardStep, Speak, Overrun, SpeakMarker, Chatter, BoardStays
<1>1. CASE Speak
  <2>1. Head(todo) \in Spoken(flash) /\ todo' \in Seq(Spoken(flash))
    BY <1>1, HeadAndTail DEF Speak
  <2>2. wire' = wire \/ (held /\ wire' = Append(wire, Line(Head(todo), flash)))
    BY <1>1 DEF Speak, Say
  <2>3. wire' \in Seq(Honest(flash))
    BY <2>1, <2>2, LineHonest, Longer
  <2> QED BY <1>0, <2>1, <2>2, <2>3
<1>2. CASE Overrun
  <2>1. Head(todo) \in Spoken(flash) /\ todo' \in Seq(Spoken(flash)) /\ held
    BY <1>2, HeadAndTail DEF Overrun
  <2>2. CASE wire' = wire
    BY <1>0, <2>1, <2>2
  <2>3. ASSUME Head(todo) = "identity", NEW says \in CutSays[flash],
               wire' = Append(wire, [Line("identity", flash) EXCEPT !.says = says, !.cut = TRUE])
        PROVE  Heard'
    <3>1. Build[flash].app_desc
      BY <2>1, <2>3 DEF Spoken
    <3>2. wire' \in Seq(Honest(flash))
      BY <2>3, <3>1, CutHonest, Longer
    <3> QED BY <1>0, <2>1, <3>2
  <2> QED BY <1>2, <2>2, <2>3 DEF Overrun
<1>3. CASE SpeakMarker
  BY <1>0, <1>3 DEF SpeakMarker
<1>4. CASE Chatter
  <2>1. "up" \in Spoken(flash) /\ held /\ todo' = todo /\ wire' = Append(wire, Line("up", flash))
    BY <1>4 DEF Chatter, Spoken
  <2>2. wire' \in Seq(Honest(flash))
    BY <2>1, LineHonest, Longer
  <2> QED BY <1>0, <2>1, <2>2
<1> QED BY <1>1, <1>2, <1>3, <1>4 DEF BoardStep

LEMMA ClearedHeard ==
  ASSUME Heard, Cleared, flash' \in OnBoard, todo' \in Seq(Spoken(flash'))
  PROVE  Heard'
BY NoneYet DEF Heard, Cleared, PortGone

LEMMA MatchesHeard ==
  ASSUME Heard, NEW k \in DOMAIN heard, Matches(k), pc \notin Rewritten
  PROVE  /\ heard' \in Seq(Honest(flash)) /\ heard[k] \in Honest(flash)
         /\ UNCHANGED <<boardVars, wire, held, isoVars, stage, tries, cmd>>
BY Shorter DEF Heard, Matches

LEMMA StepRuns == Step => pc # "idle"
BY DEF Step, QuiesceGivesUp, QuiesceSilent, ProbeResets, ReleaseLines, PullEn, ReleaseEn, LetGo,
       ToolResets, Reopen, PortFails, Hear, Waits, ReadMatched, ReadExpired, Retry, RefuteRun,
       Judging, Accept, DecideWrite, Write, WriteFails, AwaitMatched, AwaitExpired, CaptureEnds,
       CaptureExpired, Succeed, HoledCapture

\* Only a boundary, a wait, and what writes the flash or lets go of the port
\* touch what the lines are held against.
LEMMA StepHeard ==
  ASSUME Heard, Step, pc # "idle"
  PROVE  Heard'
<1> USE DEF Heard, PortGone, Rewritten, Waits
<1>1. CASE QuiesceGivesUp \/ QuiesceSilent
  BY <1>1, NoneYet DEF QuiesceGivesUp, QuiesceSilent, Boundary, boardVars
<1>2. CASE ProbeResets
  <2>1. flash' = flash /\ todo' \in Seq(Spoken(flash))
    BY <1>2, RestartHeard DEF ProbeResets, Restart
  <2>2. wire' \in Seq(Honest(flash)) /\ heard' \in Seq(Honest(flash))
    BY <1>2, AgedHonest DEF ProbeResets, Ages
  <2>3. heard' \in Seq(Lines)
    BY <2>2, HonestLines
  <2>4. pc' \in Waits /\ held' = held
    BY <1>2 DEF ProbeResets, PulseStays, AfterReset
  <2> QED BY <2>1, <2>2, <2>3, <2>4
<1>3. CASE ReleaseLines \/ ReleaseEn
  <2>1. flash' = flash /\ todo' \in Seq(Spoken(flash))
    BY <1>3, LinesHeard DEF ReleaseLines, ReleaseEn
  <2>2. pc \notin Rewritten /\ pc' \in Waits \cup {"pull_en"} /\ UNCHANGED <<wire, heard, held>>
    BY <1>3 DEF ReleaseLines, ReleaseEn, PulseStays, AfterReset
  <2> QED BY <2>1, <2>2
<1>4. CASE PullEn
  <2>1. flash' = flash /\ todo' \in Seq(Spoken(flash))
    BY <1>4, LinesHeard DEF PullEn
  <2>2. wire' \in Seq(Honest(flash)) /\ heard' \in Seq(Honest(flash))
    BY <1>4, AgedHonest DEF PullEn, Ages
  <2>3. heard' \in Seq(Lines)
    BY <2>2, HonestLines
  <2> QED BY <1>4, <2>1, <2>2, <2>3 DEF PullEn, PulseStays
<1>5. CASE LetGo
  BY <1>5, NoneYet DEF LetGo, boardVars
<1>6. CASE ToolResets
  <2>1. flash' = flash /\ todo' \in Seq(Spoken(flash))
    BY <1>6, RestartHeard DEF ToolResets, Restart
  <2> QED BY <1>6, <2>1 DEF ToolResets, waitVars
<1>7. CASE Reopen
  <2>1. flash' = flash /\ todo' \in Seq(Spoken(flash))
    BY <1>7, LinesHeard DEF Reopen
  <2>2. pc' \in Waits \cup {"quiesce"} /\ held' = TRUE /\ UNCHANGED <<wire, heard>>
    BY <1>7 DEF Reopen, AfterReset, waitVars
  <2>3. pc' \in Waits => pc = "reopen"
    BY <1>7 DEF Reopen
  <2> QED BY <2>1, <2>2, <2>3
<1>8. CASE PortFails \/ RefuteRun \/ AwaitExpired \/ CaptureExpired \/ HoledCapture
  <2>1. Cleared /\ UNCHANGED <<flash, todo>>
    BY <1>8 DEF PortFails, RefuteRun, AwaitExpired, CaptureExpired, HoledCapture, Fails, Returns, boardVars
  <2> QED BY <2>1, ClearedHeard
<1>9. CASE Succeed
  <2>1. Cleared /\ UNCHANGED <<flash, todo>>
    BY <1>9 DEF Succeed, Returns, boardVars
  <2> QED BY <2>1, ClearedHeard
<1>10. CASE Hear
  <2>1. wire \in Seq(Honest(flash)) /\ heard \in Seq(Honest(flash)) /\ heard' = heard \o wire
    BY <1>10 DEF Hear
  <2>2. heard' \in Seq(Honest(flash))
    BY <2>1
  <2>3. heard' \in Seq(Lines)
    BY <2>2, HonestLines
  <2> QED BY <1>10, <2>2, <2>3, NoneYet DEF Hear, boardVars
<1>11. CASE ReadMatched \/ AwaitMatched
  <2>1. PICK k \in DOMAIN heard : Matches(k)
    BY <1>11 DEF ReadMatched, AwaitMatched
  <2>2. pc \notin Rewritten /\ pc' \in {"judge", "capture", "finish"}
    BY <1>11 DEF ReadMatched, AwaitMatched
  <2>3. heard' \in Seq(Honest(flash)) /\ UNCHANGED <<boardVars, wire, held>>
    BY <2>1, <2>2, MatchesHeard
  <2>4. heard' \in Seq(Lines)
    BY <2>3, HonestLines
  <2> QED BY <2>2, <2>3, <2>4 DEF boardVars
<1>12. CASE CaptureEnds
  <2>1. pc = "capture" /\ pc' = "finish"
    BY <1>12 DEF CaptureEnds
  <2>2. CASE UNCHANGED <<boardVars, waitVars, held>>
    BY <2>1, <2>2 DEF boardVars, waitVars
  <2>3. ASSUME NEW k \in DOMAIN heard, Matches(k)
        PROVE  Heard'
    <3>1. heard' \in Seq(Honest(flash)) /\ UNCHANGED <<boardVars, wire, held>>
      BY <2>1, <2>3, MatchesHeard
    <3>2. heard' \in Seq(Lines)
      BY <3>1, HonestLines
    <3> QED BY <2>1, <3>1, <3>2 DEF boardVars
  <2> QED BY <1>12, <2>2, <2>3 DEF CaptureEnds
<1>13. CASE ReadExpired \/ Retry \/ Accept \/ DecideWrite
  BY <1>13 DEF ReadExpired, Retry, Accept, DecideWrite, Judging, boardVars, waitVars
<1>14. CASE Write
  <2>1. flash' \in OnBoard /\ todo' \in Seq(Spoken(flash'))
    BY <1>14, RestartHeard DEF Write
  <2> QED BY <1>14, <2>1, NoneYet DEF Write, waitVars
<1>15. CASE WriteFails
  <2>1. Cleared
    BY <1>15 DEF WriteFails, Returns
  <2>2. flash' \in OnBoard /\ todo' \in Seq(Spoken(flash'))
    BY <1>15, RestartHeard, ImagesAssumption DEF WriteFails
  <2> QED BY <2>1, <2>2, ClearedHeard
<1> QED
  BY <1>1, <1>2, <1>3, <1>4, <1>5, <1>6, <1>7, <1>8, <1>9, <1>10, <1>11, <1>12, <1>13, <1>14, <1>15
  DEF Step

LEMMA HeardStep ==
  ASSUME Heard, [Next]_vars
  PROVE  Heard'
<1> USE DEF Heard
<1>1. ASSUME NEW p \in Procs, Claim(p)
      PROVE  Heard'
  BY <1>1 DEF Claim, OthersStay, boardVars, waitVars
<1>2. ASSUME NEW p \in Procs, OpenFails(p)
      PROVE  Heard'
  <2>1. UNCHANGED boardVars \/ SetControlLines(Raised)
    BY <1>2 DEF OpenFails
  <2>2. flash' = flash /\ todo' \in Seq(Spoken(flash))
    BY <2>1, LinesHeard DEF boardVars
  <2> QED BY <1>2, <2>2 DEF OpenFails, waitVars
<1>3. ASSUME NEW p \in Procs, NEW c \in Commands[p], Open(p, c)
      PROVE  Heard'
  <2>1. flash' = flash /\ todo' \in Seq(Spoken(flash))
    BY <1>3, LinesHeard DEF Open
  <2> QED BY <1>3, <2>1, NoneYet DEF Open, PortGone
<1>4. ASSUME NEW p \in Procs, Kill(p)
      PROVE  Heard'
  <2>1. CASE p # runner
    BY <1>4, <2>1 DEF Kill, OthersStay, boardVars, waitVars
  <2>2. CASE p = runner /\ pc = "write"
    <3>1. flash' \in OnBoard /\ todo' \in Seq(Spoken(flash'))
      BY <1>4, <2>2, RestartHeard, ImagesAssumption DEF Kill
    <3> QED BY <1>4, <2>2, <3>1, ClearedHeard DEF Kill
  <2>3. CASE p = runner /\ pc # "write"
    <3>1. Cleared /\ UNCHANGED boardVars
      BY <1>4, <2>3 DEF Kill
    <3> QED BY <3>1, ClearedHeard DEF boardVars
  <2> QED BY <2>1, <2>2, <2>3
<1>5. CASE QuiesceHears
  BY <1>5, NoneYet DEF QuiesceHears, boardVars, PortGone
<1>6. CASE Step
  BY <1>6, StepHeard, StepRuns
<1>7. CASE BoardStep
  BY <1>7, BoardHeard
<1>8. CASE UNCHANGED vars
  BY <1>8 DEF vars, boardVars, waitVars
<1> QED BY <1>1, <1>2, <1>3, <1>4, <1>5, <1>6, <1>7, <1>8 DEF Next, Start

--------------------------------------------------------------------------------
(* Which boot it is of                                                          *)

LEMMA BoardFresh ==
  ASSUME Heard, BoardStep, wire \in Seq(Fresh)
  PROVE  wire' \in Seq(Fresh)
<1> USE DEF Heard
<1>1. CASE Speak
  <2>1. Head(todo) \in Spoken(flash)
    BY <1>1, HeadAndTail DEF Speak
  <2>2. wire' = wire \/ wire' = Append(wire, Line(Head(todo), flash))
    BY <1>1 DEF Speak, Say
  <2> QED BY <2>1, <2>2, LineHonest, Longer
<1>2. CASE Overrun
  <2>1. Head(todo) \in Spoken(flash)
    BY <1>2, HeadAndTail DEF Overrun
  <2>2. ASSUME Head(todo) = "identity", NEW says \in CutSays[flash],
               wire' = Append(wire, [Line("identity", flash) EXCEPT !.says = says, !.cut = TRUE])
        PROVE  wire' \in Seq(Fresh)
    <3>1. Build[flash].app_desc
      BY <2>1, <2>2 DEF Spoken
    <3> QED BY <2>2, <3>1, CutHonest, Longer
  <2> QED BY <1>2, <2>2 DEF Overrun
<1>3. CASE SpeakMarker
  BY <1>3 DEF SpeakMarker
<1>4. CASE Chatter
  <2>1. "up" \in Spoken(flash) /\ wire' = Append(wire, Line("up", flash))
    BY <1>4 DEF Chatter, Spoken
  <2> QED BY <2>1, LineHonest, Longer
<1> QED BY <1>1, <1>2, <1>3, <1>4 DEF BoardStep

LEMMA BoardThisBoot ==
  ASSUME Heard, OfThisBoot, BoardStep
  PROVE  OfThisBoot'
<1>1. UNCHANGED <<pc, heard, isoVars, match>>
  BY DEF BoardStep, Speak, Overrun, SpeakMarker, Chatter, BoardStays
<1> QED BY <1>1, BoardFresh DEF OfThisBoot, isoVars

LEMMA ClearedThisBoot == Cleared => (OfThisBoot /\ MatchIsThisBoot)'
BY DEF Cleared, OfThisBoot, MatchIsThisBoot, BeforeReset, AfterTheReset, Waits

\* A wait takes a line of what was heard, and leaves the rest.
LEMMA MatchesThisBoot ==
  ASSUME Heard, OfThisBoot, NEW k \in DOMAIN heard, Matches(k), pc \in AfterTheReset,
         isolation = "Clean", ~slipped
  PROVE  wire' \in Seq(Fresh) /\ heard' \in Seq(Fresh) /\ "stale" \notin Flaws(heard[k])
<1>1. wire \in Seq(Fresh) /\ heard \in Seq(Fresh)
  BY DEF OfThisBoot
<1>2. heard[k] \in Fresh /\ heard' \in Seq(Fresh)
  BY <1>1, Shorter DEF Matches
<1> QED BY <1>1, <1>2 DEF Matches, Flaws, Fresh

LEMMA StepThisBoot ==
  ASSUME Heard, OfThisBoot, MatchIsThisBoot, Step
  PROVE  (OfThisBoot /\ MatchIsThisBoot)'
<1> USE DEF OfThisBoot, MatchIsThisBoot, BeforeReset, AfterTheReset, Waits
<1>1. CASE QuiesceGivesUp
  BY <1>1 DEF QuiesceGivesUp, Boundary
<1>2. CASE QuiesceSilent
  BY <1>2, NoneYet DEF QuiesceSilent, Boundary
<1>3. CASE ProbeResets \/ PullEn
  <2>1. pc \in {"reset", "pull_en"} /\ pc' \in Waits \cup {"release_en"} /\ UNCHANGED <<isolation, match>>
    BY <1>3 DEF ProbeResets, PullEn, PulseStays, AfterReset
  <2>2. wire' = Aged(wire) /\ heard' = Aged(heard) /\ slipped' = (isolation = "Clean" /\ wire # << >>)
    BY <1>3 DEF ProbeResets, PullEn, Ages
  <2>3. isolation = "Clean" /\ ~slipped' => wire' \in Seq(Fresh) /\ heard' \in Seq(Fresh)
    BY <2>1, <2>2, NothingAged, NoneYet
  <2> QED BY <2>1, <2>3
<1>4. CASE ReleaseLines \/ ReleaseEn
  BY <1>4 DEF ReleaseLines, ReleaseEn, PulseStays, AfterReset
<1>5. CASE LetGo
  BY <1>5, NoneYet DEF LetGo, isoVars
<1>6. CASE ToolResets
  BY <1>6, NoneYet DEF ToolResets, waitVars, Heard, PortGone
<1>7. CASE Reopen
  BY <1>7 DEF Reopen, AfterReset, isoVars, waitVars
<1>8. CASE PortFails \/ RefuteRun \/ AwaitExpired \/ CaptureExpired \/ HoledCapture \/ Succeed \/ WriteFails
  <2>1. Cleared
    BY <1>8 DEF PortFails, RefuteRun, AwaitExpired, CaptureExpired, HoledCapture, Succeed, WriteFails, Fails, Returns
  <2> QED BY <2>1, ClearedThisBoot
<1>9. CASE Hear
  <2>1. pc \in Waits /\ heard' = heard \o wire /\ wire' = << >> /\ UNCHANGED <<pc, match, isoVars>>
    BY <1>9 DEF Hear
  <2>2. heard \in Seq(Fresh) /\ wire \in Seq(Fresh) => heard' \in Seq(Fresh)
    BY <2>1
  <2> QED BY <2>1, <2>2, NoneYet DEF isoVars
<1>10. CASE ReadMatched
  <2>1. PICK k \in DOMAIN heard : Matches(k) /\ match' = Flaws(heard[k])
    BY <1>10 DEF ReadMatched
  <2>2. UNCHANGED isoVars /\ pc \in Waits /\ pc' = "judge"
    BY <1>10, <2>1 DEF ReadMatched, Matches
  <2> QED BY <2>1, <2>2, MatchesThisBoot DEF isoVars
<1>11. CASE AwaitMatched
  <2>1. PICK k \in DOMAIN heard : Matches(k) /\ match' = Flaws(heard[k]) \cup (match \cap {"cut"})
    BY <1>11 DEF AwaitMatched
  <2>2. UNCHANGED isoVars /\ pc \in Waits /\ pc' \in {"capture", "finish"}
    BY <1>11, <2>1 DEF AwaitMatched, Matches
  <2> QED BY <2>1, <2>2, MatchesThisBoot DEF isoVars
<1>12. CASE CaptureEnds
  <2>1. pc \in Waits /\ pc' = "finish"
    BY <1>12 DEF CaptureEnds
  <2>2. CASE UNCHANGED <<isoVars, waitVars, match>>
    BY <2>1, <2>2 DEF isoVars, waitVars
  <2>3. ASSUME NEW k \in DOMAIN heard, Matches(k), match' = Flaws(heard[k]) \cup (match \cap {"cut"})
        PROVE  (OfThisBoot /\ MatchIsThisBoot)'
    <3>1. UNCHANGED isoVars
      BY <2>3 DEF Matches
    <3> QED BY <2>1, <2>3, <3>1, MatchesThisBoot DEF isoVars
  <2> QED BY <1>12, <2>2, <2>3 DEF CaptureEnds
<1>13. CASE ReadExpired \/ Retry \/ Accept \/ DecideWrite
  BY <1>13 DEF ReadExpired, Retry, Accept, DecideWrite, Judging, isoVars, waitVars
<1>14. CASE Write
  BY <1>14 DEF Write, isoVars
<1> QED
  BY <1>1, <1>2, <1>3, <1>4, <1>5, <1>6, <1>7, <1>8, <1>9, <1>10, <1>11, <1>12, <1>13, <1>14
  DEF Step

LEMMA ThisBootStep ==
  ASSUME Heard, OfThisBoot, MatchIsThisBoot, [Next]_vars
  PROVE  (OfThisBoot /\ MatchIsThisBoot)'
<1>1. ASSUME NEW p \in Procs, Claim(p)
      PROVE  (OfThisBoot /\ MatchIsThisBoot)'
  BY <1>1 DEF Claim, OthersStay, isoVars, waitVars, OfThisBoot, MatchIsThisBoot
<1>2. ASSUME NEW p \in Procs, OpenFails(p)
      PROVE  (OfThisBoot /\ MatchIsThisBoot)'
  BY <1>2 DEF OpenFails, isoVars, waitVars, OfThisBoot, MatchIsThisBoot
<1>3. ASSUME NEW p \in Procs, NEW c \in Commands[p], Open(p, c)
      PROVE  (OfThisBoot /\ MatchIsThisBoot)'
  BY <1>3 DEF Open, OfThisBoot, MatchIsThisBoot, BeforeReset, AfterTheReset, Waits
<1>4. ASSUME NEW p \in Procs, Kill(p)
      PROVE  (OfThisBoot /\ MatchIsThisBoot)'
  <2>1. CASE p # runner
    BY <1>4, <2>1 DEF Kill, OthersStay, isoVars, waitVars, OfThisBoot, MatchIsThisBoot
  <2>2. CASE p = runner
    BY <1>4, <2>2, ClearedThisBoot DEF Kill
  <2> QED BY <2>1, <2>2
<1>5. CASE QuiesceHears
  BY <1>5 DEF QuiesceHears, OfThisBoot, MatchIsThisBoot, BeforeReset, AfterTheReset, Waits
<1>6. CASE Step
  BY <1>6, StepThisBoot
<1>7. CASE BoardStep
  <2>1. UNCHANGED <<isoVars, match>>
    BY <1>7 DEF BoardStep, Speak, Overrun, SpeakMarker, Chatter, BoardStays
  <2> QED BY <1>7, <2>1, BoardThisBoot DEF MatchIsThisBoot, isoVars
<1>8. CASE UNCHANGED vars
  BY <1>8 DEF vars, isoVars, waitVars, OfThisBoot, MatchIsThisBoot
<1> QED BY <1>1, <1>2, <1>3, <1>4, <1>5, <1>6, <1>7, <1>8 DEF Next, Start

--------------------------------------------------------------------------------
(* What is concluded                                                            *)

\* The comparison, of the image asked for with each the board may bear.
ElfTold == \A j \in OnBoard : Tells(Elf, j)

\* A capture that confirms the image: its identity is the board's, whole or cut.
LEMMA ConfirmedIsTrue ==
  ASSUME ElfTold, Heard, Concluded, pc = "judge", Confirmed, Want # None
  PROVE  SameFirmware(Elf, flash)
<1>1. /\ MatchedBy(Want, capture.says) /\ Build[flash].app_desc /\ capture.says # None
      /\ capture.says = Says[flash] \/ capture.says \in CutSays[flash]
  BY DEF Confirmed, Concluded
<1>2. flash \in OnBoard /\ Tells(Elf, flash)
  BY DEF ElfTold, Heard
<1>3. CASE capture.says = Says[flash]
  BY <1>1, <1>2, <1>3 DEF Tells, Want, Says
<1>4. CASE capture.says \in CutSays[flash]
  <2>1. PICK text \in CutShort(Printed(flash)) : capture.says = FromLine(text)
    BY <1>2, <1>4 DEF CutSays
  <2> QED BY <1>1, <1>2, <2>1 DEF Tells, Want
<1> QED BY <1>1, <1>3, <1>4

LEMMA ClearedConcluded == Cleared => Concluded'
BY DEF Cleared, Concluded

\* What ensure_image goes on with is the image it was asked for.
LEMMA AcceptedIsTrue ==
  ASSUME ElfTold, Heard, Concluded, Accept
  PROVE  cmd.flags \cap {"expect_image", "ensure_image"} # {} => SameFirmware(Elf, flash)
<1> USE DEF Accept, Judging
<1>1. CASE stage = "verify"
  BY <1>1, ConfirmedIsTrue DEF Refuted, Concluded
<1>2. CASE stage # "verify" /\ "ensure_image" \in cmd.flags /\ stage = "first"
  BY <1>2, ConfirmedIsTrue DEF Refuted, NeedsWrite
<1>3. CASE stage # "verify" /\ "expect_image" \in cmd.flags
  BY <1>3, ConfirmedIsTrue DEF Refuted
<1> QED BY <1>1, <1>2, <1>3 DEF Concluded

LEMMA StepConcluded ==
  ASSUME ElfTold, Heard, Concluded, Step
  PROVE  Concluded'
<1> USE DEF Concluded
<1>1. CASE QuiesceGivesUp \/ QuiesceSilent
  BY <1>1 DEF QuiesceGivesUp, QuiesceSilent, Boundary, boardVars, capVars
<1>2. CASE ProbeResets \/ ReleaseLines \/ PullEn \/ ReleaseEn
  <2>1. pc' \in {"pull_en", "release_en", AfterReset} /\ UNCHANGED <<isolation, capVars, cmd>>
    BY <1>2 DEF ProbeResets, ReleaseLines, PullEn, ReleaseEn, PulseStays
  <2> QED BY <1>2, <2>1, StepRuns DEF AfterReset, WantsIdentity, capVars
<1>3. CASE LetGo
  BY <1>3 DEF LetGo, isoVars, capVars
<1>4. CASE ToolResets
  BY <1>4 DEF ToolResets, capVars
<1>5. CASE Reopen
  <2>1. CASE pc = "reopen"
    <3>1. pc' = AfterReset /\ UNCHANGED <<isoVars, cmd, stage>>
      BY <1>5, <2>1 DEF Reopen
    <3> QED BY <2>1, <3>1 DEF AfterReset, WantsIdentity, isoVars
  <2>2. CASE pc = "reopen_written"
    BY <1>5, <2>2 DEF Reopen, isoVars
  <2> QED BY <1>5, <2>1, <2>2 DEF Reopen
<1>6. CASE PortFails \/ RefuteRun \/ AwaitExpired \/ CaptureExpired \/ HoledCapture \/ Succeed \/ WriteFails
  <2>1. Cleared
    BY <1>6 DEF PortFails, RefuteRun, AwaitExpired, CaptureExpired, HoledCapture, Succeed, WriteFails, Fails, Returns
  <2> QED BY <2>1, ClearedConcluded
<1>7. CASE Hear
  BY <1>7 DEF Hear, Waits, boardVars, capVars, isoVars
<1>8. CASE ReadMatched
  <2>1. PICK k \in DOMAIN heard :
          /\ Matches(k) /\ match' = Flaws(heard[k])
          /\ capture' = IF pc = "identity" /\ heard[k].says # None
                        THEN [kind |-> "Identified", says |-> heard[k].says]
                        ELSE Capture("NoIdentity")
    BY <1>8 DEF ReadMatched
  <2>2. pc \in {"identity", "banner"} /\ pc' = "judge"
    BY <1>8 DEF ReadMatched
  <2>3. heard[k] \in Honest(flash) /\ UNCHANGED <<flash, isolation, stage, cmd>>
    BY <2>1, <2>2, MatchesHeard DEF Rewritten, boardVars, isoVars
  <2>4. pc = "identity" => heard[k].what = "identity"
    BY <2>1 DEF Matches, HitAt, Sought
  <2>5. ASSUME capture'.kind = "Identified"
        PROVE  /\ Build[flash].app_desc /\ capture'.says # None
               /\ capture'.says = Says[flash] \/ ("cut" \in match' /\ capture'.says \in CutSays[flash])
    <3>1. pc = "identity" /\ capture'.says = heard[k].says /\ heard[k].says # None
      BY <2>1, <2>5 DEF Capture
    <3>2. "cut" \in match' <=> heard[k].cut
      BY <2>1 DEF Flaws
    <3> QED BY <2>3, <2>4, <3>1, <3>2 DEF Honest
  <2> QED BY <2>2, <2>3, <2>5
<1>9. CASE ReadExpired
  <2>1. pc' = "banner" \/ (pc' = "judge" /\ capture'.kind # "Identified")
    BY <1>9 DEF ReadExpired, Capture
  <2> QED BY <1>9, <2>1 DEF ReadExpired, isoVars
<1>10. CASE Retry \/ DecideWrite
  BY <1>10 DEF Retry, DecideWrite, NeedsWrite, Refuted, Judging, isoVars
<1>11. CASE Accept
  BY <1>11, AcceptedIsTrue DEF Accept, isoVars, boardVars
<1>12. CASE Write
  BY <1>12 DEF Write, isoVars, capVars
<1>13. CASE AwaitMatched \/ CaptureEnds
  BY <1>13 DEF AwaitMatched, CaptureEnds, Matches, isoVars, boardVars
<1> QED
  BY <1>1, <1>2, <1>3, <1>4, <1>5, <1>6, <1>7, <1>8, <1>9, <1>10, <1>11, <1>12, <1>13 DEF Step

LEMMA ConcludedStep ==
  ASSUME ElfTold, Heard, Concluded, [Next]_vars
  PROVE  Concluded'
<1>1. ASSUME NEW p \in Procs, Claim(p)
      PROVE  Concluded'
  BY <1>1 DEF Claim, OthersStay, boardVars, capVars, isoVars, Concluded
<1>2. ASSUME NEW p \in Procs, OpenFails(p)
      PROVE  Concluded'
  <2>1. flash' = flash
    BY <1>2, LinesHeard DEF OpenFails, boardVars
  <2> QED BY <1>2, <2>1 DEF OpenFails, capVars, isoVars, Concluded
<1>3. ASSUME NEW p \in Procs, NEW c \in Commands[p], Open(p, c)
      PROVE  Concluded'
  BY <1>3 DEF Open, Concluded
<1>4. ASSUME NEW p \in Procs, Kill(p)
      PROVE  Concluded'
  <2>1. CASE p # runner
    BY <1>4, <2>1 DEF Kill, OthersStay, boardVars, capVars, isoVars, Concluded
  <2>2. CASE p = runner
    BY <1>4, <2>2, ClearedConcluded DEF Kill
  <2> QED BY <2>1, <2>2
<1>5. CASE QuiesceHears
  BY <1>5 DEF QuiesceHears, capVars, Concluded
<1>6. CASE Step
  BY <1>6, StepConcluded
<1>7. CASE BoardStep
  <2>1. UNCHANGED <<flash, pc, capVars, isoVars, cmd, match>>
    BY <1>7 DEF BoardStep, Speak, Overrun, SpeakMarker, Chatter, BoardStays
  <2> QED BY <2>1 DEF capVars, isoVars, Concluded
<1>8. CASE UNCHANGED vars
  BY <1>8 DEF vars, boardVars, capVars, isoVars, Concluded
<1> QED BY <1>1, <1>2, <1>3, <1>4, <1>5, <1>6, <1>7, <1>8 DEF Next, Start

--------------------------------------------------------------------------------
(* The theorems                                                                 *)

VerdictRule ==
  Succeed =>
    /\ "read_identity" \in cmd.flags /\ "cut" \notin match => capture.says = Says[flash]
    /\ "read_identity" \notin cmd.flags /\ cmd.flags \cap {"expect_image", "ensure_image"} # {}
         => SameFirmware(Elf, flash)

\* A run succeeds at its end, or with an identity that was to be read only.
LEMMA SuccessIsTrue ==
  ASSUME Concluded
  PROVE  VerdictRule
<1> SUFFICES ASSUME Succeed
             PROVE  /\ "read_identity" \in cmd.flags /\ "cut" \notin match => capture.says = Says[flash]
                    /\ "read_identity" \notin cmd.flags /\ cmd.flags \cap {"expect_image", "ensure_image"} # {}
                         => SameFirmware(Elf, flash)
  BY DEF VerdictRule
<1>1. CASE pc = "finish"
  BY <1>1 DEF Concluded
<1>2. CASE Judging /\ ~Refuted /\ "read_identity" \in cmd.flags
  BY <1>2 DEF Judging, Refuted, Concluded
<1> QED BY <1>1, <1>2 DEF Succeed

\* No wait is answered by the boot before the reset, on a board that had fallen
\* silent and stayed so until it was reset (a reset recorded as Clean shows only
\* that it had), for any images, command lines and hosts, whatever is lost,
\* written or killed.
THEOREM ThisBootMatched == Spec => []MatchIsThisBoot
<1>1. Init => Heard /\ OfThisBoot /\ MatchIsThisBoot
  BY RunInit DEF RunInv
<1>2. Heard /\ OfThisBoot /\ MatchIsThisBoot /\ [Next]_vars
        => (Heard /\ OfThisBoot /\ MatchIsThisBoot)'
  BY HeardStep, ThisBootStep
<1> QED BY <1>1, <1>2, PTL DEF Spec

\* A run that succeeds vouches for the image that is on the board, whatever the
\* board bore before, whatever was lost or written in vain, if the comparison
\* tells the image asked for from those the board may bear.
THEOREM VerdictsTrue == ElfTold => (Spec => VerdictTrue)
<1> SUFFICES ASSUME ElfTold
             PROVE  Spec => VerdictTrue
  OBVIOUS
<1>1. Init => Heard /\ Concluded
  BY RunInit DEF RunInv
<1>2. Heard /\ Concluded /\ [Next]_vars => (Heard /\ Concluded)'
  BY HeardStep, ConcludedStep
<1>3. Heard /\ Concluded /\ [Next]_vars => [VerdictRule]_vars
  BY SuccessIsTrue
<1> QED BY <1>1, <1>2, <1>3, PTL DEF Spec, VerdictTrue, VerdictRule

--------------------------------------------------------------------------------
(* What a capture without an identity tells: nothing the board said is missed   *)
(* without a mark, but by a reset that lets go of the port.                     *)

\* The images that are the firmware asked for boot, and say what they are.
ElfBoots == \A j \in OnBoard : SameFirmware(Elf, j) => j \notin Dead /\ Build[j].app_desc /\ Says[j] # None

Boots == flash \notin Dead /\ Build[flash].app_desc /\ Says[flash] # None

Names(lines) == \E k \in DOMAIN lines : lines[k].what = "identity"

\* The identity is still to be printed, on its way or heard; or its loss is.
Coming ==
  \/ \E k \in DOMAIN todo : todo[k] = "identity"
  \/ Names(wire) \/ Names(heard)
  \/ owed \/ marker \/ holed

NothingMissed ==
  /\ pc \notin PortGone \cup {"idle"} => held
  /\ pc \in {"tool_reset", "reopen"} => route = "espflash"
  /\ tries \in 0..Tries
  /\ Boots /\ route # "espflash" =>
       /\ pc = "release_en" => inReset \/ Coming
       /\ pc = "identity" => Coming
       /\ pc = "banner" => holed
       /\ pc = "judge" => holed \/ match # {} \/ capture.kind = "Identified"

LEMMA MissedInit == Init => NothingMissed
BY OtherAssumption DEF Init, NothingMissed

LEMMA BootNames ==
  ASSUME Boots
  PROVE  Boot(flash) = <<"identity", "banner", "up">> /\ \E k \in DOMAIN Boot(flash) : Boot(flash)[k] = "identity"
<1>1. Boot(flash) = <<"identity", "banner", "up">>
  BY DEF Boots, Boot
<1>2. 1 \in DOMAIN Boot(flash) /\ Boot(flash)[1] = "identity"
  BY <1>1
<1> QED BY <1>1, <1>2

\* A restart is to name the image again.
LEMMA LinesComing ==
  ASSUME Boots, NEW want, SetControlLines(want), ~EnLow(want), inReset \/ Coming, UNCHANGED <<wire, heard, marker, holed>>
  PROVE  Coming'
<1>1. CASE inReset
  <2>1. todo' = Boot(flash)
    BY <1>1 DEF SetControlLines, Restart
  <2> QED BY <2>1, BootNames DEF Coming
<1>2. CASE ~inReset
  BY <1>2 DEF SetControlLines, boardVars, Coming, Names
<1> QED BY <1>1, <1>2

LEMMA NamesMore ==
  ASSUME NEW S, NEW s \in Seq(S), NEW t \in Seq(S)
  PROVE  Names(s) \/ Names(t) => Names(s \o t)
<1>1. ASSUME NEW k \in DOMAIN s, s[k].what = "identity" PROVE Names(s \o t)
  <2>1. k \in DOMAIN (s \o t) /\ (s \o t)[k] = s[k]
    OBVIOUS
  <2> QED BY <1>1, <2>1 DEF Names
<1>2. ASSUME NEW k \in DOMAIN t, t[k].what = "identity" PROVE Names(s \o t)
  <2>1. Len(s) + k \in DOMAIN (s \o t) /\ (s \o t)[Len(s) + k] = t[k]
    OBVIOUS
  <2> QED BY <1>2, <2>1 DEF Names
<1> QED BY <1>1, <1>2 DEF Names

LEMMA NamesAppended ==
  ASSUME NEW S, NEW s \in Seq(S), NEW l
  PROVE  Names(s) \/ l.what = "identity" => Names(Append(s, l))
<1>1. ASSUME NEW k \in DOMAIN s, s[k].what = "identity" PROVE Names(Append(s, l))
  <2>1. k \in DOMAIN Append(s, l) /\ Append(s, l)[k] = s[k]
    OBVIOUS
  <2> QED BY <1>1, <2>1 DEF Names
<1>2. ASSUME l.what = "identity" PROVE Names(Append(s, l))
  <2>1. Len(s) + 1 \in DOMAIN Append(s, l) /\ Append(s, l)[Len(s) + 1] = l
    OBVIOUS
  <2> QED BY <1>2, <2>1 DEF Names
<1> QED BY <1>1, <1>2 DEF Names

LEMMA HeadOrTail ==
  ASSUME NEW S, NEW s \in Seq(S), s # << >>, NEW x, \E k \in DOMAIN s : s[k] = x, Head(s) # x
  PROVE  \E k \in DOMAIN Tail(s) : Tail(s)[k] = x
<1>1. PICK k \in DOMAIN s : s[k] = x
  OBVIOUS
<1>2. k # 1 /\ k \in 1..Len(s)
  BY <1>1
<1>3. k - 1 \in DOMAIN Tail(s) /\ Tail(s)[k - 1] = x
  BY <1>1, <1>2
<1> QED BY <1>3

\* While the run listens, what leaves the board is on its way, or owed.
LEMMA BoardComing ==
  ASSUME Heard, BoardStep, held, Coming
  PROVE  Coming'
<1>0. UNCHANGED <<heard, holed, held>> /\ wire \in Seq(Honest(flash)) /\ todo \in Seq(Spoken(flash))
  BY DEF BoardStep, Speak, Overrun, SpeakMarker, Chatter, BoardStays, Heard
<1>1. Names(heard)' = Names(heard)
  BY <1>0 DEF Names
<1>2. CASE Speak
  <2>1. wire' = Append(wire, Line(Head(todo), flash)) /\ owed' = owed /\ marker' = marker /\ todo' = Tail(todo) /\ todo # << >>
    BY <1>2 DEF Speak, Say
  <2>2. Line(Head(todo), flash).what = Head(todo)
    BY DEF Line
  <2>3. Names(wire) \/ Head(todo) = "identity" => Names(wire')
    BY <1>0, <2>1, <2>2, NamesAppended
  <2>4. (\E k \in DOMAIN todo : todo[k] = "identity") /\ Head(todo) # "identity" => \E k \in DOMAIN todo' : todo'[k] = "identity"
    BY <1>0, <2>1, HeadOrTail
  <2>5. Names(wire)' = Names(wire')
    BY DEF Names
  <2> QED BY <1>0, <1>1, <2>1, <2>3, <2>4, <2>5 DEF Coming
<1>3. CASE Overrun
  BY <1>3 DEF Overrun, Coming
<1>4. CASE SpeakMarker
  <2>1. marker' = TRUE
    BY <1>4 DEF SpeakMarker
  <2> QED BY <2>1 DEF Coming
<1>5. CASE Chatter
  <2>1. wire' = Append(wire, Line("up", flash)) /\ UNCHANGED <<todo, owed, marker>>
    BY <1>5 DEF Chatter
  <2>2. Names(wire) => Names(wire')
    BY <1>0, <2>1, NamesAppended
  <2>3. Names(wire)' = Names(wire')
    BY DEF Names
  <2> QED BY <1>0, <1>1, <2>1, <2>2, <2>3 DEF Coming
<1> QED BY <1>2, <1>3, <1>4, <1>5 DEF BoardStep

LEMMA StepMissed ==
  ASSUME Heard, NothingMissed, Step
  PROVE  NothingMissed'
<1> USE OtherAssumption DEF NothingMissed, PortGone, route
<1>1. CASE QuiesceGivesUp \/ QuiesceSilent
  BY <1>1 DEF QuiesceGivesUp, QuiesceSilent, Boundary, capVars
<1>2. CASE ProbeResets
  <2>1. /\ UNCHANGED <<flash, cmd, held, tries>> /\ todo' = Boot(flash) /\ pc = "reset"
        /\ pc' \in {"identity", "await", "capture"}
    BY <1>2 DEF ProbeResets, Restart, PulseStays, capVars, AfterReset
  <2>2. Boots => Coming'
    BY <2>1, BootNames DEF Coming
  <2> QED BY <2>1, <2>2 DEF Boots
<1>3. CASE ReleaseLines
  BY <1>3 DEF ReleaseLines, PulseStays, capVars
<1>4. CASE PullEn
  <2>1. inReset' = TRUE
    BY <1>4 DEF PullEn, SetControlLines, EnLow, RESET
  <2> QED BY <1>4, <2>1 DEF PullEn, PulseStays, capVars
<1>5. CASE ReleaseEn
  <2>1. /\ UNCHANGED <<cmd, held, tries>> /\ pc = "release_en"
        /\ pc' \in {"identity", "await", "capture"}
    BY <1>5 DEF ReleaseEn, PulseStays, capVars, AfterReset
  <2>2. flash' = flash /\ ~EnLow(IDLE)
    BY <1>5, LinesHeard DEF ReleaseEn, EnLow, IDLE
  <2>3. ASSUME Boots, route # "espflash" PROVE Coming'
    <3>1. inReset \/ Coming
      BY <2>1, <2>3
    <3>2. SetControlLines(IDLE) /\ UNCHANGED <<wire, heard, marker, holed>>
      BY <1>5 DEF ReleaseEn, PulseStays
    <3> QED BY <2>2, <2>3, <3>1, <3>2, LinesComing
  <2> QED BY <2>1, <2>2, <2>3 DEF Boots
<1>6. CASE LetGo \/ ToolResets
  BY <1>6 DEF LetGo, ToolResets, boardVars, capVars
<1>7. CASE Reopen
  <2>1. CASE pc = "reopen"
    <3>1. pc' \in {"identity", "await", "capture"} /\ UNCHANGED <<cmd, tries>> /\ held' = TRUE
      BY <1>7, <2>1 DEF Reopen, AfterReset
    <3> QED BY <2>1, <3>1
  <2>2. CASE pc = "reopen_written"
    BY <1>7, <2>2 DEF Reopen
  <2> QED BY <1>7, <2>1, <2>2 DEF Reopen
<1>8. CASE PortFails \/ RefuteRun \/ AwaitExpired \/ CaptureExpired \/ HoledCapture \/ Succeed \/ WriteFails
  <2>1. Cleared
    BY <1>8 DEF PortFails, RefuteRun, AwaitExpired, CaptureExpired, HoledCapture, Succeed, WriteFails, Fails, Returns
  <2> QED BY <2>1 DEF Cleared
<1>9. CASE Hear
  <2>1. /\ pc \in Waits /\ UNCHANGED <<pc, cmd, held, flash, todo, owed, inReset, tries, capture, match>>
        /\ heard' = heard \o wire /\ holed' = (holed \/ marker)
    BY <1>9 DEF Hear, boardVars, capVars
  <2>2. pc = "identity" => heard \in Seq(Honest(flash)) /\ wire \in Seq(Honest(flash))
    BY DEF Heard, Rewritten
  <2>3. pc = "identity" => (Names(heard) \/ Names(wire) => Names(heard'))
    BY <2>1, <2>2, NamesMore
  <2>4. Names(heard)' = Names(heard')
    BY DEF Names
  <2>5. holed \/ marker => holed'
    BY <2>1
  <2>6. pc = "identity" /\ Coming => Coming'
    BY <2>1, <2>3, <2>4, <2>5 DEF Coming
  <2> QED BY <2>1, <2>5, <2>6 DEF Boots, Waits
<1>10. CASE ReadMatched
  <2>1. PICK k \in DOMAIN heard :
          /\ Matches(k) /\ match' = Flaws(heard[k])
          /\ capture' = IF pc = "identity" /\ heard[k].says # None
                        THEN [kind |-> "Identified", says |-> heard[k].says]
                        ELSE Capture("NoIdentity")
    BY <1>10 DEF ReadMatched
  <2>2. pc \in {"identity", "banner"} /\ pc' = "judge"
    BY <1>10 DEF ReadMatched
  <2>3. heard[k] \in Honest(flash) /\ UNCHANGED <<flash, cmd, held, tries, holed>>
    BY <2>1, <2>2, MatchesHeard DEF Rewritten, boardVars, Matches
  <2>4. pc = "identity" => heard[k].what = "identity"
    BY <2>1 DEF Matches, HitAt, Sought
  <2>5. pc = "identity" /\ Boots /\ heard[k].says = None => "cut" \in match'
    BY <2>1, <2>3, <2>4 DEF Honest, Flaws, Boots
  <2>6. pc = "identity" /\ heard[k].says # None => capture'.kind = "Identified"
    BY <2>1
  <2> QED BY <2>2, <2>3, <2>5, <2>6 DEF Boots
<1>11. CASE ReadExpired
  <2>1. /\ pc \in {"identity", "banner"} /\ pc' \in {"banner", "judge"}
        /\ UNCHANGED <<flash, cmd, held, tries, holed>> /\ Expires
    BY <1>11 DEF ReadExpired, boardVars, waitVars
  <2>2. pc = "identity" => (Coming => holed)
    BY <2>1 DEF Expires, NoHit, Sought, Coming, Names
  <2> QED BY <2>1, <2>2 DEF Boots
<1>12. CASE Retry \/ Accept \/ DecideWrite
  <2>1. tries' \in 0..Tries
    BY <1>12 DEF Retry, Accept, DecideWrite
  <2> QED BY <1>12, <2>1 DEF Retry, Accept, DecideWrite, Judging
<1>13. CASE Write
  BY <1>13 DEF Write, capVars
<1>14. CASE AwaitMatched \/ CaptureEnds
  BY <1>14 DEF AwaitMatched, CaptureEnds, Matches
<1> QED
  BY <1>1, <1>2, <1>3, <1>4, <1>5, <1>6, <1>7, <1>8, <1>9, <1>10, <1>11, <1>12, <1>13, <1>14 DEF Step

LEMMA MissedStep ==
  ASSUME Heard, NothingMissed, [Next]_vars
  PROVE  NothingMissed'
<1>1. ASSUME UNCHANGED <<boardVars, waitVars, capVars, pc, cmd, held, match>>
      PROVE  NothingMissed'
  BY <1>1 DEF NothingMissed, boardVars, waitVars, capVars, Boots, Coming, Names, route
<1>2. ASSUME NEW p \in Procs, Claim(p)
      PROVE  NothingMissed'
  BY <1>1, <1>2 DEF Claim, OthersStay
<1>3. ASSUME NEW p \in Procs, OpenFails(p)
      PROVE  NothingMissed'
  <2>1. CASE UNCHANGED boardVars
    BY <1>1, <1>3, <2>1 DEF OpenFails
  <2>2. CASE SetControlLines(Raised)
    <3>1. UNCHANGED <<waitVars, capVars, pc, cmd, held, match>>
      BY <1>3 DEF OpenFails
    <3>2. flash' = flash /\ ~EnLow(Raised)
      BY <2>2, LinesHeard DEF EnLow, Raised
    <3>3. Boots /\ (inReset \/ Coming) => Coming'
      BY <2>2, <3>1, <3>2, LinesComing DEF waitVars
    <3>4. Boots' = Boots
      BY <3>2 DEF Boots
    <3> QED BY <3>1, <3>2, <3>3, <3>4 DEF NothingMissed, waitVars, capVars, route
  <2> QED BY <1>3, <2>1, <2>2 DEF OpenFails
<1>4. ASSUME NEW p \in Procs, NEW c \in Commands[p], Open(p, c)
      PROVE  NothingMissed'
  BY <1>4, OtherAssumption DEF Open, NothingMissed
<1>5. ASSUME NEW p \in Procs, Kill(p)
      PROVE  NothingMissed'
  <2>1. CASE p # runner
    BY <1>1, <1>5, <2>1 DEF Kill, OthersStay
  <2>2. CASE p = runner
    <3>1. Cleared
      BY <1>5, <2>2 DEF Kill
    <3> QED BY <3>1, OtherAssumption DEF Cleared, NothingMissed
  <2> QED BY <2>1, <2>2
<1>6. CASE QuiesceHears
  BY <1>6 DEF QuiesceHears, NothingMissed, capVars
<1>7. CASE Step
  BY <1>7, StepMissed
<1>8. CASE BoardStep
  <2>1. UNCHANGED <<pc, cmd, match, holed, flash, capVars, held>> /\ inReset' = inReset
    BY <1>8, BoardStepStays DEF BoardStep, Speak, Overrun, SpeakMarker, Chatter, BoardStays
  <2>2. held /\ Coming => Coming'
    BY <1>8, BoardComing
  <2> QED BY <2>1, <2>2 DEF NothingMissed, capVars, Boots, PortGone, route
<1>9. CASE UNCHANGED vars
  BY <1>1, <1>9 DEF vars
<1> QED BY <1>2, <1>3, <1>4, <1>5, <1>6, <1>7, <1>8, <1>9 DEF Next, Start

WriteRule ==
  DecideWrite => \/ ~SameFirmware(Elf, flash)
                 \/ holed /\ tries = Tries
                 \/ match # {}
                 \/ route = "espflash"

\* A capture with neither a hole nor a flaw has the identity of the image, and
\* the comparison confirms it.
LEMMA WriteHasReason ==
  ASSUME ElfTold, ElfBoots, Heard, Concluded, NothingMissed
  PROVE  WriteRule
<1> SUFFICES ASSUME DecideWrite, SameFirmware(Elf, flash), ~(holed /\ tries = Tries), match = {}, route # "espflash"
             PROVE  FALSE
  BY DEF WriteRule
<1>1. pc = "judge" /\ ~(holed /\ tries < Tries) /\ ~Refuted /\ NeedsWrite
  BY DEF DecideWrite, Judging
<1>2. ~holed
  BY <1>1, OtherAssumption DEF NothingMissed
<1>3. Boots
  BY DEF ElfBoots, Boots, Heard
<1>4. capture.kind = "Identified" /\ capture.says = Says[flash]
  BY <1>1, <1>2, <1>3 DEF NothingMissed, Concluded
<1>5. Want # None
  BY <1>1 DEF Refuted, NeedsWrite
<1>6. flash \in OnBoard /\ Tells(Elf, flash) /\ Build[flash].app_desc
  BY <1>3 DEF ElfTold, Heard, Boots
<1>7. Confirmed
  BY <1>4, <1>5, <1>6 DEF Confirmed, Tells, Want, Says
<1> QED BY <1>1, <1>2, <1>7 DEF NeedsWrite

\* A board that runs the image is written only after a hole in every capture, on
\* lines of the boot before or cut short, or where the reset lets go of the port,
\* for any images that boot and say so, command lines, hosts and number of tries.
THEOREM WritesHaveReason == ElfTold /\ ElfBoots => (Spec => NoNeedlessWrite)
<1> SUFFICES ASSUME ElfTold, ElfBoots
             PROVE  Spec => NoNeedlessWrite
  OBVIOUS
<1> DEFINE Inv == Heard /\ Concluded /\ NothingMissed
<1>1. Init => Inv
  BY RunInit, MissedInit DEF RunInv
<1>2. Inv /\ [Next]_vars => Inv'
  BY HeardStep, ConcludedStep, MissedStep
<1>3. Inv /\ [Next]_vars => [WriteRule]_vars
  BY WriteHasReason
<1> QED BY <1>1, <1>2, <1>3, PTL DEF Spec, NoNeedlessWrite, WriteRule

--------------------------------------------------------------------------------
(* The names of images. *)

LEMMA MinOfTwo ==
  ASSUME NEW m \in Nat, NEW n \in Nat
  PROVE  Min({m, n}) = IF m < n THEN m ELSE n
<1>1. CASE m < n
  <2>1. \A x \in {m, n} : (\A y \in {m, n} : x <= y) <=> x = m
    BY <1>1
  <2> QED BY <1>1, <2>1 DEF Min
<1>2. CASE m >= n
  <2>1. \A x \in {m, n} : (\A y \in {m, n} : x <= y) <=> x = n
    BY <1>2
  <2> QED BY <1>2, <2>1 DEF Min
<1> QED BY <1>1, <1>2

LEMMA DigitsAre ==
  ASSUME NEW s \in Seq(Nat), NEW n \in Nat, n <= Len(s)
  PROVE  /\ Digits(s, n) \in Seq(Nat) /\ Len(Digits(s, n)) = n
         /\ \A k \in 1..n : Digits(s, n)[k] = s[k]
<1>1. Len(s) \in Nat
  BY LenProperties
<1>2. Digits(s, n) = SubSeq(s, 1, n)
  BY <1>1, MinOfTwo DEF Digits
<1> QED BY <1>1, <1>2, SubSeqProperties, ElementOfSeq

\* A file's own descriptor is the first that is right.
LEMMA OwnDescriptor ==
  ASSUME NEW i \in Images
  PROVE  FromElf(i) = IF Build[i].app_desc THEN Descriptor(Build[i]) ELSE None
<1> DEFINE b == Build[i]
           desc == Descriptor(b)
           Word == [whole : BOOLEAN, plausible : BOOLEAN, desc : {None, desc}]
           chance == [k \in DOMAIN b.chance |->
                        [whole |-> b.chance[k].whole, plausible |-> b.chance[k].plausible, desc |-> None]]
           last == [whole |-> TRUE, plausible |-> TRUE, desc |-> desc]
           own == IF b.app_desc THEN <<last>> ELSE << >>
           all == Candidates(i)
           n == Len(b.chance)
<1>1. /\ b.chance \in Seq([whole : BOOLEAN, plausible : BOOLEAN]) /\ b.app_desc \in BOOLEAN
      /\ \A c \in Range(b.chance) : ~(c.whole /\ c.plausible)
  BY BuildAssumption
<1>2. n \in Nat /\ DOMAIN b.chance = 1..n
      /\ \A k \in 1..n : b.chance[k] \in [whole : BOOLEAN, plausible : BOOLEAN]
  BY <1>1, LenProperties, ElementOfSeq
<1>3. \A k \in 1..n : ~(b.chance[k].whole /\ b.chance[k].plausible)
  BY <1>1, <1>2 DEF Range
<1>4. chance \in Seq(Word) /\ Len(chance) = n
      /\ \A k \in 1..n : ~(chance[k].whole /\ chance[k].plausible)
  <2>1. \A k \in 1..n : chance[k] \in Word /\ ~(chance[k].whole /\ chance[k].plausible)
    BY <1>2, <1>3
  <2>2. chance = [k \in 1..n |-> chance[k]]
    BY <1>2
  <2> HIDE DEF chance, Word
  <2>3. chance \in [1..n -> Word]
    BY <2>1, <2>2
  <2> QED BY <1>2, <2>1, <2>3, SeqDef, LenProperties
<1>5. /\ own \in Seq(Word) /\ Len(own) = (IF b.app_desc THEN 1 ELSE 0)
      /\ b.app_desc => own[1] = last
  <2>1. last \in Word
    OBVIOUS
  <2> HIDE DEF last, Word
  <2>2. CASE b.app_desc
    BY <2>1, <2>2
  <2>3. CASE ~b.app_desc
    BY <2>3, EmptySeq
  <2> QED BY <1>1, <2>2, <2>3
<1>6. all = chance \o own /\ last.whole /\ last.plausible /\ last.desc = desc
  BY DEF Candidates
<1> HIDE DEF chance, own, all, desc, b, n, last, Word
<1>7. /\ Len(all) = n + Len(own) /\ DOMAIN all = 1..Len(all)
      /\ \A k \in 1..n : all[k] = chance[k]
      /\ b.app_desc => all[n + 1] = last
  <2>1. all \in Seq(Word) /\ Len(all) = Len(chance) + Len(own)
        /\ \A k \in 1..(Len(chance) + Len(own)) :
             all[k] = IF k <= Len(chance) THEN chance[k] ELSE own[k - Len(chance)]
    BY <1>4, <1>5, <1>6, ConcatProperties
  <2>2. \A k \in 1..n : all[k] = chance[k]
    BY <1>2, <1>4, <1>5, <2>1
  <2>3. ASSUME b.app_desc PROVE all[n + 1] = last
    <3>1. n + 1 \in 1..(n + 1) /\ ~(n + 1 <= n) /\ (n + 1) - n = 1
      BY <1>2
    <3>2. Len(own) = 1 /\ own[1] = last
      BY <1>5, <2>3
    <3> QED BY <1>4, <2>1, <3>1, <3>2
  <2> QED BY <1>4, <2>1, <2>2, <2>3, LenProperties
<1> DEFINE right == {k \in DOMAIN all : all[k].whole /\ all[k].plausible}
<1>8. FromElf(i) = IF right = {} THEN None ELSE all[Min(right)].desc
  BY DEF FromElf, all
<1>9. CASE ~b.app_desc
  <2>1. DOMAIN all = 1..n
    BY <1>2, <1>5, <1>7, <1>9
  <2>2. right = {}
    BY <1>4, <1>7, <2>1
  <2> QED BY <1>8, <1>9, <2>2 DEF b
<1>10. CASE b.app_desc
  <2>1. DOMAIN all = 1..(n + 1) /\ all[n + 1] = last
    BY <1>2, <1>5, <1>7, <1>10
  <2>2. right = {n + 1}
    <3>1. \A k \in 1..(n + 1) : k \in 1..n \/ k = n + 1
      BY <1>2
    <3>2. n + 1 \in 1..(n + 1) /\ n + 1 \notin 1..n
      BY <1>2
    <3> QED BY <1>4, <1>6, <1>7, <2>1, <3>1, <3>2
  <2>3. Min({n + 1}) = n + 1
    BY <1>2 DEF Min
  <2> HIDE DEF right
  <2>4. FromElf(i) = desc
    BY <1>6, <1>8, <2>1, <2>2, <2>3
  <2> QED BY <1>10, <2>4 DEF b, desc
<1> QED BY <1>1, <1>9, <1>10

\* The hash a board prints, and what is left of it when the line is cut.
LEMMA PrintedHash ==
  ASSUME NEW j \in Images
  PROVE  LET b == Build[j]
             hash == Digits(Stored(b), HASH_PREFIX_LEN)
         IN  /\ hash \in Seq(Nat) /\ Len(hash) = HASH_PREFIX_LEN
             /\ \A k \in 1..HASH_PREFIX_LEN :
                  hash[k] = IF b.patched THEN b.sha256[k] ELSE 0
             /\ b.patched => hash = Digits(b.sha256, HASH_PREFIX_LEN)
<1> DEFINE b == Build[j]
<1>1. b.sha256 \in Seq(Nat) /\ Len(b.sha256) >= HASH_PREFIX_LEN /\ HASH_PREFIX_LEN \in Nat
  BY BuildAssumption, LengthAssumption
<1>2. Len(b.sha256) \in Nat /\ DOMAIN b.sha256 = 1..Len(b.sha256)
  BY <1>1, LenProperties
<1>3. CASE b.patched
  BY <1>1, <1>2, <1>3, DigitsAre DEF Stored
<1>4. CASE ~b.patched
  <2> DEFINE z == [k \in 1..Len(b.sha256) |-> 0]
  <2>1. z \in Seq(Nat) /\ Len(z) = Len(b.sha256) /\ \A k \in 1..Len(b.sha256) : z[k] = 0
    <3>1. z \in [1..Len(b.sha256) -> Nat]
      OBVIOUS
    <3> QED BY <1>2, <3>1, SeqDef, LenProperties
  <2>2. Stored(b) = z
    BY <1>2, <1>4 DEF Stored
  <2> HIDE DEF z
  <2>3. /\ Stored(b) \in Seq(Nat) /\ Len(Stored(b)) = Len(b.sha256)
        /\ \A k \in 1..HASH_PREFIX_LEN : Stored(b)[k] = 0
    BY <1>1, <1>2, <2>1, <2>2
  <2> HIDE DEF b
  <2> QED BY <1>1, <1>4, <2>3, DigitsAre DEF b
<1> QED BY <1>3, <1>4

\* Marks, names and versions alone tell two builds apart.
LEMMA MarksTell ==
  ASSUME MarksReadable, NamesApart, NEW i \in Images, NEW j \in Images, NEW have,
         have.mark = Printed(j)[1], have.version = Printed(j)[2]
  PROVE  LET a == Build[i]
             b == Build[j]
             want == Descriptor(a)
         IN  (have.mark = want.version \/ (have.mark = want.project_name /\ have.version = want.version))
                <=> /\ a.identity = b.identity
                    /\ IF a.identity
                       THEN a.name = b.name /\ a.features = b.features /\ Abbreviated(a) = Abbreviated(b)
                       ELSE a.bin = b.bin /\ a.version = b.version
<1> DEFINE a == Build[i]
           b == Build[j]
           A == a.name \o Mark(a)
           B == b.name \o Mark(b)
<1>1. a.identity \in BOOLEAN /\ b.identity \in BOOLEAN
  BY BuildAssumption
<1>2. /\ Descriptor(a).version = IF a.identity THEN A ELSE <<a.version>>
      /\ Descriptor(a).project_name = <<a.bin>>
      /\ have.mark = IF b.identity THEN B ELSE <<b.bin>>
      /\ have.version = <<b.version>>
  BY DEF Descriptor, Printed
<1>3. /\ a.identity => A \notin {<<b.bin>>, <<b.version>>}
      /\ b.identity => B \notin {<<a.bin>>, <<a.version>>}
      /\ b.bin # a.version
  BY DEF NamesApart
<1>4. a.identity /\ b.identity =>
        (A = B <=> a.name = b.name /\ a.features = b.features /\ Abbreviated(a) = Abbreviated(b))
  <2>1. a.identity /\ b.identity /\ A = B =>
          a.name = b.name /\ a.features = b.features /\ Abbreviated(a) = Abbreviated(b)
    BY DEF MarksReadable
  <2>2. a.name = b.name /\ a.features = b.features /\ Abbreviated(a) = Abbreviated(b) => A = B
    BY DEF Mark
  <2> QED BY <2>1, <2>2
<1>5. \A x, y : <<x>> = <<y>> <=> x = y
  OBVIOUS
<1> HIDE DEF A, B
<1>6. CASE a.identity /\ b.identity
  BY <1>1, <1>2, <1>3, <1>4, <1>6
<1>7. CASE a.identity /\ ~b.identity
  BY <1>1, <1>2, <1>3, <1>7
<1>8. CASE ~a.identity /\ b.identity
  BY <1>1, <1>2, <1>3, <1>8
<1>9. CASE ~a.identity /\ ~b.identity
  BY <1>1, <1>2, <1>3, <1>5, <1>9
<1> QED BY <1>1, <1>6, <1>7, <1>8, <1>9

\* Every way in which a line of j can be read.
LEMMA ReadOf ==
  ASSUME NEW j \in Images
  PROVE  /\ FromLine(Printed(j)) = [mark |-> Printed(j)[1], version |-> Printed(j)[2],
                                    sha256_prefix |-> Digits(Stored(Build[j]), HASH_PREFIX_LEN)]
         /\ \A text \in CutShort(Printed(j)) :
              \/ FromLine(text) = None
              \/ \E k \in 1..(HASH_PREFIX_LEN - 1) :
                   FromLine(text) =
                     [mark |-> Printed(j)[1], version |-> Printed(j)[2],
                      sha256_prefix |-> Digits(Digits(Stored(Build[j]), HASH_PREFIX_LEN), k)]
<1> DEFINE hash == Digits(Stored(Build[j]), HASH_PREFIX_LEN)
           m == Printed(j)[1]
           v == Printed(j)[2]
<1>1. Printed(j) = <<m, v, hash>> /\ Len(hash) = HASH_PREFIX_LEN
  BY PrintedHash DEF Printed
<1> HIDE DEF hash, m, v
<1> DEFINE line == <<m, v, hash>>
<1>2. FromLine(line) = [mark |-> m, version |-> v, sha256_prefix |-> hash]
  BY DEF FromLine
<1>3. ASSUME NEW text \in CutShort(line), FromLine(text) # None
      PROVE  \E k \in 1..(HASH_PREFIX_LEN - 1) :
               FromLine(text) = [mark |-> m, version |-> v, sha256_prefix |-> Digits(hash, k)]
  <2>1. CASE \E k \in 0..(Len(line) - 1) : text = SubSeq(line, 1, k)
    <3>1. PICK k \in 0..2 : text = SubSeq(line, 1, k)
      BY <2>1
    <3>2. line \in Seq({m, v, hash}) /\ Len(line) = 3
      OBVIOUS
    <3> HIDE DEF line
    <3>3. Len(text) = k
      BY <3>1, <3>2, SubSeqProperties
    <3> QED BY <1>3, <3>1, <3>3 DEF FromLine
  <2>2. CASE \E k \in 1..(Len(line[3]) - 1) : text = [line EXCEPT ![3] = Digits(@, k)]
    <3>1. PICK k \in 1..(HASH_PREFIX_LEN - 1) : text = [line EXCEPT ![3] = Digits(@, k)]
      BY <1>1, <2>2
    <3>2. text = <<m, v, Digits(hash, k)>>
      BY <3>1
    <3>3. Len(text) = 3 /\ text[1] = m /\ text[2] = v /\ text[3] = Digits(hash, k)
      BY <3>2
    <3> QED BY <3>3 DEF FromLine
  <2> QED BY <2>1, <2>2 DEF CutShort
<1> QED BY <1>1, <1>2, <1>3 DEF m, v, hash

\* For builds with legible names the comparison is right about any two.
LEMMA LegibleTold ==
  ASSUME Legible, NEW i \in Images, NEW j \in Images
  PROVE  Tells(i, j)
<1> DEFINE a == Build[i]
           b == Build[j]
           want == ExpectedImage(i)
           whole == Digits(Stored(b), HASH_PREFIX_LEN)
           N == HASH_PREFIX_LEN
<1> SUFFICES ASSUME want # None
             PROVE  /\ MatchedBy(want, FromLine(Printed(j))) <=> SameFirmware(i, j)
                    /\ \A text \in CutShort(Printed(j)) :
                         FromLine(text) # None /\ MatchedBy(want, FromLine(text)) => SameFirmware(i, j)
  BY DEF Tells
<1>1. /\ want.version = Descriptor(a).version /\ want.project_name = Descriptor(a).project_name
      /\ want.sha256_prefix = Digits(a.sha256, N)
  <2>1. FromElf(i) # None
    BY DEF ExpectedImage
  <2>2. FromElf(i) = Descriptor(a)
    BY <2>1, OwnDescriptor
  <2> QED BY <2>1, <2>2 DEF ExpectedImage
<1>2. N \in Nat \ {0} /\ a.sha256 \in Seq(Nat) /\ Len(a.sha256) >= N
  BY BuildAssumption, LengthAssumption
<1>3. Digits(a.sha256, N) \in Seq(Nat) /\ Len(Digits(a.sha256, N)) = N
  <2>1. Len(a.sha256) \in Nat
    BY <1>2, LenProperties
  <2> QED BY <1>2, <2>1, DigitsAre
<1>4. /\ whole \in Seq(Nat) /\ Len(whole) = N
      /\ \A k \in 1..N : whole[k] = IF b.patched THEN b.sha256[k] ELSE 0
      /\ b.patched => whole = Digits(b.sha256, N)
  BY PrintedHash
<1> DEFINE Same == /\ a.identity = b.identity
                   /\ IF a.identity
                      THEN a.name = b.name /\ a.features = b.features /\ Abbreviated(a) = Abbreviated(b)
                      ELSE a.bin = b.bin /\ a.version = b.version
           Named(have) == have.mark = want.version
                          \/ (have.mark = want.project_name /\ have.version = want.version)
<1>5. SameFirmware(i, j) <=> Same /\ (b.patched => a.sha256 = b.sha256)
  BY DEF SameFirmware
<1>6. ASSUME NEW have, have.mark = Printed(j)[1], have.version = Printed(j)[2]
      PROVE  Named(have) <=> Same
  BY <1>1, <1>6, MarksTell DEF Legible
<1>7. /\ b.patched => b.sha256[1] # 0
      /\ b.patched /\ Digits(a.sha256, N) = Digits(b.sha256, N) => a.sha256 = b.sha256
  BY DEF Legible, HashesApart
<1> HIDE DEF Same, want, whole, N
<1>8. ASSUME NEW k \in 1..N, NEW have, have.mark = Printed(j)[1], have.version = Printed(j)[2],
             have.sha256_prefix \in Seq(Nat), Len(have.sha256_prefix) = k,
             \A d \in 1..k : have.sha256_prefix[d] = whole[d]
      PROVE  HashIsUnpatched(have) <=> ~b.patched
  <2> DEFINE h == have.sha256_prefix
  <2>1. k >= 1 /\ k <= N /\ h # << >> /\ DOMAIN h = 1..k /\ 1 \in 1..k /\ 1 \in 1..N
    <3>1. k \in Nat /\ k >= 1 /\ k <= N
      BY <1>2
    <3>2. h # << >>
      BY <1>8, <3>1, EmptySeq
    <3> QED BY <1>2, <1>8, <3>1, <3>2, LenProperties
  <2>2. \A d \in 1..k : h[d] = IF b.patched THEN b.sha256[d] ELSE 0
    <3> SUFFICES ASSUME NEW d \in 1..k PROVE h[d] = IF b.patched THEN b.sha256[d] ELSE 0
      OBVIOUS
    <3>1. d \in 1..N
      BY <1>2, <2>1
    <3> QED BY <1>4, <1>8, <3>1
  <2>3. Range(h) = {h[d] : d \in 1..k}
    BY <2>1 DEF Range
  <2> HIDE DEF h
  <2>4. CASE b.patched
    <3>1. h[1] # 0 /\ h[1] \in Range(h)
      BY <1>7, <2>1, <2>2, <2>3, <2>4
    <3> QED BY <2>4, <3>1 DEF HashIsUnpatched, h
  <2>5. CASE ~b.patched
    BY <2>1, <2>2, <2>3, <2>5 DEF HashIsUnpatched, h
  <2> QED BY <2>4, <2>5
<1>9. MatchedBy(want, FromLine(Printed(j))) <=> SameFirmware(i, j)
  <2> DEFINE have == [mark |-> Printed(j)[1], version |-> Printed(j)[2], sha256_prefix |-> whole]
  <2>1. FromLine(Printed(j)) = have
    BY ReadOf DEF whole, N
  <2>2. have.mark = Printed(j)[1] /\ have.version = Printed(j)[2] /\ have.sha256_prefix = whole
    OBVIOUS
  <2> HIDE DEF have
  <2>3. HashIsUnpatched(have) <=> ~b.patched
    BY <1>2, <1>4, <1>8, <2>2
  <2>4. Named(have) <=> Same
    BY <1>6, <2>2
  <2>5. MatchedBy(want, have) <=> (~b.patched \/ whole = want.sha256_prefix) /\ Named(have)
    BY <2>2, <2>3 DEF MatchedBy
  <2>6. b.patched => (whole = want.sha256_prefix <=> a.sha256 = b.sha256)
    BY <1>1, <1>4, <1>7
  <2> HIDE DEF Named
  <2> QED BY <1>5, <2>1, <2>4, <2>5, <2>6
<1>10. ASSUME NEW text \in CutShort(Printed(j)), FromLine(text) # None,
              MatchedBy(want, FromLine(text))
       PROVE  SameFirmware(i, j)
  <2>1. PICK k \in 1..(N - 1) :
          FromLine(text) = [mark |-> Printed(j)[1], version |-> Printed(j)[2],
                            sha256_prefix |-> Digits(whole, k)]
    BY <1>10, ReadOf DEF whole, N
  <2> DEFINE have == [mark |-> Printed(j)[1], version |-> Printed(j)[2],
                      sha256_prefix |-> Digits(whole, k)]
  <2>2. /\ have.mark = Printed(j)[1] /\ have.version = Printed(j)[2]
        /\ have.sha256_prefix = Digits(whole, k)
    OBVIOUS
  <2> HIDE DEF have
  <2>3. k \in 1..N /\ k \in Nat /\ k < N
    BY <1>2
  <2>4. /\ Digits(whole, k) \in Seq(Nat) /\ Len(Digits(whole, k)) = k
        /\ \A d \in 1..k : Digits(whole, k)[d] = whole[d]
    BY <1>4, <2>3, DigitsAre
  <2>5. HashIsUnpatched(have) <=> ~b.patched
    BY <1>8, <2>2, <2>3, <2>4
  <2>6. Digits(whole, k) # want.sha256_prefix
    BY <1>1, <1>3, <2>3, <2>4
  <2>7. MatchedBy(want, have)
    BY <1>10, <2>1 DEF have
  <2>8. ~b.patched /\ Named(have)
    BY <2>2, <2>5, <2>6, <2>7 DEF MatchedBy
  <2>9. Same
    BY <1>6, <2>2, <2>8
  <2> QED BY <1>5, <2>8, <2>9
<1> QED BY <1>9, <1>10

\* What VerdictsTrue and WritesHaveReason ask of the comparison.
LEMMA LegibleElfTold == Legible => ElfTold
BY LegibleTold, ImagesAssumption DEF ElfTold

\* NamesTell for any legible builds, on the board or off it: any number of them,
\* names and hashes of any length, with chance words before the descriptor.
THEOREM NamesAreTold == Legible => (Spec => []NamesTell)
<1> SUFFICES ASSUME Legible
             PROVE  Spec => []NamesTell
  OBVIOUS
<1>1. Init => Heard /\ Concluded
  BY RunInit DEF RunInv
<1>2. Heard /\ [Next]_vars => Heard'
  BY HeardStep
<1>3. Heard => NamesTell
  BY LegibleTold, ImagesAssumption DEF Heard, NamesTell
<1> QED BY <1>1, <1>2, <1>3, PTL DEF Spec

================================================================================
