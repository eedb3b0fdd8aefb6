---------------------------- MODULE LoginProofs ----------------------------
(***************************************************************************)
(* Theorems about what runs at a login: FaceScan, the recognition process, *)
(* for every timeout, acquisition time, number of confirmations and length *)
(* of a turn, and KeyringSeal, for any set of jobs and passwords.  The     *)
(* types of KeyringSeal hold in any case; what a successful job promises,  *)
(* where a password may be lost and that a master key is never replaced    *)
(* hold for jobs that do not overlap.                                      *)
(***************************************************************************)
EXTENDS FaceScan, KeyringSeal, TLAPS

-----------------------------------------------------------------------------
(* Type correctness.                                                       *)

(* A turn keeps the counters natural numbers.                              *)
LEMMA TurnType ==
  ASSUME scan \in Counters, NEW d \in 1 .. TurnMax, NEW late \in 0 .. TurnMax,
         NEW frame \in {"black", "dark", "plain", "match"}, Turn(d, late, frame)
  PROVE  scan' \in Counters
BY BoundsAssumption DEF Turn, Counters

(* A step of the main thread keeps the types.                              *)
LEMMA TypeMain ==
  ASSUME TypeOK, Main
  PROVE  TypeOK'
<1> USE DEF TypeOK, Goto, signalVars, watchVars, cardVars, NoCode
<1>1. CASE OpenCamera \/ CameraFails \/ StartLoop \/ DetectorFailed
  BY <1>1 DEF OpenCamera, CameraFails, StartLoop, DetectorFailed
<1>2. CASE NextFrame \/ TimeOut \/ ReadFails \/ StampsDecide \/ StampsCrash
  BY <1>2 DEF NextFrame, TimeOut, ReadFails, StampsDecide, StampsCrash
<1>3. CASE SkipFrame \/ CountMatch \/ Recognise
  <2>1. scan' \in Counters
    BY <1>3, TurnType DEF SkipFrame, CountMatch, Recognise
  <2> QED BY <1>3, <2>1 DEF SkipFrame, CountMatch, Recognise
<1>4. CASE ClaimCard
  BY <1>4 DEF ClaimCard
<1>12. CASE CardClaimed
  <2>1. stateLock' \in BOOLEAN
    BY <1>12, Zenon DEF CardClaimed
  <2>2. main' = "queued"
    BY <1>12 DEF CardClaimed
  <2> QED BY <1>12, <2>1, <2>2 DEF CardClaimed
<1>5. CASE BeginSend \/ StampPrompts \/ StampPromptQueues \/ StampPromptBegins
           \/ StampPromptDropped
  BY <1>5 DEF BeginSend, StampPrompts, StampPromptQueues, StampPromptBegins,
     StampPromptDropped
<1>10. CASE StampPromptEnds
  <2>1. /\ main' = "stamping" /\ ioLock' = "free" /\ disabled' \in BOOLEAN
        /\ shown' \in {"none", "progress", "success", "timeout", "dark", "rejected", "cancelled"}
    BY <1>10 DEF StampPromptEnds, Deliver
  <2> QED BY <1>10, <2>1 DEF StampPromptEnds
<1>6. CASE NoCard
  BY <1>6 DEF NoCard, AfterCard
<1>7. CASE EndSend
  <2>1. SentCard \in {"none", "success", "timeout", "dark", "rejected", "cancelled"}
    BY DEF SentCard, CardOf
  <2>2. shown' \in {"none", "progress", "success", "timeout", "dark", "rejected", "cancelled"}
    BY <1>7, <2>1 DEF EndSend, Deliver
  <2>3. main' \in {"unwinding", "exiting"}
    BY <1>7 DEF EndSend, AfterCard
  <2>4. ioLock' = "free" /\ disabled' \in BOOLEAN
    BY <1>7 DEF EndSend, Deliver
  <2> QED BY <1>7, <2>2, <2>3, <2>4 DEF EndSend
<1>8. CASE ExitCleansUp
  BY <1>8 DEF ExitCleansUp
<1>11. CASE ExitEnds
  BY <1>11 DEF ExitEnds
<1>9. CASE Unwind
  BY <1>9 DEF Unwind
<1> HIDE DEF TypeOK
<1> QED
  BY <1>1, <1>2, <1>3, <1>4, <1>5, <1>6, <1>7, <1>8, <1>9, <1>10, <1>11, <1>12 DEF Main, Loop

(* So does a step of a handler, of another thread or of the surroundings.  *)
LEMMA TypeRest ==
  ASSUME TypeOK, Handler \/ Starter \/ DetectorEnds \/ Watcher \/ SignalArrives \/ SessionChanges
  PROVE  TypeOK'
<1> USE DEF TypeOK, signalVars, watchVars, cardVars
<1>1. CASE SignalHandled
  <2>1. handler' \in {handler, "carded", "claiming"}
    BY <1>1, Zenon DEF SignalHandled
  <2>2. sigterm' \in BOOLEAN
    BY <1>1 DEF SignalHandled
  <2> QED BY <1>1, <2>1, <2>2 DEF SignalHandled
<1>2. CASE HandlerBeginsSend \/ HandlerEndsSend \/ HandlerCleansUp
  BY <1>2 DEF HandlerBeginsSend, HandlerEndsSend, HandlerCleansUp, Deliver
<1>7. CASE HandlerClaims \/ HandlerQueues
  BY <1>7 DEF HandlerClaims, HandlerQueues
<1>3. CASE Starter
  BY <1>3 DEF Starter, StarterBegins, StarterEnds, Deliver
<1>4. CASE DetectorEnds \/ SessionChanges
  BY <1>4 DEF DetectorEnds, SessionChanges
<1>5. CASE SignalArrives
  BY <1>5, BoundsAssumption DEF SignalArrives
<1>6. CASE Watcher
  <2>1. watcher' \in Watchers
    <3> USE DEF Watchers
    <3>1. CASE WatcherAsks
      BY <3>1 DEF WatcherAsks
    <3>2. CASE WatcherGetsNothing
      <4>1. watcher.failures + 1 \in Nat
        OBVIOUS
      <4>2. PICK was \in {"off", "asking"}, n \in Nat :
              watcher' = [watcher EXCEPT !.failures = n, !.at = was]
        BY <3>2, <4>1 DEF WatcherGetsNothing
      <4> QED BY <4>2
    <3>3. CASE WatcherHearsAwake
      BY <3>3 DEF WatcherHearsAwake
    <3>4. CASE WatcherHearsIdle
      BY <3>4 DEF WatcherHearsIdle
    <3>5. CASE WatcherKills
      BY <3>5 DEF WatcherKills
    <3> HIDE DEF Watchers
    <3> QED BY <1>6, <3>1, <3>2, <3>3, <3>4, <3>5 DEF Watcher
  <2>2. /\ UNCHANGED <<setup, main, handler, verdict, cleanedUp, signals, detector, scan,
                       session, cardVars>>
        /\ sigterm' \in BOOLEAN
    BY <1>6 DEF Watcher, WatcherAsks, WatcherGetsNothing, WatcherHearsAwake,
       WatcherHearsIdle, WatcherKills
  <2>3. /\ stateLock' = stateLock /\ ioLock' = ioLock /\ starter' = starter
        /\ finalized' = finalized /\ disabled' = disabled /\ shown' = shown
    BY <2>2
  <2> QED BY <2>1, <2>2, <2>3
<1> HIDE DEF TypeOK
<1> QED
  BY <1>1, <1>2, <1>3, <1>4, <1>5, <1>6, <1>7 DEF Handler

(* Every variable of a scan keeps its type.                                *)
THEOREM ScanTypeCorrect == Spec => []TypeOK
<1>1. Init => TypeOK
  <2> SUFFICES ASSUME Init PROVE TypeOK
    OBVIOUS
  <2>1. setup \in SUBSET Features
    BY SetupsAssumption DEF Init
  <2>2. watcher \in Watchers
    BY BoundsAssumption DEF Init, Watchers
  <2>3. scan \in Counters
    BY DEF Init, Counters
  <2>4. session \in {"idle", "awake"} /\ signals \in 0 .. MaxSignals
    BY BoundsAssumption DEF Init
  <2>5. verdict \in {0, 1, 11, 12, 13, 14, 15, NoCode}
    BY DEF Init
  <2> QED BY <2>1, <2>2, <2>3, <2>4, <2>5 DEF Init, TypeOK
<1>2. TypeOK /\ [Next]_vars => TypeOK'
  <2>1. TypeOK /\ UNCHANGED vars => TypeOK'
    BY DEF TypeOK, vars, signalVars, watchVars, cardVars
  <2> QED BY <2>1, TypeMain, TypeRest DEF Next
<1> QED BY <1>1, <1>2, PTL DEF Spec

-----------------------------------------------------------------------------
(* The recognition loop.                                                   *)

(* The steps that leave the counters and clocks of the loop alone, and     *)
(* enter no part of the loop.                                              *)
Elsewhere ==
  \/ ClaimCard \/ CardClaimed \/ BeginSend \/ NoCard \/ EndSend \/ ExitCleansUp \/ ExitEnds
  \/ Unwind \/ Handler \/ Starter \/ DetectorEnds \/ Watcher \/ SignalArrives \/ SessionChanges

InLoop == {"opening", "joining", "top", "reading", "stamping", "checking", "asking", "prompting"}

(* Those steps can decide nothing but an abort.                            *)
LEMMA ElsewhereFrame ==
  ASSUME Elsewhere
  PROVE  /\ scan' = scan
         /\ \/ main' = main /\ verdict' = verdict
            \/ main' \notin InLoop /\ verdict' \in {verdict, 12}
<1> USE DEF Goto, InLoop
<1>1. CASE ClaimCard \/ CardClaimed \/ BeginSend \/ NoCard \/ EndSend
  BY <1>1 DEF ClaimCard, CardClaimed, BeginSend, NoCard, EndSend, AfterCard
<1>2. CASE ExitCleansUp \/ ExitEnds \/ Unwind
  BY <1>2 DEF ExitCleansUp, ExitEnds, Unwind
<1>3. CASE Handler
  BY <1>3 DEF Handler, SignalHandled, HandlerClaims, HandlerQueues, HandlerBeginsSend,
     HandlerEndsSend, HandlerCleansUp
<1>4. CASE Starter \/ DetectorEnds
  BY <1>4 DEF Starter, StarterBegins, StarterEnds, DetectorEnds
<1>5. CASE Watcher
  BY <1>5 DEF Watcher, WatcherAsks, WatcherGetsNothing, WatcherHearsAwake,
     WatcherHearsIdle, WatcherKills
<1>6. CASE SignalArrives \/ SessionChanges
  BY <1>6 DEF SignalArrives, SessionChanges
<1> QED BY <1>1, <1>2, <1>3, <1>4, <1>5, <1>6 DEF Elsewhere

(* What a turn does to the counters and the clocks.                        *)
LEMMA TurnKeeps ==
  ASSUME scan \in Counters, InvFrames, InvClocks, TimeoutKind = "none",
         NEW d \in 1 .. TurnMax, NEW late \in 0 .. TurnMax, late <= d,
         NEW frame \in {"black", "dark", "plain", "match"}, Turn(d, late, frame)
  PROVE  InvFrames' /\ InvClocks'
<1>1. InvFrames'
  <2> USE DEF InvFrames, Turn, Counters
  <2>1. CASE frame \in {"black", "dark"}
    BY <2>1
  <2>2. CASE frame \in {"plain", "match"}
    <3>1. scan'.usable
      BY <2>2
    <3>2. /\ scan'.valid = scan.valid + 1 /\ scan'.dark = scan.dark
          /\ scan'.confirmed \in {scan.confirmed, scan.confirmed + 1}
      BY <2>2
    <3> QED BY <3>1, <3>2
  <2> QED BY <2>1, <2>2
<1>2. InvClocks'
  <2> USE BoundsAssumption DEF InvClocks, Turn, Counters, TimeoutKind
  <2>1. CASE scan.usable
    <3>1. /\ scan'.usable /\ scan'.elapsed = scan.elapsed + d
          /\ scan'.recognising = scan.recognising + d
      BY <2>1
    <3> QED BY <2>1, <3>1
  <2>2. CASE ~scan.usable /\ frame \in {"plain", "match"}
    <3>1. /\ scan'.usable /\ scan'.elapsed = scan.elapsed + d
          /\ scan'.recognising = late
      BY <2>2
    <3> QED BY <2>2, <3>1
  <2>3. CASE ~scan.usable /\ frame \in {"black", "dark"}
    <3>1. /\ ~scan'.usable /\ scan'.elapsed = scan.elapsed + d
          /\ scan'.recognising = 0
      BY <2>3
    <3> QED BY <2>3, <3>1
  <2> QED BY <2>1, <2>2, <2>3
<1> QED BY <1>1, <1>2

(* Every step keeps the invariant on the counters and clocks.              *)
LEMMA LoopInvStep ==
  ASSUME TypeOK, LoopInv, [Next]_vars
  PROVE  LoopInv'
<1> USE BoundsAssumption DEF NoCode, LoopInv
<1>1. CASE Elsewhere
  <2>1. /\ scan' = scan
        /\ \/ main' = main /\ verdict' = verdict
           \/ main' \notin InLoop /\ verdict' \in {verdict, 12}
    BY <1>1, ElsewhereFrame
  <2>2. InvFrames' /\ InvClocks'
    BY <2>1 DEF InvFrames, InvClocks
  <2>3. InvLooping'
    BY <2>1 DEF InvLooping, InLoop, TimeoutKind
  <2>4. SuccessEarned' /\ TimeoutsHonest'
    BY <2>1 DEF SuccessEarned, TimeoutsHonest
  <2> QED BY <2>2, <2>3, <2>4
<1>2. CASE OpenCamera \/ CameraFails \/ StartLoop \/ DetectorFailed \/ NextFrame
           \/ ReadFails
  <2> USE DEF OpenCamera, CameraFails, StartLoop, DetectorFailed, NextFrame, ReadFails, Goto
  <2>1. InvFrames' /\ InvClocks'
    BY <1>2 DEF InvFrames, InvClocks
  <2>2. InvLooping'
    BY <1>2 DEF InvLooping, TimeoutKind
  <2>3. SuccessEarned' /\ TimeoutsHonest'
    BY <1>2 DEF InvLooping, SuccessEarned, TimeoutsHonest
  <2> QED BY <2>1, <2>2, <2>3
<1>3. CASE TimeOut
  <2> USE DEF TimeOut, Goto
  <2>1. InvFrames' /\ InvClocks' /\ InvLooping'
    BY <1>3 DEF InvFrames, InvClocks, InvLooping
  <2>2. SuccessEarned' /\ TimeoutsHonest'
    BY <1>3 DEF TypeOK, Counters, InvFrames, SuccessEarned, TimeoutsHonest, TimeoutKind
  <2> QED BY <2>1, <2>2
<1>4. CASE StampPrompts \/ StampPromptQueues \/ StampPromptBegins \/ StampPromptDropped
           \/ StampPromptEnds \/ StampsDecide \/ StampsCrash
  <2> USE DEF StampPrompts, StampPromptQueues, StampPromptBegins, StampPromptDropped,
              StampPromptEnds, StampsDecide, StampsCrash, Goto
  <2>1. InvFrames' /\ InvClocks' /\ InvLooping'
    BY <1>4 DEF InvFrames, InvClocks, InvLooping
  <2>2. SuccessEarned' /\ TimeoutsHonest'
    BY <1>4 DEF InvFrames, InvLooping, SuccessEarned, TimeoutsHonest
  <2> QED BY <2>1, <2>2
<1>5. CASE SkipFrame \/ CountMatch \/ Recognise
  <2>1. main = "reading" /\ TimeoutKind = "none"
    BY <1>5 DEF SkipFrame, CountMatch, Recognise, Goto, InvLooping
  <2>2. InvFrames' /\ InvClocks'
    BY <1>5, <2>1, TurnKeeps DEF SkipFrame, CountMatch, Recognise, TypeOK
  <2>3. scan.confirmed < Confirmations /\ verdict = NoCode
    BY <2>1 DEF InvLooping
  <2>4. CASE SkipFrame
    BY <2>2, <2>3, <2>4
       DEF SkipFrame, Goto, Turn, InvLooping, SuccessEarned, TimeoutsHonest
  <2>5. CASE CountMatch
    BY <2>2, <2>3, <2>5
       DEF CountMatch, Goto, Turn, InvLooping, SuccessEarned, TimeoutsHonest
  <2>6. CASE Recognise
    <3>1. scan'.confirmed = Confirmations
      BY <2>3, <2>6 DEF Recognise, Turn, TypeOK, Counters
    <3>2. main' \in {"stamping", "carding"} /\ verdict' \in {0, NoCode}
      BY <2>3, <2>6 DEF Recognise, Goto
    <3>3. main' = "stamping" => verdict' = NoCode
      BY <2>3, <2>6 DEF Recognise, Goto
    <3> QED
      BY <2>2, <3>1, <3>2, <3>3 DEF InvFrames, InvLooping, SuccessEarned, TimeoutsHonest
  <2> QED BY <1>5, <2>4, <2>5, <2>6
<1>6. CASE UNCHANGED vars
  BY <1>6 DEF vars, InvFrames, InvLooping, InvClocks, SuccessEarned, TimeoutsHonest,
     TimeoutKind
<1> QED
  BY <1>1, <1>2, <1>3, <1>4, <1>5, <1>6 DEF Next, Main, Loop, Elsewhere

(* The counters and clocks of the loop agree with where the loop is.       *)
THEOREM LoopInvariance == Spec => []LoopInv
<1>1. Init => LoopInv
  BY BoundsAssumption
     DEF Init, LoopInv, InvFrames, InvLooping, InvClocks, SuccessEarned, TimeoutsHonest,
         NoCode
<1> QED BY <1>1, LoopInvStep, ScanTypeCorrect, PTL DEF Spec

(* Exit 0 rests on the configured number of usable frames that agree, for  *)
(* every number of confirmations.                                          *)
THEOREM SuccessIsEarned == Spec => []SuccessEarned
BY LoopInvariance, PTL DEF LoopInv

(* Exits 11 and 13 say which of the two timeouts was really used up.       *)
THEOREM TimeoutsAreHonest == Spec => []TimeoutsHonest
BY LoopInvariance, PTL DEF LoopInv

(* The exit codes of the two ways out of the loop are earned.              *)
THEOREM CodesAreHonest == Spec => []CodesInv
BY ScanTypeCorrect, SuccessIsEarned, TimeoutsAreHonest, PTL DEF CodesInv, CodesHonest

(* A scan is over, at the latest, one slow turn after each timeout.        *)
THEOREM ScanIsBounded == Spec => []ScanBounded
<1>1. TypeOK /\ LoopInv => ScanBounded
  BY BoundsAssumption DEF TypeOK, Counters, LoopInv, InvClocks, ScanBounded
<1> QED BY <1>1, ScanTypeCorrect, LoopInvariance, PTL

-----------------------------------------------------------------------------
(* Cards, and the exit code under SIGTERM.                                 *)

(* Every step keeps the invariant on cards and on the ways out.            *)
LEMMA CardInvStep ==
  ASSUME TypeOK, LoopInv, CardInv, [Next]_vars
  PROVE  CardInv'
<1> USE DEF CardInv, InvLock, InvClaimed, InvShown, InvCleaned, Silent, Results, cardVars,
            signalVars, watchVars, NoCode
<1>1. CASE OpenCamera \/ StartLoop
  BY <1>1 DEF OpenCamera, StartLoop, Goto, TypeOK
<1>2. CASE NextFrame \/ TimeOut \/ SkipFrame \/ CountMatch \/ Recognise \/ StampsDecide
           \/ StampPrompts \/ StampPromptQueues \/ StampPromptBegins \/ StampPromptDropped
  BY <1>2 DEF NextFrame, TimeOut, SkipFrame, CountMatch, Recognise, StampsDecide,
     StampPrompts, StampPromptQueues, StampPromptBegins, StampPromptDropped, Goto
<1>3. CASE CameraFails \/ DetectorFailed \/ ReadFails \/ StampsCrash
  BY <1>3 DEF CameraFails, DetectorFailed, ReadFails, StampsCrash, Goto, CardOf
<1>18. CASE StampPromptEnds
  BY <1>18 DEF StampPromptEnds, Deliver, Goto
<1>4. CASE ClaimCard \/ CardClaimed
  BY <1>4 DEF ClaimCard, CardClaimed, Goto
<1>5. CASE BeginSend
  BY <1>5 DEF BeginSend, Goto
<1>6. CASE NoCard
  BY <1>6 DEF NoCard, AfterCard, Goto
<1>7. CASE EndSend
  BY <1>7 DEF EndSend, AfterCard, Deliver, SentCard, CardOf, Goto
<1>8. CASE ExitCleansUp \/ ExitEnds \/ Unwind
  BY <1>8 DEF ExitCleansUp, ExitEnds, Unwind, Goto
<1>9. CASE SignalHandled
  BY <1>9 DEF SignalHandled, TypeOK
<1>10. CASE HandlerClaims \/ HandlerQueues \/ HandlerBeginsSend
  BY <1>10 DEF HandlerClaims, HandlerQueues, HandlerBeginsSend
<1>11. CASE HandlerEndsSend
  BY <1>11 DEF HandlerEndsSend, Deliver
<1>12. CASE HandlerCleansUp
  BY <1>12 DEF HandlerCleansUp, CardOf
<1>13. CASE StarterBegins
  BY <1>13 DEF StarterBegins
<1>14. CASE StarterEnds
  <2>1. CardOf(verdict) \in Results \cup {"none"}
    BY DEF CardOf
  <2>2. shown \notin Results
    BY <1>14 DEF StarterEnds
  <2> QED BY <1>14, <2>1, <2>2 DEF StarterEnds, Deliver
<1>15. CASE DetectorEnds \/ SignalArrives \/ SessionChanges
  BY <1>15 DEF DetectorEnds, SignalArrives, SessionChanges
<1>16. CASE Watcher
  BY <1>16 DEF Watcher, WatcherAsks, WatcherGetsNothing, WatcherHearsAwake,
     WatcherHearsIdle, WatcherKills
<1>17. CASE UNCHANGED vars
  BY <1>17 DEF vars
<1> HIDE DEF CardInv
<1> QED
  BY <1>1, <1>2, <1>3, <1>4, <1>5, <1>6, <1>7, <1>8, <1>9, <1>10, <1>11, <1>12, <1>13,
     <1>14, <1>15, <1>16, <1>17, <1>18
     DEF Next, Main, Loop, Handler, Starter

(* Locks, claims and cards agree with where the threads and the handler    *)
(* are, whatever the notification service does.                            *)
THEOREM CardInvariance == Spec => []CardInv
<1>1. Init => CardInv
  BY DEF Init, CardInv, InvLock, InvClaimed, InvShown, InvCleaned, Results, NoCode
<1> QED BY <1>1, CardInvStep, ScanTypeCorrect, LoopInvariance, PTL DEF Spec

(* Whatever order the progress card, the result card and SIGTERM come in,  *)
(* the user is left with the card of the exit code.                        *)
THEOREM CardIsOutcome == Spec => []CardTellsOutcome
<1>1. CardInv => CardTellsOutcome
  BY DEF CardInv, InvCleaned, InvShown, CardTellsOutcome
<1> QED BY <1>1, CardInvariance, PTL

(* No late progress card hides a result.                                   *)
THEOREM ResultStays == Spec => ResultCardStays
<1>1. CardInv /\ [Next]_vars => (shown \in Results => shown' # "progress")
  <2> SUFFICES ASSUME CardInv, [Next]_vars, shown \in Results
               PROVE  shown' # "progress"
    OBVIOUS
  <2>1. ~StarterEnds /\ ~StampPromptEnds
    BY DEF CardInv, InvClaimed, StarterEnds, StampPromptEnds, Goto
  <2>2. shown' = "progress" => shown' = shown \/ StarterEnds \/ StampPromptEnds
    BY DEF Next, Main, Loop, OpenCamera, CameraFails, StartLoop, DetectorFailed, NextFrame,
       TimeOut, SkipFrame, CountMatch, Recognise, ReadFails, StampPrompts,
       StampPromptQueues, StampPromptBegins, StampPromptDropped, StampPromptEnds,
       StampsDecide, StampsCrash, ClaimCard, CardClaimed,
       BeginSend, NoCard, EndSend, Deliver, SentCard, CardOf, ExitCleansUp, ExitEnds, Unwind, Handler,
       SignalHandled, HandlerClaims, HandlerQueues, HandlerBeginsSend, HandlerEndsSend,
       HandlerCleansUp, Starter,
       StarterBegins, DetectorEnds, Watcher, WatcherAsks, WatcherGetsNothing,
       WatcherHearsAwake, WatcherHearsIdle, WatcherKills, SignalArrives, SessionChanges,
       vars, cardVars
  <2> QED BY <2>1, <2>2 DEF Results
<1> QED BY <1>1, CardInvariance, PTL DEF Spec, ResultCardStays

(* No signal changes the exit code once cleanup() has begun.               *)
THEOREM DecidedStands == Spec => DecidedCodeStands
<1>1. CardInv /\ [Next]_vars => (cleanedUp => verdict' = verdict)
  <2> SUFFICES ASSUME CardInv, [Next]_vars, cleanedUp PROVE verdict' = verdict
    OBVIOUS
  <2>1. main \in {"cleaning", "ended"} /\ handler = "none"
    BY DEF CardInv, InvCleaned
  <2> QED
    BY <2>1
       DEF Next, Main, Loop, OpenCamera, CameraFails, StartLoop, DetectorFailed, NextFrame,
       TimeOut, SkipFrame, CountMatch, Recognise, ReadFails, StampPrompts,
       StampPromptQueues, StampPromptBegins, StampPromptDropped, StampPromptEnds,
       StampsDecide, StampsCrash, ClaimCard, CardClaimed,
       BeginSend, NoCard, EndSend, ExitCleansUp, ExitEnds, Unwind, Handler,
       SignalHandled, HandlerClaims, HandlerQueues, HandlerBeginsSend, HandlerEndsSend,
       HandlerCleansUp, Starter,
       StarterBegins, StarterEnds, DetectorEnds, Watcher, WatcherAsks, WatcherGetsNothing,
       WatcherHearsAwake, WatcherHearsIdle, WatcherKills, SignalArrives, SessionChanges,
       Goto, vars
<1> QED BY <1>1, CardInvariance, PTL DEF Spec, DecidedCodeStands

(* What has been decided stands, as a card and as a code.                  *)
THEOREM DecidedIsFinal == Spec => DecisionStands
BY ResultStays, DecidedStands DEF DecisionStands

-----------------------------------------------------------------------------
(* Refinement of CompareLife.                                              *)

(* How what the PAM module sees depends on how far a scan has come.        *)
LEMMA LifeValues ==
  /\ main = "ended" => LifeStage = "zombie"
  /\ main # "ended" /\ cleanedUp => LifeStage = "cleaning"
  /\ main # "ended" /\ ~cleanedUp => LifeStage = "scanning" /\ LifeExit = "none"
  /\ cleanedUp \/ main = "ended" =>
       /\ verdict = 12 => LifeExit = "abort"
       /\ verdict # 12 => LifeExit \in {"success", "failure"}
BY DEF LifeStage, LifeExit

LEMMA LifeValuesPrimed ==
  /\ main' = "ended" => LifeStage' = "zombie"
  /\ main' # "ended" /\ cleanedUp' => LifeStage' = "cleaning"
  /\ main' # "ended" /\ ~cleanedUp' => LifeStage' = "scanning" /\ LifeExit' = "none"
  /\ cleanedUp' \/ main' = "ended" =>
       /\ verdict' = 12 => LifeExit' = "abort"
       /\ verdict' # 12 => LifeExit' \in {"success", "failure"}
BY DEF LifeStage, LifeExit

(* Nothing is seen of the main thread while it is on its way.              *)
LEMMA LifeUnseen ==
  ASSUME CardInv, UNCHANGED <<handler, cleanedUp, signalVars>>,
         main \notin {"cleaning", "ended"}, main' # "ended"
  PROVE  UNCHANGED Life!vars
<1>1. ~cleanedUp /\ ~cleanedUp'
  BY DEF CardInv, InvCleaned
<1>2. LifeStage' = LifeStage /\ LifeExit' = LifeExit
  BY <1>1, LifeValues, LifeValuesPrimed
<1>3. LifeTerm' = LifeTerm
  BY DEF LifeTerm, signalVars
<1> QED BY <1>2, <1>3 DEF Life!vars

(* So it is of the other threads, and of the surroundings.                 *)
LEMMA LifeElsewhere ==
  ASSUME UNCHANGED <<main, handler, verdict, cleanedUp, signalVars>>
  PROVE  UNCHANGED Life!vars
BY DEF Life!vars, LifeStage, LifeExit, LifeTerm, signalVars

(* The main thread decides, quits and ends.                                *)
LEMMA LifeMain ==
  ASSUME TypeOK, CardInv, Main
  PROVE  [Life!Next]_(Life!vars)
<1> USE DEF Goto
<1>1. CASE OpenCamera \/ CameraFails \/ StartLoop \/ DetectorFailed
  BY <1>1, LifeUnseen DEF OpenCamera, CameraFails, StartLoop, DetectorFailed
<1>2. CASE Loop
  BY <1>2, LifeUnseen
     DEF Loop, NextFrame, TimeOut, SkipFrame, CountMatch, Recognise, ReadFails, StampPrompts,
     StampPromptQueues, StampPromptBegins, StampPromptDropped, StampPromptEnds,
     StampsDecide, StampsCrash
<1>3. CASE ClaimCard \/ CardClaimed \/ BeginSend \/ NoCard \/ EndSend
  BY <1>3, LifeUnseen DEF ClaimCard, CardClaimed, BeginSend, NoCard, EndSend, AfterCard
<1>4. ASSUME main \in {"exiting", "unwinding"}, handler = "none", UNCHANGED <<handler, verdict, signalVars>>,
             \/ main' = "cleaning" /\ cleanedUp'
             \/ main' = "ended"
      PROVE  Life!Next
  <2>1. ~cleanedUp /\ verdict # 12
    BY <1>4 DEF CardInv, InvCleaned
  <2>2. LifeStage = "scanning" /\ LifeExit' \in {"success", "failure"}
    BY <1>4, <2>1, LifeValues, LifeValuesPrimed
  <2>3. UNCHANGED LifeTerm
    BY <1>4 DEF LifeTerm, signalVars
  <2>4. LifeStage' \in {"cleaning", "zombie"}
    BY <1>4, LifeValuesPrimed
  <2> QED BY <2>2, <2>3, <2>4 DEF Life!Next, Life!Decide, Life!Quit
<1>5. CASE ExitCleansUp
  BY <1>4, <1>5 DEF ExitCleansUp
<1>6. CASE Unwind
  BY <1>4, <1>6 DEF Unwind
<1>7. CASE ExitEnds
  <2>1. /\ main = "cleaning" /\ main' = "ended" /\ cleanedUp
        /\ UNCHANGED <<handler, verdict, cleanedUp, signalVars>>
    BY <1>7 DEF ExitEnds, CardInv, InvCleaned
  <2>2. LifeStage = "cleaning" /\ LifeStage' = "zombie"
    BY <2>1, LifeValues, LifeValuesPrimed
  <2>3. UNCHANGED <<LifeExit, LifeTerm>>
    BY <2>1 DEF LifeExit, LifeTerm, signalVars
  <2> QED BY <2>2, <2>3 DEF Life!Next, Life!Exit
<1> QED BY <1>1, <1>2, <1>3, <1>5, <1>6, <1>7 DEF Main

(* SIGTERM arrives, from anyone, and is handled: an abort, or nothing once *)
(* cleanup() has begun.                                                    *)
LEMMA LifeSignals ==
  ASSUME TypeOK, CardInv, Handler \/ SignalArrives \/ WatcherKills
  PROVE  [Life!Next]_(Life!vars)
<1>1. CASE SignalArrives \/ WatcherKills
  <2>1. /\ main # "ended" /\ sigterm' = TRUE
        /\ UNCHANGED <<main, handler, verdict, cleanedUp>>
    BY <1>1 DEF SignalArrives, WatcherKills, Watching
  <2>2. LifeStage # "zombie" /\ UNCHANGED <<LifeStage, LifeExit>>
    BY <2>1, LifeValues DEF LifeStage, LifeExit
  <2>3. LifeTerm' = TRUE
    BY <2>1, Zenon DEF LifeTerm
  <2> QED BY <2>2, <2>3 DEF Life!Next, Life!Signal
<1>2. CASE SignalHandled /\ cleanedUp
  <2>1. /\ main # "ended" /\ sigterm /\ sigterm' = FALSE /\ handler = "none" /\ handler' = handler
        /\ UNCHANGED <<main, verdict, cleanedUp>>
    BY <1>2 DEF SignalHandled, CardInv, InvCleaned
  <2>2. LifeStage = "cleaning" /\ UNCHANGED <<LifeStage, LifeExit>>
    BY <1>2, <2>1, LifeValues DEF LifeStage, LifeExit
  <2>3. LifeTerm /\ LifeTerm' \in BOOLEAN
    BY <2>1, Zenon DEF LifeTerm
  <2> QED BY <2>2, <2>3 DEF Life!Next, Life!Terminate
<1>3. CASE (SignalHandled /\ ~cleanedUp) \/ HandlerClaims \/ HandlerQueues
           \/ HandlerBeginsSend \/ HandlerEndsSend
  <2>1. /\ sigterm \/ handler # "none"
        /\ handler' # "none"
        /\ UNCHANGED <<main, verdict, cleanedUp>>
    BY <1>3 DEF SignalHandled, HandlerClaims, HandlerQueues, HandlerBeginsSend, HandlerEndsSend
  <2>2. UNCHANGED <<LifeStage, LifeExit>>
    BY <2>1 DEF LifeStage, LifeExit
  <2>3. LifeTerm = TRUE /\ LifeTerm' = TRUE
    BY <2>1, Zenon DEF LifeTerm
  <2> QED BY <2>2, <2>3 DEF Life!vars
<1>4. CASE HandlerCleansUp
  <2>1. /\ handler # "none" /\ main # "ended" /\ ~cleanedUp
        /\ main' = "cleaning" /\ cleanedUp' /\ verdict' = 12
    BY <1>4 DEF HandlerCleansUp, CardInv, InvCleaned
  <2>2. LifeStage = "scanning" /\ LifeStage' = "cleaning" /\ LifeExit' = "abort"
    BY <2>1, LifeValues, LifeValuesPrimed
  <2>3. LifeTerm /\ LifeTerm' \in BOOLEAN
    BY <2>1, Zenon DEF LifeTerm
  <2> QED BY <2>2, <2>3 DEF Life!Next, Life!Terminate
<1> QED BY <1>1, <1>2, <1>3, <1>4 DEF Handler

(* A scan, with its threads, cards and signals, is the compare process     *)
(* that PamIdentify reckons with: it decides once, and SIGTERM aborts it   *)
(* until it cleans up.                                                     *)
THEOREM ScanImplementsLife == Spec => ImplementsLife
<1>1. Init => Life!Init
  <2> SUFFICES ASSUME Init PROVE Life!Init
    OBVIOUS
  <2>1. main # "ended" /\ cleanedUp = FALSE /\ sigterm = FALSE /\ handler = "none"
    BY DEF Init
  <2>2. LifeStage = "scanning" /\ LifeExit = "none"
    BY <2>1, LifeValues
  <2>3. LifeTerm = FALSE
    BY <2>1 DEF LifeTerm
  <2> QED BY <2>2, <2>3 DEF Life!Init
<1>2. TypeOK /\ CardInv /\ [Next]_vars => [Life!Next]_(Life!vars)
  <2> SUFFICES ASSUME TypeOK, CardInv, [Next]_vars PROVE [Life!Next]_(Life!vars)
    OBVIOUS
  <2>1. CASE Main
    BY <2>1, LifeMain
  <2>2. CASE Handler \/ SignalArrives \/ WatcherKills
    BY <2>2, LifeSignals
  <2>3. CASE \/ Starter \/ DetectorEnds \/ SessionChanges
             \/ WatcherAsks \/ WatcherGetsNothing \/ WatcherHearsAwake \/ WatcherHearsIdle
    BY <2>3, LifeElsewhere
       DEF Starter, StarterBegins, StarterEnds, DetectorEnds, SessionChanges, WatcherAsks,
       WatcherGetsNothing, WatcherHearsAwake, WatcherHearsIdle
  <2>4. CASE UNCHANGED vars
    BY <2>4, LifeElsewhere DEF vars
  <2> QED BY <2>1, <2>2, <2>3, <2>4 DEF Next, Watcher
<1> QED
  BY <1>1, <1>2, ScanTypeCorrect, CardInvariance, PTL DEF Spec, ImplementsLife, Life!Spec

-----------------------------------------------------------------------------
(* KeyringSeal.                                                            *)
USE DEF Nothing, Ended, Sealing, Steps, sealVars, flags, tpmFiles, keyVars, jobVars

(* Every step of a seal keeps the types. *)
LEMMA TypeSeal ==
  ASSUME SealTypeOK, NEW w \in Jobs, SealSteps(w)
  PROVE  SealTypeOK'
PROOF
<1>1. CASE StartSeal(w)
  BY <1>1 DEF SealTypeOK, StartSeal, Begin
<1>2. CASE ChooseTpm(w) \/ ChooseSoftware(w) \/ CreatePrimary(w) \/ DropBlob(w)
  BY <1>2 DEF SealTypeOK, Step, ChooseTpm, ChooseSoftware, CreatePrimary, DropBlob
<1>3. CASE WritePub(w) \/ WritePriv(w) \/ CreateStops(w)
  BY <1>3 DEF SealTypeOK, WritePub, WritePriv, CreateStops
<1>4. CASE UseKey(w) \/ MissKey(w) \/ MakeKey(w) \/ RenameKey(w)
  BY <1>4 DEF SealTypeOK, Step, UseKey, MissKey, MakeKey, RenameKey
<1>5. CASE OpenBlob(w) \/ WriteBlob(w) \/ DropPub(w) \/ DropPriv(w)
  BY <1>5 DEF SealTypeOK, Step, OpenBlob, WriteBlob, DropPub, DropPriv
<1>6. CASE Finish(w)
  BY <1>6 DEF SealTypeOK, Step, Finish, SetAside
<1>. QED
  BY <1>1, <1>2, <1>3, <1>4, <1>5, <1>6 DEF SealSteps

(* So do disabling, failing, being killed and the removal of the tools. *)
LEMMA SealTypeRest ==
  ASSUME SealTypeOK,
         \/ \E w \in Jobs : DisableSteps(w) \/ Fail(w) \/ Kill(w)
         \/ ToolsRemoved
  PROVE  SealTypeOK'
PROOF
<1>1. ASSUME NEW w \in Jobs, DisableSteps(w)
      PROVE  SealTypeOK'
  BY <1>1 DEF SealTypeOK, Step, DisableSteps, StartDisable, Begin, DeleteBlob, DeletePub,
              DeletePriv, DeletePending
<1>2. ASSUME NEW w \in Jobs, Fail(w) \/ Kill(w)
      PROVE  SealTypeOK'
  BY <1>2 DEF SealTypeOK, Step, Fail, Kill
<1>3. CASE ToolsRemoved
  BY <1>3 DEF SealTypeOK, ToolsRemoved
<1>. QED
  BY <1>1, <1>2, <1>3

(* Every variable keeps its type, also when jobs overlap. *)
THEOREM SealTypeCorrect == SealSpec => []SealTypeOK
PROOF
<1>1. SealInit => SealTypeOK
  BY DEF SealInit, SealTypeOK
<1>2. SealTypeOK /\ [SealNext]_sealVars => SealTypeOK'
  <2>1. CASE SealNext
    BY <2>1, TypeSeal, SealTypeRest DEF SealNext
  <2>2. CASE UNCHANGED sealVars
    BY <2>2 DEF SealTypeOK
  <2>. QED
    BY <2>1, <2>2
<1>. QED
  BY <1>1, <1>2, PTL DEF SealSpec

-----------------------------------------------------------------------------
(* The other jobs are idle or have ended when a job takes a step, so that  *)
(* only what holds of the job itself can be disturbed.                     *)
LEMMA Alone ==
  ASSUME SealTypeOK, OneAtATime, NEW w \in Jobs,
         at[w] \notin Ended \/ Quiet,
         \A v \in Jobs \ {w} : at'[v] = at[v],
         JobInv(w)'
  PROVE  OneAtATime' /\ \A v \in Jobs : JobInv(v)'
PROOF
<1>1. \A v \in Jobs \ {w} : at[v] \in Ended /\ at'[v] \in Ended
  BY DEF OneAtATime, Quiet
<1>2. OneAtATime'
  BY <1>1 DEF OneAtATime
<1>3. ASSUME NEW v \in Jobs \ {w}
      PROVE  JobInv(v)'
  BY <1>1, <1>3 DEF JobInv, InvPassword, InvTpm, InvSoft, InvSealed, InvKind, InvDisable, SoftSteps, TpmSteps
<1>. QED
  BY <1>2, <1>3

(* A job that seals finds what it has written.                             *)
LEMMA SealKeepsJobInv ==
  ASSUME SealTypeOK, NEW w \in Jobs, JobInv(w), SealSteps(w)
  PROVE  JobInv(w)'
PROOF
<1>. USE DEF JobInv, InvPassword, InvTpm, InvSoft, InvSealed, InvKind, InvDisable, SoftSteps, TpmSteps
<1>1. CASE StartSeal(w)
  BY <1>1 DEF SealTypeOK, StartSeal, Begin
<1>2. CASE ChooseTpm(w) \/ ChooseSoftware(w) \/ CreatePrimary(w) \/ DropBlob(w)
  BY <1>2 DEF SealTypeOK, Step, ChooseTpm, ChooseSoftware, CreatePrimary, DropBlob
<1>3. CASE WritePub(w) \/ WritePriv(w) \/ CreateStops(w)
  BY <1>3 DEF SealTypeOK, WritePub, WritePriv, CreateStops
<1>4. CASE UseKey(w) \/ MissKey(w) \/ MakeKey(w) \/ RenameKey(w)
  BY <1>4, JobsAssumption DEF SealTypeOK, Step, UseKey, MissKey, MakeKey, RenameKey
<1>5. CASE OpenBlob(w) \/ WriteBlob(w) \/ DropPub(w) \/ DropPriv(w)
  BY <1>5 DEF SealTypeOK, Step, OpenBlob, WriteBlob, DropPub, DropPriv
<1>6. CASE Finish(w)
  BY <1>6 DEF SealTypeOK, Step, Finish
<1>. QED
  BY <1>1, <1>2, <1>3, <1>4, <1>5, <1>6 DEF SealSteps

(* Disabling, failing and being killed leave no seal half done.            *)
LEMMA RestKeepsJobInv ==
  ASSUME SealTypeOK, NEW w \in Jobs, JobInv(w), DisableSteps(w) \/ Fail(w) \/ Kill(w)
  PROVE  JobInv(w)'
PROOF
<1>. USE DEF JobInv, InvPassword, InvTpm, InvSoft, InvSealed, InvKind, InvDisable, SoftSteps, TpmSteps
<1>1. CASE DisableSteps(w)
  BY <1>1 DEF SealTypeOK, Step, DisableSteps, StartDisable, Begin, DeleteBlob, DeletePub,
              DeletePriv, DeletePending
<1>2. CASE Fail(w) \/ Kill(w)
  BY <1>2 DEF SealTypeOK, Step, Fail, Kill
<1>. QED
  BY <1>1, <1>2

(* A job that takes a step is running, or starts when none is; nobody      *)
(* else moves.                                                             *)
LEMMA StepsAlone ==
  ASSUME SealTypeOK, ~Overlap, NEW w \in Jobs,
         SealSteps(w) \/ DisableSteps(w) \/ Fail(w) \/ Kill(w)
  PROVE  /\ at[w] \notin Ended \/ Quiet
         /\ \A v \in Jobs \ {w} : at'[v] = at[v]
PROOF
<1>1. CASE StartSeal(w) \/ StartDisable(w)
  BY <1>1 DEF SealTypeOK, StartSeal, StartDisable, Begin
<1>2. CASE WritePub(w) \/ WritePriv(w) \/ CreateStops(w) \/ Fail(w) \/ Kill(w)
  BY <1>2 DEF SealTypeOK, Step, WritePub, WritePriv, CreateStops, Fail, Kill
<1>3. CASE ChooseTpm(w) \/ ChooseSoftware(w) \/ CreatePrimary(w) \/ DropBlob(w)
  BY <1>3 DEF SealTypeOK, Step, ChooseTpm, ChooseSoftware, CreatePrimary, DropBlob
<1>4. CASE UseKey(w) \/ MissKey(w) \/ MakeKey(w) \/ RenameKey(w)
  BY <1>4 DEF SealTypeOK, Step, UseKey, MissKey, MakeKey, RenameKey
<1>5. CASE OpenBlob(w) \/ WriteBlob(w) \/ DropPub(w) \/ DropPriv(w) \/ Finish(w)
  BY <1>5 DEF SealTypeOK, Step, OpenBlob, WriteBlob, DropPub, DropPriv, Finish
<1>6. CASE DeleteBlob(w) \/ DeletePub(w) \/ DeletePriv(w) \/ DeletePending(w)
  BY <1>6 DEF SealTypeOK, Step, DeleteBlob, DeletePub, DeletePriv, DeletePending
<1>. QED
  BY <1>1, <1>2, <1>3, <1>4, <1>5, <1>6 DEF SealSteps, DisableSteps

(* Between its first and its last step a job finds what it has written.    *)
THEOREM SealInvariance == SealSpec => []SealInv
PROOF
<1>1. SealInit => SealInv
  BY DEF SealInit, SealInv, OneAtATime, JobInv, InvPassword, InvTpm, InvSoft, InvSealed,
         InvKind, InvDisable,
         SoftSteps, TpmSteps
<1>2. SealTypeOK /\ SealInv /\ [SealNext]_sealVars => SealInv'
  <2>. SUFFICES ASSUME SealTypeOK, ~Overlap, OneAtATime, \A w \in Jobs : JobInv(w), [SealNext]_sealVars
                PROVE  OneAtATime' /\ \A w \in Jobs : JobInv(w)'
    BY DEF SealInv
  <2>1. ASSUME NEW w \in Jobs, SealSteps(w) \/ DisableSteps(w) \/ Fail(w) \/ Kill(w)
        PROVE  OneAtATime' /\ \A v \in Jobs : JobInv(v)'
    <3>1. JobInv(w)'
      BY <2>1, SealKeepsJobInv, RestKeepsJobInv
    <3>. QED
      BY <2>1, <3>1, StepsAlone, Alone
  <2>2. CASE ToolsRemoved
    BY <2>2 DEF ToolsRemoved, Quiet, OneAtATime, JobInv, InvPassword, InvTpm, InvSoft,
                InvSealed, InvKind, InvDisable, SoftSteps, TpmSteps
  <2>3. CASE UNCHANGED sealVars
    BY <2>3 DEF OneAtATime, JobInv, InvPassword, InvTpm, InvSoft, InvSealed, InvKind,
                InvDisable
  <2>. QED
    BY <2>1, <2>2, <2>3 DEF SealNext
<1>. QED
  BY <1>1, <1>2, SealTypeCorrect, PTL DEF SealSpec

(* The master key is never replaced while jobs do not overlap: only        *)
(* RenameKey writes it, and by then there is none.                         *)
THEOREM MasterKeyKept ==
  ASSUME ~Overlap
  PROVE  SealSpec => MasterKeyStands
PROOF
<1>1. ASSUME SealTypeOK, SealInv, [SealNext]_sealVars, master # "none"
      PROVE  master' = master
  <2>1. ASSUME NEW w \in Jobs, SealSteps(w)
        PROVE  master' = master
    <3>1. CASE RenameKey(w)
      BY <1>1, <3>1 DEF SealInv, JobInv, InvSoft, RenameKey, Step
    <3>2. CASE ~RenameKey(w)
      BY <2>1, <3>2 DEF SealSteps, StartSeal, Begin, ChooseTpm, ChooseSoftware, CreatePrimary,
           WritePub, WritePriv, CreateStops, DropBlob, UseKey, MissKey, MakeKey, OpenBlob,
           WriteBlob, DropPub, DropPriv, Finish
    <3>. QED
      BY <3>1, <3>2
  <2>2. ASSUME NEW w \in Jobs, DisableSteps(w) \/ Fail(w) \/ Kill(w)
        PROVE  master' = master
    BY <2>2 DEF DisableSteps, StartDisable, Begin, DeleteBlob, DeletePub, DeletePriv,
         DeletePending, Fail, Kill
  <2>. QED
    BY <1>1, <2>1, <2>2 DEF SealNext, ToolsRemoved
<1>2. SealTypeOK /\ SealInv /\ [SealNext]_sealVars => [master # "none" => master' = master]_sealVars
  BY <1>1
<1>. QED
  BY <1>2, SealTypeCorrect, SealInvariance, PTL DEF SealSpec, MasterKeyStands

(* A seal that reports success is what the next face login and a restore   *)
(* get: at its last step the files are the job's, whichever way it took.   *)
THEOREM SealedPasswordIsRead ==
  ASSUME ~Overlap
  PROVE  SealSpec => SealTakesEffect
PROOF
<1>1. ASSUME SealTypeOK, SealInv, [SealNext]_sealVars, NEW w \in Jobs,
             at[w] = "sealed", at'[w] = "done"
      PROVE  PamReads' = pw[w] /\ RestoreReads' = pw[w]
  <2>1. JobInv(w)
    BY <1>1 DEF SealInv
  <2>2. pw[w] \in Passwords /\ pw[w] # Nothing /\ w \notin {"none", "torn", "legacy"}
    BY <1>1, <2>1, PasswordsAssumption, JobsAssumption DEF JobInv, InvPassword
  <2>3. UNCHANGED <<tools, blob, tpmFiles, keyVars, pw>>
    <3>1. Finish(w)
      BY <1>1 DEF SealTypeOK, SealNext, SealSteps, DisableSteps, Step, StartSeal, StartDisable, Begin,
           ChooseTpm, ChooseSoftware, CreatePrimary, WritePub, WritePriv, CreateStops, DropBlob,
           UseKey, MissKey, MakeKey, RenameKey, OpenBlob, WriteBlob, DropPub, DropPriv, Finish,
           DeleteBlob, DeletePub, DeletePriv, DeletePending, Fail, Kill, ToolsRemoved
    <3>. QED
      BY <3>1 DEF Finish
  <2>4. CASE tools /\ pub = w /\ priv = w
    BY <2>2, <2>3, <2>4 DEF PamReads, RestoreReads, TpmReads, SoftReads
  <2>5. CASE /\ blob = w /\ master # "none" /\ key[w] = master
             /\ pub = "none" /\ priv = "none"
    BY <1>1, <2>2, <2>3, <2>5, JobsAssumption
       DEF PamReads, RestoreReads, TpmReads, SoftReads, SealTypeOK
  <2>. QED
    BY <1>1, <2>1, <2>4, <2>5 DEF JobInv, InvSealed
<1>. DEFINE Effect == \A w \in Jobs :
              at[w] = "sealed" /\ at'[w] = "done" => PamReads' = pw[w] /\ RestoreReads' = pw[w]
<1>2. SealTypeOK /\ SealInv /\ [SealNext]_sealVars => [Effect]_sealVars
  BY <1>1
<1>. QED
  BY <1>2, SealTypeCorrect, SealInvariance, PTL DEF SealSpec, SealTakesEffect

(* A repair moves the login keyring from a finished seal, and what is      *)
(* sealed is what the next login reads.                                    *)
THEOREM RingMovedSafely ==
  ASSUME ~Overlap
  PROVE  SealSpec => RingMovedAfterSeal
PROOF
<1>1. ASSUME SealTypeOK, SealInv, [SealNext]_sealVars, ring' # ring
      PROVE  PamReads # Nothing
  <2>1. PICK w \in Jobs : Finish(w)
    BY <1>1 DEF sealVars, flags, SealNext, SealSteps, DisableSteps, StartSeal, StartDisable, Begin,
         ChooseTpm, ChooseSoftware, CreatePrimary, WritePub, WritePriv, CreateStops, DropBlob,
         UseKey, MissKey, MakeKey, RenameKey, OpenBlob, WriteBlob, DropPub, DropPriv,
         DeleteBlob, DeletePub, DeletePriv, DeletePending, Fail, Kill, ToolsRemoved
  <2>2. at[w] = "sealed" /\ JobInv(w)
    BY <1>1, <2>1 DEF SealInv, Finish, Step
  <2>3. pw[w] # Nothing /\ w \notin {"none", "torn", "legacy"}
    BY <2>2, PasswordsAssumption, JobsAssumption DEF JobInv, InvPassword
  <2>4. CASE tools /\ pub = w /\ priv = w
    BY <2>3, <2>4 DEF PamReads, TpmReads
  <2>5. CASE /\ blob = w /\ master # "none" /\ key[w] = master
             /\ pub = "none" /\ priv = "none"
    BY <1>1, <2>3, <2>5, JobsAssumption DEF PamReads, SoftReads, SealTypeOK
  <2>. QED
    BY <2>2, <2>4, <2>5 DEF JobInv, InvSealed
<1>2. SealTypeOK /\ SealInv /\ [SealNext]_sealVars => [ring' # ring => PamReads # Nothing]_sealVars
  BY <1>1
<1>. QED
  BY <1>2, SealTypeCorrect, SealInvariance, PTL DEF SealSpec, RingMovedAfterSeal

(* Neither a key nor the login keyring is lost to a job.                   *)
THEOREM KeysStandAlways ==
  ASSUME ~Overlap
  PROVE  SealSpec => KeysStand
BY MasterKeyKept, RingMovedSafely DEF KeysStand

-----------------------------------------------------------------------------
(* Who can have taken a step in which a job ends well.                     *)
LEMMA DoneSteps ==
  ASSUME SealTypeOK, [SealNext]_sealVars, NEW w \in Jobs, at[w] # "done", at'[w] = "done"
  PROVE  Finish(w) \/ DeletePending(w)
BY DEF SealTypeOK, SealNext, SealSteps, DisableSteps, Step, StartSeal, StartDisable, Begin, ChooseTpm,
       ChooseSoftware, CreatePrimary, WritePub, WritePriv, CreateStops, DropBlob, UseKey, MissKey,
       MakeKey, RenameKey, OpenBlob, WriteBlob, DropPub, DropPriv, Finish, DeleteBlob, DeletePub,
       DeletePriv, DeletePending, Fail, Kill, ToolsRemoved

(* A disable that reports success has removed every file and the marker:   *)
(* no reader gets a password, and pam_sm_setcred does not seal again.      *)
THEOREM DisableLeavesNothing ==
  ASSUME ~Overlap
  PROVE  SealSpec => DisableForgets
PROOF
<1>1. ASSUME SealTypeOK, SealInv, [SealNext]_sealVars, NEW w \in Jobs,
             kind[w] = "disable", at[w] # "done", at'[w] = "done"
      PROVE  ~Remembered' /\ priv' = "none" /\ RestoreReads' = Nothing
  <2>1. JobInv(w)
    BY <1>1 DEF SealInv
  <2>2. DeletePending(w)
    BY <1>1, <2>1, DoneSteps DEF JobInv, InvKind, Finish, Step
  <2>3. /\ pending' = FALSE /\ blob' = "none" /\ pub' = "none" /\ priv' = "none"
    BY <2>1, <2>2 DEF DeletePending, Step, JobInv, InvDisable
  <2>. QED
    BY <2>3, JobsAssumption DEF Remembered, RestoreReads, TpmReads, SoftReads
<1>. DEFINE Forgets == \A w \in Jobs :
              kind[w] = "disable" /\ at[w] # "done" /\ at'[w] = "done" =>
                ~Remembered' /\ priv' = "none" /\ RestoreReads' = Nothing
<1>2. SealTypeOK /\ SealInv /\ [SealNext]_sealVars => [Forgets]_sealVars
  BY <1>1
<1>. QED
  BY <1>2, SealTypeCorrect, SealInvariance, PTL DEF SealSpec, DisableForgets

(* Whatever a job of either kind reports, the readers find it so.          *)
THEOREM ReportsHoldAlways ==
  ASSUME ~Overlap
  PROVE  SealSpec => ReportsHold
BY SealedPasswordIsRead, DisableLeavesNothing DEF ReportsHold

-----------------------------------------------------------------------------
(* What a login reads, from one step of a seal to the next.                *)

(* A password that a TPM seal replaces is still read, or the new one is.   *)
LEMMA TpmSealKeepsPassword ==
  ASSUME SealTypeOK, SealInv, ~Overlap, NEW w \in Jobs, PamReads # Nothing,
         ChooseTpm(w) \/ CreatePrimary(w) \/ DropBlob(w)
  PROVE  PamReads' # Nothing
PROOF
<1>1. JobInv(w)
  BY DEF SealInv
<1>2. CASE ChooseTpm(w)
  BY <1>2, JobsAssumption DEF ChooseTpm, PamReads, TpmReads, SoftReads
<1>3. CASE CreatePrimary(w)
  BY <1>3 DEF CreatePrimary, PamReads, TpmReads, SoftReads
<1>4. CASE DropBlob(w)
  <2>1. /\ tools /\ pub = w /\ priv = w /\ pw[w] # Nothing /\ w \notin {"none", "torn", "legacy"}
        /\ UNCHANGED <<tools, pub, priv, pw>>
    BY <1>1, <1>4, JobsAssumption, PasswordsAssumption
       DEF DropBlob, Step, JobInv, InvTpm, InvPassword, TpmSteps
  <2>. QED
    BY <2>1 DEF PamReads, TpmReads
<1>. QED
  BY <1>2, <1>3, <1>4

(* So it is while a software seal goes on, but for the moment in which the *)
(* blob is written in place and no TPM seal is read instead of it.         *)
LEMMA SoftSealKeepsPassword ==
  ASSUME SealTypeOK, SealInv, ~Overlap, NEW w \in Jobs, PamReads # Nothing,
         \/ ChooseSoftware(w) \/ UseKey(w) \/ MissKey(w) \/ MakeKey(w) \/ RenameKey(w)
         \/ WriteBlob(w) \/ DropPub(w) \/ DropPriv(w)
         \/ OpenBlob(w) /\ pub # "none" /\ priv # "none"
  PROVE  PamReads' # Nothing
PROOF
<1>1. JobInv(w) /\ w \notin {"none", "torn", "legacy"}
  BY JobsAssumption DEF SealInv
<1>2. CASE ChooseSoftware(w) \/ MissKey(w) \/ MakeKey(w)
  BY <1>2 DEF ChooseSoftware, MissKey, MakeKey, PamReads, TpmReads, SoftReads
<1>3. CASE UseKey(w)
  <2>1. /\ key \in [Jobs -> Jobs \cup {"none"}] /\ key' = [key EXCEPT ![w] = master]
        /\ UNCHANGED <<tools, pub, priv, blob, master, pw>>
    BY <1>3 DEF SealTypeOK, UseKey
  <2>2. SoftReads # Nothing => SoftReads' # Nothing
    BY <2>1 DEF SoftReads
  <2>. QED
    BY <2>1, <2>2 DEF PamReads, TpmReads
<1>4. CASE RenameKey(w)
  <2>1. master = "none" /\ UNCHANGED <<tools, pub, priv, pw>>
    BY <1>1, <1>4 DEF RenameKey, Step, JobInv, InvSoft
  <2>2. SoftReads = Nothing
    BY <2>1, JobsAssumption DEF SoftReads
  <2>. QED
    BY <2>1, <2>2 DEF PamReads, TpmReads
<1>5. CASE WriteBlob(w)
  <2>1. /\ blob' = w /\ master \in Jobs /\ key[w] = master /\ pw[w] # Nothing
        /\ UNCHANGED <<tools, pub, priv, master, key, pw>>
    BY <1>1, <1>5, PasswordsAssumption
       DEF WriteBlob, Step, JobInv, InvSoft, InvPassword, SoftSteps, SealTypeOK
  <2>. QED
    BY <2>1 DEF PamReads, TpmReads, SoftReads
<1>6. CASE DropPub(w) \/ DropPriv(w)
  <2>1. /\ blob = w /\ master \in Jobs /\ key[w] = master /\ pw[w] # Nothing
        /\ pub' = "none" \/ priv' = "none"
        /\ UNCHANGED <<blob, master, key, pw>>
    BY <1>1, <1>6, PasswordsAssumption
       DEF DropPub, DropPriv, Step, JobInv, InvSoft, InvPassword, SoftSteps, SealTypeOK
  <2>. QED
    BY <2>1 DEF PamReads, SoftReads
<1>7. CASE OpenBlob(w) /\ pub # "none" /\ priv # "none"
  BY <1>7 DEF OpenBlob, PamReads, TpmReads
<1>. QED
  BY <1>2, <1>3, <1>4, <1>5, <1>6, <1>7

(* A software blob that is read stays so while tpm2_create makes a pair     *)
(* where there was none, unless it is stopped at an empty private file.    *)
LEMMA TpmStartKeepsPassword ==
  ASSUME SealTypeOK, SealInv, ~Overlap, NEW w \in Jobs, PamReads # Nothing,
         WritePub(w) \/ WritePriv(w) \/ CreateStops(w),
         TpmReads = Nothing, at[w] = "pub" => priv = "none", priv' # "torn"
  PROVE  PamReads' # Nothing
PROOF
<1>1. /\ JobInv(w) /\ w \notin {"none", "torn", "legacy"}
      /\ at[w] \in {"pub", "priv"} => pw[w] # Nothing /\ tools
  BY JobsAssumption, PasswordsAssumption DEF SealInv, JobInv, InvTpm, InvPassword, TpmSteps
<1>2. /\ UNCHANGED <<tools, blob, master, key, pw>>
      /\ PamReads = SoftReads /\ SoftReads' = SoftReads /\ (pub = "none" \/ priv = "none")
  BY DEF WritePub, WritePriv, CreateStops, PamReads, SoftReads, flags, keyVars, jobVars
<1>3. CASE WritePub(w)
  BY <1>2, <1>3 DEF WritePub, PamReads
<1>4. CASE WritePriv(w)
  <2>1. tools' /\ pub' = w /\ priv' = w /\ pw'[w] # Nothing
    BY <1>1, <1>2, <1>4 DEF WritePriv, JobInv, InvTpm
  <2>. QED
    BY <1>1, <2>1 DEF PamReads, TpmReads
<1>5. CASE CreateStops(w)
  <2>1. CASE at[w] = "pub"
    BY <1>2, <1>5, <2>1 DEF CreateStops, PamReads
  <2>2. CASE at[w] = "priv"
    BY <1>1, <1>2, <1>5, <2>2 DEF CreateStops, PamReads, JobInv, InvTpm
  <2>. QED
    BY <1>5, <2>1, <2>2 DEF CreateStops
<1>. QED
  BY <1>3, <1>4, <1>5

(* A job that starts, is done, fails or is killed takes no password away.  *)
LEMMA EndsKeepPassword ==
  ASSUME SealTypeOK, NEW w \in Jobs, PamReads # Nothing,
         StartSeal(w) \/ StartDisable(w) \/ Finish(w) \/ Fail(w) \/ Kill(w)
  PROVE  PamReads' # Nothing
PROOF
<1>1. CASE StartSeal(w)
  <2>1. PICK p \in Passwords : pw' = [pw EXCEPT ![w] = p]
    BY <1>1 DEF StartSeal
  <2>2. /\ pw \in [Jobs -> Passwords \cup {Nothing}] /\ p # Nothing
        /\ UNCHANGED <<tools, pub, priv, blob, master, key>>
    BY <1>1, PasswordsAssumption DEF SealTypeOK, StartSeal, Begin
  <2>3. \A v \in Jobs : pw[v] # Nothing => pw'[v] # Nothing
    BY <2>1, <2>2
  <2>. QED
    BY <2>2, <2>3 DEF PamReads, TpmReads, SoftReads
<1>2. CASE StartDisable(w) \/ Finish(w) \/ Fail(w) \/ Kill(w)
  BY <1>2 DEF StartDisable, Begin, Finish, Fail, Kill, PamReads, TpmReads, SoftReads
<1>. QED
  BY <1>1, <1>2

(* The steps in which a login may lose the sealed password.                *)
THEOREM PasswordLostInPlace ==
  ASSUME ~Overlap
  PROVE  SealSpec => LostOnlyInPlace
PROOF
<1>. DEFINE Cause ==
       \/ tools /\ ~tools'
       \/ \E w \in Jobs :
            \/ kind[w] = "disable" /\ at'[w] # at[w]
            \/ /\ at[w] \in {"pub", "priv"} /\ at'[w] # at[w]
               /\ TpmReads # Nothing \/ (at[w] = "pub" /\ priv # "none") \/ priv' = "torn"
            \/ at[w] = "open" /\ at'[w] = "write" /\ (pub = "none" \/ priv = "none")
<1>1. ASSUME SealTypeOK, SealInv, [SealNext]_sealVars, PamReads # Nothing, PamReads' = Nothing
      PROVE  Cause
  <2>1. ASSUME NEW w \in Jobs, SealSteps(w) PROVE Cause
    <3>1. CASE WritePub(w) \/ WritePriv(w) \/ CreateStops(w)
      <4>1. at[w] \in {"pub", "priv"} /\ at'[w] # at[w]
        BY <1>1, <3>1 DEF SealTypeOK, WritePub, WritePriv, CreateStops
      <4>2. TpmReads # Nothing \/ (at[w] = "pub" /\ priv # "none") \/ priv' = "torn"
        BY <1>1, <2>1, <3>1, TpmStartKeepsPassword
      <4>. QED
        BY <4>1, <4>2
    <3>2. CASE OpenBlob(w) /\ (pub = "none" \/ priv = "none")
      <4>1. at[w] = "open" /\ at'[w] = "write"
        BY <1>1, <3>2 DEF SealTypeOK, OpenBlob, Step
      <4>. QED
        BY <3>2, <4>1
    <3>. QED
      BY <1>1, <2>1, <3>1, <3>2, TpmSealKeepsPassword, SoftSealKeepsPassword, EndsKeepPassword
         DEF SealSteps
  <2>2. ASSUME NEW w \in Jobs, DisableSteps(w) PROVE Cause
    <3>1. CASE StartDisable(w)
      BY <1>1, <3>1, EndsKeepPassword
    <3>2. CASE DeleteBlob(w) \/ DeletePub(w) \/ DeletePriv(w) \/ DeletePending(w)
      <4>1. /\ at[w] \in {"delBlob", "delPub", "delPriv", "delPending"} /\ at'[w] # at[w]
        BY <1>1, <3>2 DEF SealTypeOK, Step, DeleteBlob, DeletePub, DeletePriv, DeletePending
      <4>2. kind[w] = "disable"
        BY <1>1, <4>1 DEF SealInv, JobInv, InvKind
      <4>. QED
        BY <4>1, <4>2
    <3>. QED
      BY <2>2, <3>1, <3>2 DEF DisableSteps
  <2>3. ASSUME NEW w \in Jobs, Fail(w) \/ Kill(w) PROVE Cause
    BY <1>1, <2>3, EndsKeepPassword
  <2>4. CASE ToolsRemoved
    <3>1. CASE tools
      BY <2>4, <3>1 DEF ToolsRemoved
    <3>2. CASE ~tools
      BY <1>1, <2>4, <3>2 DEF ToolsRemoved, PamReads, TpmReads, SoftReads
    <3>. QED
      BY <3>1, <3>2
  <2>5. CASE UNCHANGED sealVars
    BY <1>1, <2>5 DEF PamReads, TpmReads, SoftReads
  <2>. QED
    BY <1>1, <2>1, <2>2, <2>3, <2>4, <2>5 DEF SealNext
<1>2. SealTypeOK /\ SealInv /\ [SealNext]_sealVars => [PamReads # Nothing /\ PamReads' = Nothing => Cause]_sealVars
  BY <1>1
<1>. QED
  BY <1>2, SealTypeCorrect, SealInvariance, PTL DEF SealSpec, LostOnlyInPlace

(* The request to seal at the next login is dropped by a helper that has   *)
(* sealed, and by a disable.                                               *)
THEOREM RequestIsKept ==
  ASSUME ~Overlap
  PROVE  SealSpec => RequestKept
PROOF
<1>. DEFINE Served == PamReads' # Nothing \/ \E w \in Jobs : kind[w] = "disable" /\ at'[w] # at[w]
<1>1. ASSUME SealTypeOK, SealInv, [SealNext]_sealVars, pending, ~pending'
      PROVE  Served
  <2>1. PICK w \in Jobs : Finish(w) \/ DeletePending(w)
    BY <1>1 DEF SealNext, SealSteps, DisableSteps, StartSeal, StartDisable, Begin,
         ChooseTpm, ChooseSoftware, CreatePrimary, WritePub, WritePriv, CreateStops, DropBlob,
         UseKey, MissKey, MakeKey, RenameKey, OpenBlob, WriteBlob, DropPub, DropPriv,
         DeleteBlob, DeletePub, DeletePriv, Fail, Kill, ToolsRemoved
  <2>2. JobInv(w)
    BY <1>1 DEF SealInv
  <2>3. CASE Finish(w)
    <3>1. at[w] = "sealed" /\ UNCHANGED <<tools, blob, tpmFiles, keyVars, pw>>
      BY <2>3 DEF Finish, Step
    <3>2. pw[w] # Nothing /\ w \notin {"none", "torn", "legacy"}
      BY <2>2, <3>1, PasswordsAssumption, JobsAssumption DEF JobInv, InvPassword
    <3>3. CASE tools /\ pub = w /\ priv = w
      BY <3>1, <3>2, <3>3 DEF PamReads, TpmReads
    <3>4. CASE /\ blob = w /\ master # "none" /\ key[w] = master
               /\ pub = "none" /\ priv = "none"
      BY <1>1, <3>1, <3>2, <3>4, JobsAssumption DEF PamReads, SoftReads, SealTypeOK
    <3>. QED
      BY <2>2, <3>1, <3>3, <3>4 DEF JobInv, InvSealed
  <2>4. CASE DeletePending(w)
    <3>1. kind[w] = "disable" /\ at'[w] # at[w]
      BY <1>1, <2>2, <2>4 DEF SealTypeOK, DeletePending, Step, JobInv, InvKind
    <3>. QED
      BY <3>1
  <2>. QED
    BY <2>1, <2>3, <2>4
<1>2. SealTypeOK /\ SealInv /\ [SealNext]_sealVars => [pending /\ ~pending' => Served]_sealVars
  BY <1>1
<1>. QED
  BY <1>2, SealTypeCorrect, SealInvariance, PTL DEF SealSpec, RequestKept

(* A sealed password or the request for one is lost only where a job must  *)
(* lose it.                                                                *)
THEOREM LossesHaveCauseAlways ==
  ASSUME ~Overlap
  PROVE  SealSpec => LossesHaveCause
BY PasswordLostInPlace, RequestIsKept DEF LossesHaveCause
=============================================================================
