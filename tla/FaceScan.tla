------------------------------ MODULE FaceScan ------------------------------
(***************************************************************************)
(* compare.py after its signal handlers are installed: the main thread     *)
(* that opens the camera and runs the recognition loop, the detector       *)
(* thread it joins, the thread that watches the login session for idleness,*)
(* the thread that sends the in-progress card, and SIGTERM, whose handler  *)
(* runs on the main thread between two steps of whatever it interrupts.    *)
(*                                                                         *)
(* Time is counted in ticks and passes while the loop handles a frame.     *)
(***************************************************************************)
EXTENDS Naturals

CONSTANTS
  Setups,        \* the sets of features a scan may be configured with
  Timeout,       \* video.timeout: recognition time after the first usable frame
  Acquisition,   \* video.acquisition_timeout: time to the first usable frame
  Confirmations, \* video.confirmations: frames that must agree
  TurnMax,       \* longest turn of the loop
  MaxFailures,   \* unreadable idle hints before the watcher gives up
  MaxSignals     \* bound on the SIGTERMs sent from outside

(* rubberstamps.enabled, an auth overlay on a display, a notification      *)
(* service on the user's session bus, core.abort_on_session_idle.          *)
Features == {"stamps", "overlay", "bus", "watch"}

ASSUME SetupsAssumption == Setups \subseteq SUBSET Features /\ Setups # {}
ASSUME BoundsAssumption ==
  /\ {Timeout, Acquisition, MaxSignals} \subseteq Nat
  /\ {Confirmations, TurnMax, MaxFailures} \subseteq Nat \ {0}

VARIABLES
  setup,        \* the configuration of this scan
  main,         \* where the main thread is
  handler,      \* how far _signal_exit has come on top of the main thread
  verdict,      \* the exit code decided on
  cleanedUp,    \* _cleaned_up
  sigterm,      \* SIGTERM pending
  signals,      \* SIGTERMs sent from outside
  detector,     \* init_detector
  scan,         \* the counters and clocks of the loop
  session,      \* login1's IdleHint for the session
  watcher,      \* the session watcher and the answer it holds
  stateLock,    \* the main thread holds the notifier's _lock
  ioLock,       \* the notifier's _io_lock: who holds it
  starter,      \* the thread start() sends the progress card from
  finalized,    \* a result card has been claimed
  disabled,     \* a send has failed: no more cards
  shown         \* the card on the user's screen

signalVars == <<sigterm, signals>>
watchVars == <<session, watcher>>
cardVars  == <<stateLock, ioLock, starter, finalized, disabled, shown>>
vars == <<setup, main, handler, verdict, cleanedUp, signalVars, detector, scan,
          watchVars, cardVars>>

(* No exit code yet. *)
NoCode == 99

Silent == disabled \/ "bus" \notin setup

Goto(from, to) == main = from /\ handler = "none" /\ main' = to

(* The card that goes with an exit code; exits 1 and 14 have none. *)
CardOf(code) ==
  CASE code = 0  -> "success"
    [] code = 11 -> "timeout"
    [] code = 13 -> "dark"
    [] code = 15 -> "rejected"
    [] code = 12 -> "cancelled"
    [] OTHER     -> "none"

-----------------------------------------------------------------------------
(* Opening the camera and joining the detector.                            *)

OpenCamera ==
  /\ Goto("opening", "joining")
  /\ UNCHANGED <<setup, handler, verdict, cleanedUp, signalVars, detector, scan,
                 watchVars, cardVars>>

(* No device, or six attempts to open it: sys.exit, or the reader's own    *)
(* exception, without cleanup().                                           *)
CameraFails ==
  /\ Goto("opening", "unwinding")
  /\ verdict' \in {14, 1}
  /\ UNCHANGED <<setup, handler, cleanedUp, signalVars, detector, scan, watchVars,
                 cardVars>>

(* Mutant: the lock stays held when a constructor raises. *)
DetectorRaises ==
  /\ detector = "loading"
  /\ detector' \in {"ready", "raised"}
  /\ UNCHANGED <<setup, main, handler, verdict, cleanedUp, signalVars, scan, watchVars,
                 cardVars>>

(* init_detector, which releases the lock on every path. *)
DetectorEnds ==
  /\ detector = "loading"
  /\ detector' \in {"ready", "failed"}
  /\ UNCHANGED <<setup, main, handler, verdict, cleanedUp, signalVars, scan, watchVars,
                 cardVars>>

(* The models are loaded: the progress card is started and the loop begins. *)
StartLoop ==
  /\ Goto("joining", "top")
  /\ detector = "ready"
  /\ starter' = IF Silent THEN "done" ELSE "sending"
  /\ UNCHANGED <<setup, handler, verdict, cleanedUp, signalVars, detector, scan,
                 watchVars, stateLock, ioLock, finalized, disabled, shown>>

DetectorFailed ==
  /\ Goto("joining", "exiting")
  /\ detector = "failed"
  /\ verdict' = 1
  /\ UNCHANGED <<setup, handler, cleanedUp, signalVars, detector, scan, watchVars,
                 cardVars>>

-----------------------------------------------------------------------------
(* The recognition loop.                                                   *)

(* _recognition_timeout_kind *)
TimeoutKind ==
  IF ~scan.usable
  THEN IF scan.elapsed >= Acquisition THEN "acquisition" ELSE "none"
  ELSE IF scan.recognising >= Timeout THEN "recognition" ELSE "none"

NextFrame ==
  /\ Goto("top", "reading")
  /\ TimeoutKind = "none"
  /\ UNCHANGED <<setup, handler, verdict, cleanedUp, signalVars, detector, scan,
                 watchVars, cardVars>>

TimeOut ==
  /\ Goto("top", "carding")
  /\ TimeoutKind # "none"
  /\ verdict' = IF TimeoutKind = "acquisition" \/ scan.dark = scan.valid THEN 13 ELSE 11
  /\ UNCHANGED <<setup, handler, cleanedUp, signalVars, detector, scan, watchVars,
                 cardVars>>

(* A turn of d ticks, the last "late" of them after the frame was read:    *)
(* the clocks move and the frame is counted.  It is black, dark, usable    *)
(* without a confident match, or a match, and counts as one match whatever *)
(* faces it shows.                                                         *)
Turn(d, late, frame) ==
  LET isUsable == frame \in {"plain", "match"}
      Count(n, yes) == IF yes THEN n + 1 ELSE n
  IN scan' = [elapsed     |-> scan.elapsed + d,
              recognising |-> IF scan.usable THEN scan.recognising + d
                              ELSE IF isUsable THEN late ELSE 0,
              usable      |-> scan.usable \/ isUsable,
              valid       |-> Count(scan.valid, frame # "black"),
              dark        |-> Count(scan.dark, frame = "dark"),
              confirmed   |-> Count(scan.confirmed, frame = "match")]

SkipFrame ==
  /\ Goto("reading", "top")
  /\ \E d \in 1 .. TurnMax, late \in 0 .. TurnMax, frame \in {"black", "dark", "plain"} :
        late <= d /\ Turn(d, late, frame)
  /\ UNCHANGED <<setup, handler, verdict, cleanedUp, signalVars, detector, watchVars,
                 cardVars>>

CountMatch ==
  /\ Goto("reading", "top")
  /\ \E d \in 1 .. TurnMax, late \in 0 .. TurnMax : late <= d /\ Turn(d, late, "match")
  /\ scan.confirmed + 1 < Confirmations
  /\ UNCHANGED <<setup, handler, verdict, cleanedUp, signalVars, detector, watchVars,
                 cardVars>>

(* Mutant: one frame too few. *)
RecogniseEarly ==
  /\ Goto("reading", IF "stamps" \in setup THEN "stamping" ELSE "carding")
  /\ \E d \in 1 .. TurnMax : Turn(d, 0, "match")
  /\ scan.confirmed + 2 >= Confirmations
  /\ verdict' = IF "stamps" \in setup THEN verdict ELSE 0
  /\ UNCHANGED <<setup, handler, cleanedUp, signalVars, detector, watchVars, cardVars>>

(* Enough frames agree: success, or the rubberstamps decide. *)
Recognise ==
  /\ Goto("reading", IF "stamps" \in setup THEN "stamping" ELSE "carding")
  /\ \E d \in 1 .. TurnMax, late \in 0 .. TurnMax : late <= d /\ Turn(d, late, "match")
  /\ scan.confirmed + 1 >= Confirmations
  /\ verdict' = IF "stamps" \in setup THEN verdict ELSE 0
  /\ UNCHANGED <<setup, handler, cleanedUp, signalVars, detector, watchVars, cardVars>>

(* The camera returns no frame, or OpenCV fails on it. *)
ReadFails ==
  /\ Goto("reading", "unwinding")
  /\ verdict' \in {14, 1}
  /\ UNCHANGED <<setup, handler, cleanedUp, signalVars, detector, scan, watchVars,
                 cardVars>>

(* rubberstamps.execute ends with sys.exit(0) or sys.exit(15); under a     *)
(* stamp the camera may also fail, or a rule be malformed.                 *)
StampsDecide ==
  /\ Goto("stamping", "carding")
  /\ verdict' \in {0, 15, 14}
  /\ UNCHANGED <<setup, handler, cleanedUp, signalVars, detector, scan, watchVars,
                 cardVars>>

StampsCrash ==
  /\ Goto("stamping", "unwinding")
  /\ verdict' = 1
  /\ UNCHANGED <<setup, handler, cleanedUp, signalVars, detector, scan, watchVars,
                 cardVars>>

-----------------------------------------------------------------------------
(* AuthNotifier._notify: the state lock, _lock, is held while a card is    *)
(* claimed, then the I/O lock for the whole call of the notification       *)
(* service.  The starter and its moments with _lock are single steps; the  *)
(* main thread's are not, as a signal may come in the middle of them.      *)

(* The result card of the main thread: with _lock, it is claimed; with the *)
(* lock let go, it queues for the I/O lock.                                *)
ClaimCard ==
  /\ Goto("carding", "claiming")
  /\ ~Silent
  /\ ~stateLock
  /\ stateLock' = TRUE
  /\ finalized' = TRUE
  /\ UNCHANGED <<setup, handler, verdict, cleanedUp, signalVars, detector, scan,
                 watchVars, ioLock, starter, disabled, shown>>

CardClaimed ==
  /\ Goto("claiming", "queued")
  /\ stateLock' = FALSE
  /\ UNCHANGED <<setup, handler, verdict, cleanedUp, signalVars, detector, scan,
                 watchVars, ioLock, starter, finalized, disabled, shown>>

AfterCard ==
  IF "stamps" \in setup /\ verdict \in {0, 15, 14} THEN "unwinding" ELSE "exiting"

(* Whatever but 0 comes out of the stamps is announced as a rejection.     *)
SentCard == IF verdict = 14 THEN "rejected" ELSE CardOf(verdict)

BeginSend ==
  /\ Goto("queued", "sending")
  /\ ~Silent
  /\ ioLock = "free"
  /\ ioLock' = "main"
  /\ UNCHANGED <<setup, handler, verdict, cleanedUp, signalVars, detector, scan,
                 watchVars, stateLock, starter, finalized, disabled, shown>>

(* No card can be sent, from the start or by now. *)
NoCard ==
  /\ \E here \in {"carding", "queued"} : Goto(here, AfterCard)
  /\ Silent
  /\ UNCHANGED <<setup, handler, verdict, cleanedUp, signalVars, detector, scan,
                 watchVars, cardVars>>

(* The notification service takes a card, or it fails or times out. *)
Deliver(card) ==
  /\ ioLock' = "free"
  /\ \/ shown' = card /\ UNCHANGED disabled
     \/ disabled' = TRUE /\ UNCHANGED shown

EndSend ==
  /\ Goto("sending", AfterCard)
  /\ Deliver(SentCard)
  /\ UNCHANGED <<setup, handler, verdict, cleanedUp, signalVars, detector, scan,
                 watchVars, stateLock, starter, finalized>>

(* A stamp shows its challenge on the progress card, from the main thread, *)
(* by the same two locks.                                                  *)
StampPrompts ==
  /\ Goto("stamping", "checking")
  /\ ~finalized /\ ~Silent
  /\ ~stateLock
  /\ stateLock' = TRUE
  /\ UNCHANGED <<setup, handler, verdict, cleanedUp, signalVars, detector, scan,
                 watchVars, ioLock, starter, finalized, disabled, shown>>

StampPromptQueues ==
  /\ Goto("checking", "asking")
  /\ stateLock' = FALSE
  /\ UNCHANGED <<setup, handler, verdict, cleanedUp, signalVars, detector, scan,
                 watchVars, ioLock, starter, finalized, disabled, shown>>

StampPromptBegins ==
  /\ Goto("asking", "prompting")
  /\ ~finalized /\ ~Silent
  /\ ioLock = "free"
  /\ ioLock' = "main"
  /\ UNCHANGED <<setup, handler, verdict, cleanedUp, signalVars, detector, scan,
                 watchVars, stateLock, starter, finalized, disabled, shown>>

StampPromptDropped ==
  /\ Goto("asking", "stamping")
  /\ Silent
  /\ UNCHANGED <<setup, handler, verdict, cleanedUp, signalVars, detector, scan,
                 watchVars, cardVars>>

StampPromptEnds ==
  /\ Goto("prompting", "stamping")
  /\ Deliver("progress")
  /\ UNCHANGED <<setup, handler, verdict, cleanedUp, signalVars, detector, scan,
                 watchVars, stateLock, starter, finalized>>

(* Mutant: a late progress card is sent all the same. *)
StarterBeginsLate ==
  /\ starter = "sending"
  /\ main # "ended"
  /\ ~stateLock
  /\ ioLock = "free"
  /\ IF Silent
     THEN starter' = "done" /\ UNCHANGED ioLock
     ELSE starter' = "sent" /\ ioLock' = "starter"
  /\ UNCHANGED <<setup, main, handler, verdict, cleanedUp, signalVars, detector, scan,
                 watchVars, stateLock, finalized, disabled, shown>>

(* The progress card, from its own thread, unless a result has overtaken it. *)
StarterBegins ==
  /\ starter = "sending"
  /\ main # "ended"
  /\ ~stateLock
  /\ ioLock = "free"
  /\ IF finalized \/ Silent
     THEN starter' = "done" /\ UNCHANGED ioLock
     ELSE starter' = "sent" /\ ioLock' = "starter"
  /\ UNCHANGED <<setup, main, handler, verdict, cleanedUp, signalVars, detector, scan,
                 watchVars, stateLock, finalized, disabled, shown>>

StarterEnds ==
  /\ starter = "sent"
  /\ ~stateLock
  /\ starter' = "done"
  /\ Deliver("progress")
  /\ UNCHANGED <<setup, main, handler, verdict, cleanedUp, signalVars, detector, scan,
                 watchVars, stateLock, finalized>>

-----------------------------------------------------------------------------
(* The ways out.                                                           *)

(* exit(code): cleanup() first. *)
ExitCleansUp ==
  /\ Goto("exiting", "cleaning")
  /\ cleanedUp' = TRUE
  /\ UNCHANGED <<setup, handler, verdict, signalVars, detector, scan, watchVars, cardVars>>

ExitEnds ==
  /\ Goto("cleaning", "ended")
  /\ UNCHANGED <<setup, handler, verdict, cleanedUp, signalVars, detector, scan,
                 watchVars, cardVars>>

(* sys.exit from elsewhere: cleanup() runs only as the atexit handler that *)
(* is registered along with the overlay.                                   *)
Unwind ==
  /\ Goto("unwinding", IF "overlay" \in setup THEN "cleaning" ELSE "ended")
  /\ cleanedUp' = ("overlay" \in setup)
  /\ UNCHANGED <<setup, handler, verdict, signalVars, detector, scan, watchVars, cardVars>>

(* SIGTERM, from the PAM module, from the kernel when the program that     *)
(* called PAM dies, or from a user.                                        *)
SignalArrives ==
  /\ main # "ended"
  /\ signals < MaxSignals
  /\ signals' = signals + 1
  /\ sigterm' = TRUE
  /\ UNCHANGED <<setup, main, handler, verdict, cleanedUp, detector, scan, watchVars,
                 cardVars>>

(* Mutants: _cleaned_up is not looked at; no card is sent.                 *)
SignalUnchecked ==
  /\ sigterm
  /\ main \notin {"reading", "ended"}
  /\ sigterm' = FALSE
  /\ handler' = IF Silent THEN "carded" ELSE "claiming"
  /\ UNCHANGED <<setup, main, verdict, cleanedUp, signals, detector, scan, watchVars,
                 cardVars>>

SignalWithoutCard ==
  /\ sigterm
  /\ main \notin {"reading", "ended"}
  /\ sigterm' = FALSE
  /\ handler' = IF cleanedUp THEN handler ELSE "carded"
  /\ UNCHANGED <<setup, main, verdict, cleanedUp, signals, detector, scan, watchVars,
                 cardVars>>

(* Python runs _signal_exit on the main thread, on top of what it is doing *)
(* there, though not inside a call into the camera library.  A second      *)
(* SIGTERM runs it on top of itself.                                       *)
SignalHandled ==
  /\ sigterm
  /\ main \notin {"reading", "ended"}
  /\ sigterm' = FALSE
  /\ handler' = CASE cleanedUp -> handler [] ~cleanedUp /\ Silent -> "carded"
                  [] OTHER -> "claiming"
  /\ UNCHANGED <<setup, main, verdict, cleanedUp, signals, detector, scan, watchVars,
                 cardVars>>

(* The handler's own card takes both locks like any other; neither can be  *)
(* taken twice by one thread.                                              *)
HandlerClaims ==
  /\ handler = "claiming"
  /\ ~stateLock
  /\ handler' = "holding"
  /\ stateLock' = TRUE
  /\ finalized' = TRUE
  /\ UNCHANGED <<setup, main, verdict, cleanedUp, signalVars, detector, scan, watchVars,
                 ioLock, starter, disabled, shown>>

HandlerQueues ==
  /\ handler = "holding"
  /\ handler' = "queued"
  /\ stateLock' = FALSE
  /\ UNCHANGED <<setup, main, verdict, cleanedUp, signalVars, detector, scan, watchVars,
                 ioLock, starter, finalized, disabled, shown>>

HandlerBeginsSend ==
  /\ handler = "queued"
  /\ ~Silent
  /\ ioLock = "free"
  /\ handler' = "sending"
  /\ ioLock' = "main"
  /\ UNCHANGED <<setup, main, verdict, cleanedUp, signalVars, detector, scan, watchVars,
                 stateLock, starter, finalized, disabled, shown>>

HandlerEndsSend ==
  /\ handler = "sending"
  /\ handler' = "carded"
  /\ Deliver("cancelled")
  /\ UNCHANGED <<setup, main, verdict, cleanedUp, signalVars, detector, scan, watchVars,
                 stateLock, starter, finalized>>

(* cleanup(), then os._exit(12). *)
HandlerCleansUp ==
  /\ handler = "carded" \/ (handler = "queued" /\ Silent)
  /\ handler' = "none"
  /\ main' = "cleaning"
  /\ verdict' = 12
  /\ cleanedUp' = TRUE
  /\ UNCHANGED <<setup, signalVars, detector, scan, watchVars, cardVars>>

-----------------------------------------------------------------------------
(* _watch_session_idle.                                                    *)

Watching == watcher.at # "off" /\ main # "ended"

(* The session goes idle or wakes up. *)
SessionChanges ==
  /\ Watching
  /\ session' \in {"idle", "awake"}
  /\ UNCHANGED <<setup, main, handler, verdict, cleanedUp, signalVars, detector, scan,
                 watcher, cardVars>>

(* Two calls of busctl: the hint as it is now, or nothing usable. *)
WatcherAsks ==
  /\ Watching
  /\ watcher.at = "asking"
  /\ watcher' = IF cleanedUp THEN [watcher EXCEPT !.at = "off"]
                ELSE [watcher EXCEPT !.at = "answered", !.hint = session]
  /\ UNCHANGED <<setup, main, handler, verdict, cleanedUp, signalVars, detector, scan,
                 session, cardVars>>

WatcherGetsNothing ==
  /\ Watching
  /\ watcher.at = "asking"
  /\ ~cleanedUp
  /\ watcher' = [watcher EXCEPT !.failures = @ + 1,
                                !.at = IF watcher.failures + 1 >= MaxFailures
                                       THEN "off" ELSE "asking"]
  /\ UNCHANGED <<setup, main, handler, verdict, cleanedUp, signalVars, detector, scan,
                 session, cardVars>>

WatcherHearsAwake ==
  /\ Watching
  /\ watcher.at = "answered"
  /\ watcher.hint = "awake"
  /\ watcher' = [watcher EXCEPT !.failures = 0, !.seenAwake = TRUE, !.at = "asking"]
  /\ UNCHANGED <<setup, main, handler, verdict, cleanedUp, signalVars, detector, scan,
                 session, cardVars>>

(* Idle now, and awake before: abort, unless the scan is over already. *)
WatcherHearsIdle ==
  /\ Watching
  /\ watcher.at = "answered"
  /\ watcher.hint = "idle"
  /\ watcher' = [watcher EXCEPT !.failures = 0,
                                !.at = IF watcher.seenAwake /\ ~cleanedUp
                                       THEN "killing" ELSE "asking"]
  /\ UNCHANGED <<setup, main, handler, verdict, cleanedUp, signalVars, detector, scan,
                 session, cardVars>>

WatcherKills ==
  /\ Watching
  /\ watcher.at = "killing"
  /\ sigterm' = TRUE
  /\ watcher' = [watcher EXCEPT !.at = "off"]
  /\ UNCHANGED <<setup, main, handler, verdict, cleanedUp, signals, detector, scan, session,
                 cardVars>>

-----------------------------------------------------------------------------
Init ==
  /\ setup \in Setups
  /\ main = "opening"
  /\ handler = "none"
  /\ verdict = NoCode
  /\ cleanedUp = FALSE
  /\ sigterm = FALSE
  /\ signals = 0
  /\ detector = "loading"
  /\ scan = [elapsed |-> 0, recognising |-> 0, usable |-> FALSE, valid |-> 0, dark |-> 0,
             confirmed |-> 0]
  /\ session \in (IF "watch" \in setup THEN {"idle", "awake"} ELSE {"awake"})
  /\ watcher = [at |-> IF "watch" \in setup THEN "asking" ELSE "off", hint |-> "awake",
                seenAwake |-> FALSE, failures |-> 0]
  /\ stateLock = FALSE
  /\ ioLock = "free"
  /\ starter = "idle"
  /\ finalized = FALSE
  /\ disabled = FALSE
  /\ shown = "none"

Loop ==
  \/ NextFrame \/ TimeOut \/ SkipFrame \/ CountMatch \/ Recognise \/ ReadFails
  \/ StampPrompts \/ StampPromptQueues \/ StampPromptBegins \/ StampPromptDropped
  \/ StampPromptEnds \/ StampsDecide \/ StampsCrash

Main ==
  \/ OpenCamera \/ CameraFails \/ StartLoop \/ DetectorFailed \/ Loop
  \/ ClaimCard \/ CardClaimed \/ BeginSend \/ NoCard \/ EndSend \/ ExitCleansUp \/ ExitEnds \/ Unwind

Handler ==
  \/ SignalHandled \/ HandlerClaims \/ HandlerQueues
  \/ HandlerBeginsSend \/ HandlerEndsSend \/ HandlerCleansUp

Starter == StarterBegins \/ StarterEnds

Watcher ==
  WatcherAsks \/ WatcherGetsNothing \/ WatcherHearsAwake \/ WatcherHearsIdle \/ WatcherKills

Next ==
  Main \/ Handler \/ Starter \/ DetectorEnds \/ Watcher \/ SignalArrives \/ SessionChanges

Spec == Init /\ [][Next]_vars

(* The camera returns frames, the notification service answers or times    *)
(* out, and a stamp ends by its own timeout, however often it prompts;     *)
(* nothing is assumed of the session or of who sends SIGTERM.              *)
FairSpec ==
  /\ Spec
  /\ WF_vars(Main) /\ WF_vars(Handler) /\ WF_vars(Starter) /\ WF_vars(DetectorEnds)
  /\ SF_vars(StampsDecide \/ StampsCrash)

-----------------------------------------------------------------------------
Counters ==
  [elapsed : Nat, recognising : Nat, usable : BOOLEAN, valid : Nat, dark : Nat, confirmed : Nat]

Watchers ==
  [at : {"off", "asking", "answered", "killing"}, hint : {"idle", "awake"},
   seenAwake : BOOLEAN, failures : Nat]

(* Type correctness. *)
TypeOK ==
  /\ setup \in SUBSET Features
  /\ main \in {"opening", "joining", "top", "reading", "stamping", "checking", "asking",
               "prompting", "carding", "claiming", "queued", "sending", "exiting", "unwinding", "cleaning", "ended"}
  /\ handler \in {"none", "claiming", "holding", "queued", "sending", "carded"}
  /\ verdict \in {0, 1, 11, 12, 13, 14, 15, NoCode}
  /\ cleanedUp \in BOOLEAN /\ sigterm \in BOOLEAN /\ signals \in 0 .. MaxSignals
  /\ detector \in {"loading", "ready", "failed"}
  /\ scan \in Counters
  /\ session \in {"idle", "awake"}
  /\ watcher \in Watchers
  /\ stateLock \in BOOLEAN /\ ioLock \in {"free", "main", "starter"}
  /\ starter \in {"idle", "sending", "sent", "done"}
  /\ finalized \in BOOLEAN /\ disabled \in BOOLEAN
  /\ shown \in {"none", "progress", "success", "timeout", "dark", "rejected", "cancelled"}

(* compare exits with 0 only after enough separate usable frames agreed:   *)
(* neither a dark frame nor one frame counted twice can make up the number.*)
SuccessEarned ==
  verdict = 0 =>
     /\ scan.confirmed = Confirmations
     /\ scan.confirmed <= scan.valid - scan.dark

(* The exit code tells the user what to fix: 13, too dark, means that not  *)
(* one usable frame was seen in the whole acquisition time; 11 means that  *)
(* a face was looked for during the whole recognition time, so warm-up     *)
(* frames were not charged to it.                                          *)
TimeoutsHonest ==
  /\ verdict = 13 => ~scan.usable /\ scan.elapsed >= Acquisition
  /\ verdict = 11 => scan.valid > scan.dark /\ scan.recognising >= Timeout

(* The codes of the two ways out of the loop mean what they say.           *)
CodesHonest == SuccessEarned /\ TimeoutsHonest

CodesInv == TypeOK /\ CodesHonest

(* A scan never looks for longer than both timeouts and one slow turn for  *)
(* each: the loop keeps two clocks, and the second starts late.            *)
ScanBounded == scan.elapsed <= Acquisition + Timeout + 2 * TurnMax - 2

(* When compare has ended and cards could be sent, the card the user is    *)
(* left with is the one of the exit code PAM gets, whatever order the      *)
(* progress card, the result card and SIGTERM came in.                     *)
CardTellsOutcome ==
  main = "ended" /\ ~Silent /\ CardOf(verdict) # "none" => shown = CardOf(verdict)

Results == {"success", "timeout", "dark", "rejected", "cancelled"}

(* A progress card sent late never replaces a result card. *)
ResultCardStays ==
  [][(shown \in Results) => shown' # "progress"]_vars

(* Once cleanup() has begun the exit code stands: a SIGTERM, also the one  *)
(* the watcher sends on a stale answer, cannot turn success into an abort. *)
DecidedCodeStands == [][cleanedUp => verdict' = verdict]_vars

(* What has been decided stands, on the screen and as exit code.           *)
DecisionStands == ResultCardStays /\ DecidedCodeStands

(* The main thread waits for a lock it holds itself: the handler has       *)
(* interrupted _notify while it had _lock, or while it had _io_lock.       *)
SelfBlocked ==
  \/ handler = "claiming" /\ stateLock
  \/ handler = "queued" /\ ioLock = "main"

(* A scan comes to an end, also when the detector cannot load, unless      *)
(* _signal_exit has interrupted _notify on its own thread.                 *)
ScanEnds == <>(main = "ended" \/ SelfBlocked)

-----------------------------------------------------------------------------
(* What the PAM module sees of a scan. *)
LifeStage ==
  IF main = "ended" THEN "zombie" ELSE IF cleanedUp THEN "cleaning" ELSE "scanning"

LifeExit ==
  IF ~cleanedUp /\ main # "ended" THEN "none"
  ELSE CASE verdict = 0 -> "success" [] verdict = 12 -> "abort" [] OTHER -> "failure"

LifeTerm == sigterm \/ handler # "none"

Life == INSTANCE CompareLife WITH stage <- LifeStage, exit <- LifeExit, term <- LifeTerm

(* A scan behaves like the compare process PamIdentify reckons with. *)
ImplementsLife == Life!Spec

-----------------------------------------------------------------------------
(* The inductive invariant behind the proofs in LoginProofs.            *)

(* A usable frame is one that is neither black nor dark, and only usable   *)
(* frames agree.                                                           *)
InvFrames ==
  /\ scan.dark <= scan.valid
  /\ scan.usable <=> scan.dark < scan.valid
  /\ scan.confirmed <= scan.valid - scan.dark

(* The loop goes on only while frames are missing and time is left.        *)
InvLooping ==
  /\ main \in {"opening", "joining", "top", "reading"} =>
        scan.confirmed < Confirmations /\ verdict = NoCode
  /\ main \in {"stamping", "checking", "asking", "prompting"} =>
        scan.confirmed = Confirmations /\ verdict = NoCode
  /\ main \in {"opening", "joining"} => scan.elapsed = 0 /\ ~scan.usable
  /\ main = "reading" => TimeoutKind = "none"

(* How late the first usable frame can be, and the last one.               *)
InvClocks ==
  /\ ~scan.usable => /\ scan.recognising = 0
                     /\ scan.elapsed = 0 \/ scan.elapsed < Acquisition + TurnMax
  /\ scan.usable => /\ scan.elapsed < scan.recognising + Acquisition + TurnMax
                    /\ \/ scan.elapsed < Acquisition + TurnMax
                       \/ scan.recognising < Timeout + TurnMax

LoopInv == InvFrames /\ InvLooping /\ InvClocks /\ SuccessEarned /\ TimeoutsHonest

(* Whoever sends a card holds the lock.                                    *)
InvLock ==
  /\ main \in {"opening", "joining"} => starter = "idle"
  /\ starter = "sent" <=> ioLock = "starter"
  /\ main \in {"sending", "prompting"} => ioLock = "main"
  /\ handler = "sending" => ioLock = "main" /\ main \notin {"sending", "prompting"}

(* A result is claimed before it is sent, and stops the progress card.     *)
InvClaimed ==
  /\ handler = "none" /\ finalized =>
        main \in {"claiming", "queued", "sending", "exiting", "unwinding", "cleaning",
                  "ended"}
  /\ main = "claiming" \/ handler = "holding" => finalized
  /\ main = "queued" \/ handler = "queued" => finalized
  /\ main = "sending" \/ handler = "sending" => finalized
  /\ shown \in Results => finalized /\ starter # "sent"

(* Which card is up at the ways out.                                       *)
InvShown ==
  /\ main \in {"exiting", "unwinding", "cleaning", "ended"} /\ handler = "none" =>
        CardOf(verdict) = "none" \/ Silent \/ shown = CardOf(verdict)
  /\ handler = "carded" => Silent \/ shown = "cancelled"

(* Once the way out is taken no handler interferes; only the handler, and  *)
(* with cleanup(), aborts.                                                 *)
InvCleaned ==
  /\ cleanedUp => main \in {"cleaning", "ended"}
  /\ main = "cleaning" \/ verdict = 12 => cleanedUp
  /\ cleanedUp \/ main = "ended" => handler = "none"

CardInv == InvLock /\ InvClaimed /\ InvShown /\ InvCleaned
=============================================================================
