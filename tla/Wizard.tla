------------------------------- MODULE Wizard -------------------------------
(***************************************************************************)
(* The pages of the setup wizard (onboarding.py) and what runs behind      *)
(* them: the download of the recognition data, the camera scan, the two    *)
(* guided face scans and the keyring page.                                 *)
(*                                                                         *)
(* Everything the user sees happens on one main loop, but the page asked   *)
(* for is often set up by a 10 ms timer, a scan thread or a finished       *)
(* command, and none of those looks at which page is shown when it comes.  *)
(* The previews and the cameras they hold are in AppCameras.               *)
(***************************************************************************)
EXTENDS Naturals, Sequences, FiniteSets

CONSTANTS
  Installs,    \* runs of install.sh
  Scanners,    \* camera scan threads alive at the same time
  Adds,        \* `ubuntu-hello add` commands alive at the same time
  MaxBacks,    \* times the user presses Back
  MaxTimers,   \* 10 ms timers waiting
  MaxModels    \* models enrolled

ASSUME BoundsAssumption == MaxBacks \in Nat /\ MaxModels \in Nat

ASSUME AddsAssumption == IsFiniteSet(Adds)

(* self.proc names a run of install.sh, a run of `set` or nothing.         *)
ASSUME InstallsAssumption == Installs \intersect {"none", "set"} = {}

VARIABLES
  page,      \* the page shown, 0 to 7
  next,      \* the Next button can be pressed
  ended,     \* "no", or why the wizard is gone
  timers,    \* 10 ms timers waiting, in order
  data,      \* the landmark file of the recognition data is on disk
  proc,      \* the command self.proc names
  install,   \* the runs of install.sh
  queue,     \* end marks in the current download queue
  watchers,  \* timers that poll that queue
  scan,      \* the scan threads
  list,      \* the camera selected in the device list
  asked,     \* the infrared question: shown for this camera, can be answered
  enrol,     \* the face scan page
  adds,      \* the add commands
  backs,     \* times Back was pressed
  strays,    \* callbacks that came when their page was no longer shown
  leftScan   \* the face scan page was left during an add

downloadVars == <<data, proc, install, queue, watchers>>
cameraVars == <<scan, list, asked>>
enrolVars == <<enrol, adds>>
ghosts == <<backs, strays, leftScan>>
vars == <<page, next, ended, timers, downloadVars, cameraVars, enrolVars, ghosts>>

Open == ended = "no"

Stray(callback, home) ==
  strays' = IF page = home THEN strays ELSE strays \union {callback}

Adding == {a \in Adds : adds[a] # "idle"}

-----------------------------------------------------------------------------
(* Page 1: the recognition data.                                           *)

Running(i) == install[i].at = "running"

(* Shows that the file is there, watches a download still running, or      *)
(* starts one, whose queue replaces the earlier one.  Only a return to a   *)
(* running download turns Next off; going forward has done that already.   *)
ExecuteSlide1(on) ==
  \/ /\ data
     /\ next' = TRUE
     /\ UNCHANGED downloadVars
  \/ /\ ~data
     /\ proc \in Installs
     /\ Running(proc)
     /\ next' = FALSE
     /\ watchers' = watchers + 1
     /\ UNCHANGED <<data, proc, install, queue>>
  \/ /\ ~data
     /\ ~(proc \in Installs /\ Running(proc))
     /\ \E i \in Installs :
          /\ install[i].at = "unused"
          /\ install' = [install EXCEPT ![i].at = "running"]
          /\ proc' = i
     /\ queue' = 0
     /\ watchers' = watchers + 1
     /\ next' = on
     /\ UNCHANGED data

(* install.sh unpacks the landmark file last: it appears, then is whole.   *)
LandmarkAppears(i) ==
  /\ Running(i)
  /\ data' = TRUE
  /\ UNCHANGED <<page, next, ended, timers, proc, install, queue, watchers,
                 cameraVars, enrolVars, ghosts>>

(* bzip2 removes what it could not finish.                                 *)
InstallEnds(i, status) ==
  /\ Running(i)
  /\ status = "ok" => data
  /\ data' = (status = "ok")
  /\ install' = [install EXCEPT ![i].at = status]
  /\ UNCHANGED <<page, next, ended, timers, proc, queue, watchers,
                 cameraVars, enrolVars, ghosts>>

(* The reader of a finished download marks the end in whatever queue is    *)
(* current by then.                                                        *)
ReaderEnds(i) ==
  /\ install[i].at \in {"ok", "failed"}
  /\ ~install[i].told
  /\ install' = [install EXCEPT ![i].told = TRUE]
  /\ queue' = queue + 1
  /\ UNCHANGED <<page, next, ended, timers, data, proc, watchers,
                 cameraVars, enrolVars, ghosts>>

(* The exit status of self.proc, waited for up to 5 seconds; `set` may     *)
(* have taken its place.                                                   *)
Succeeds == IF proc \in Installs THEN install[proc].at = "ok" ELSE TRUE
Fails == IF proc \in Installs THEN install[proc].at # "ok" ELSE proc = "set"

(* A poll that finds the end mark.                                         *)
UpdateDownloadGui ==
  /\ watchers > 0
  /\ queue > 0
  /\ queue' = queue - 1
  /\ watchers' = watchers - 1
  /\ \/ Succeeds /\ next' = TRUE /\ UNCHANGED ended
     \/ Fails /\ ended' = "download" /\ UNCHANGED next
  /\ Stray("download", 1)
  /\ UNCHANGED <<page, timers, data, proc, install, cameraVars, enrolVars, backs, leftScan>>

-----------------------------------------------------------------------------
(* Page 2: the cameras.  A scan thread belongs to the visit that started   *)
(* it while its generation is the current one.                             *)

(* Mutant: leaving the page does not end the scan. *)
SameGeneration(s) == s

NewGeneration(s) == [t \in Scanners |-> [s[t] EXCEPT !.current = FALSE]]

CancelCameraScan == scan' = NewGeneration(scan)

ExecuteSlide2(rest) ==
  /\ list' = "none"
  /\ next' = FALSE
  /\ \E t \in Scanners :
       /\ scan[t].at = "idle"
       /\ scan' = [NewGeneration(scan) EXCEPT ![t] = [at |-> "start", current |-> TRUE]]
  /\ timers' = rest
  /\ Stray("slide2", 2)
  /\ UNCHANGED <<page, ended, downloadVars, asked, enrolVars, backs, leftScan>>

(* Without OpenCV or a camera the thread posts an error, whichever page    *)
(* is shown by then.                                                       *)
NoCamera(t) ==
  /\ scan[t].at = "start"
  /\ ended' = "no_camera"
  /\ UNCHANGED <<page, next, timers, downloadVars, cameraVars, enrolVars, ghosts>>

(* Mutant: a probe that raises takes the scan down with it. *)
ScanDies(t) == "idle"

(* The next device is probed, and the list posted, only for a scan that is *)
(* still wanted.                                                           *)
ScanNext(t) ==
  CASE ~scan[t].current -> "idle"
    [] scan[t].current /\ scan[t].at = "start" -> "probe"
    [] OTHER -> "posted"

ScanCamerasThread(t) ==
  /\ scan[t].at \in {"start", "probe"}
  /\ scan' = [scan EXCEPT ![t].at = ScanNext(t)]
  /\ UNCHANGED <<page, next, ended, timers, downloadVars, list, asked, enrolVars, ghosts>>

(* Mutant: Next is on before a camera is selected. *)
UpdateCameraListGuiUnselected(t) ==
  /\ scan[t].at = "posted"
  /\ scan' = [scan EXCEPT ![t].at = "idle"]
  /\ list' \in {"none", "infrared", "plain"}
  /\ next' = TRUE
  /\ Stray("list", 2)
  /\ UNCHANGED <<page, ended, timers, downloadVars, asked, enrolVars, backs, leftScan>>

(* The posted list is dropped when another visit has begun.                *)
UpdateCameraListGui(t) ==
  /\ scan[t].at = "posted"
  /\ scan' = [scan EXCEPT ![t].at = "idle"]
  /\ IF scan[t].current
     THEN /\ list' \in {"infrared", "plain"}
          /\ next' = TRUE
          /\ Stray("list", 2)
     ELSE UNCHANGED <<list, next, strays>>
  /\ UNCHANGED <<page, ended, timers, downloadVars, asked, enrolVars, backs, leftScan>>

SelectCamera ==
  /\ Open
  /\ page = 2
  /\ list # "none"
  /\ list' \in {"infrared", "plain"} \ {list}
  /\ UNCHANGED <<page, next, ended, timers, downloadVars, scan, asked, enrolVars, ghosts>>

-----------------------------------------------------------------------------
(* Page 3: the infrared emitter.                                           *)

(* Only an infrared camera is asked about; any other goes straight on.     *)
ExecuteSlide3 ==
  \/ /\ list = "infrared"
     /\ asked' = [asked EXCEPT !.shown = TRUE]
     /\ \/ UNCHANGED ended
        \/ ended' = "cannot_open"
  \/ /\ list = "none"
     /\ ended' = "no_selection"
     /\ UNCHANGED asked

(* "No" hides both buttons, for good; Next is still off.                   *)
Slide3ButtonNo ==
  /\ Open
  /\ page = 3
  /\ asked.buttons
  /\ asked' = [asked EXCEPT !.buttons = FALSE]
  /\ UNCHANGED <<page, next, ended, timers, downloadVars, scan, list, enrolVars, ghosts>>

-----------------------------------------------------------------------------
(* Page 4: the two face scans.                                             *)

FirstPass(models) == [pass |-> 1, models |-> models, scan |-> TRUE, skip |-> FALSE]
SecondPass(models) == [pass |-> 2, models |-> models, scan |-> TRUE, skip |-> TRUE]

(* Saves the camera with `set`, which self.proc now names, and starts the  *)
(* pass that is due.                                                       *)
ExecuteSlide4 ==
  IF list = "none"
  THEN ended' = "no_selection" /\ UNCHANGED <<proc, enrol>>
  ELSE /\ proc' = "set"
       /\ enrol' = IF enrol.models >= 1 THEN SecondPass(enrol.models) ELSE FirstPass(0)
       /\ UNCHANGED ended

(* Mutant: the button stays enabled while the scan runs. *)
OnScanButtonClickEnabled(a) ==
  /\ Open
  /\ page = 4
  /\ enrol.scan
  /\ adds[a] = "idle"
  /\ adds' = [adds EXCEPT ![a] = "starting"]
  /\ UNCHANGED <<page, next, ended, timers, downloadVars, cameraVars, enrol, ghosts>>

(* Both buttons are off until the scan is over.                            *)
OnScanButtonClick(a) ==
  /\ Open
  /\ page = 4
  /\ enrol.scan
  /\ adds[a] = "idle"
  /\ adds' = [adds EXCEPT ![a] = "starting"]
  /\ enrol' = [enrol EXCEPT !.scan = FALSE, !.skip = FALSE]
  /\ UNCHANGED <<page, next, ended, timers, downloadVars, cameraVars, ghosts>>

(* 600 ms later the command runs, on a thread of its own.                  *)
RunAdd(a) ==
  /\ adds[a] = "starting"
  /\ adds' = [adds EXCEPT ![a] = "running"]
  /\ UNCHANGED <<page, next, ended, timers, downloadVars, cameraVars, enrol, ghosts>>

AddEnds(a, status) ==
  /\ adds[a] = "running"
  /\ adds' = [adds EXCEPT ![a] = status]
  /\ UNCHANGED <<page, next, ended, timers, downloadVars, cameraVars, enrol, ghosts>>

(* A first scan that failed ends the wizard, a second one can be repeated. *)
(* The second model moves the wizard on, wherever the user is.             *)
OnAddFinished(a) ==
  /\ adds[a] \in {"saved", "failed"}
  /\ adds' = [adds EXCEPT ![a] = "idle"]
  /\ \/ /\ adds[a] = "failed"
        /\ enrol' = [enrol EXCEPT !.scan = TRUE, !.skip = enrol.pass = 2]
        /\ IF enrol.models = 0 THEN ended' = "scan_failed" ELSE UNCHANGED ended
        /\ UNCHANGED timers
     \/ /\ adds[a] = "saved"
        /\ enrol.pass = 1
        /\ enrol' = SecondPass(enrol.models + 1)
        /\ UNCHANGED <<ended, timers>>
     \/ /\ adds[a] = "saved"
        /\ enrol.pass = 2
        /\ enrol' = [enrol EXCEPT !.models = @ + 1]
        /\ timers' = Append(timers, "advance")
        /\ UNCHANGED ended
  /\ Stray("scan", 4)
  /\ UNCHANGED <<page, next, downloadVars, cameraVars, backs, leftScan>>

(* Nothing keeps the user from pressing Skip again before the timer comes. *)
OnSkipButtonClick ==
  /\ Open
  /\ page = 4
  /\ enrol.skip
  /\ enrol.models > 0
  /\ Len(timers) < MaxTimers
  /\ timers' = Append(timers, "advance")
  /\ UNCHANGED <<page, next, ended, downloadVars, cameraVars, enrolVars, ghosts>>

-----------------------------------------------------------------------------
(* Next, Back and the last page.                                           *)

LeavePage == leftScan' = (leftScan \/ (page = 4 /\ Adding # {}))

Skipped == <<downloadVars, cameraVars, enrolVars>>

(* validate_and_save_keyring: the choice is saved, or has to be changed.   *)
SaveKeyring ==
  \/ page' = 7 /\ next' = FALSE
  \/ page' = 6 /\ next' = TRUE

(* go_next_slide: the page that is shown next, and its entry.              *)
GoNext(rest) ==
  /\ LeavePage
  /\ \/ /\ page = 0
        /\ page' = 1
        /\ timers' = rest
        /\ ExecuteSlide1(FALSE)
        /\ UNCHANGED <<ended, cameraVars, enrolVars>>
     \/ /\ page = 1
        /\ page' = 2
        /\ next' = FALSE
        /\ timers' = Append(rest, "slide2")
        /\ UNCHANGED <<ended, Skipped>>
     \/ /\ page = 2
        /\ CancelCameraScan
        /\ next' = FALSE
        /\ timers' = rest
        /\ IF list = "plain"
           THEN /\ page' = 4
                /\ asked' = [asked EXCEPT !.shown = FALSE]
                /\ ExecuteSlide4
           ELSE /\ page' = 3
                /\ ExecuteSlide3
                /\ UNCHANGED <<proc, enrol>>
        /\ UNCHANGED <<data, install, queue, watchers, list, adds>>
     \/ /\ page = 3
        /\ page' = 4
        /\ next' = FALSE
        /\ timers' = rest
        /\ ExecuteSlide4
        /\ UNCHANGED <<data, install, queue, watchers, cameraVars, adds>>
     \/ /\ page \in {4, 5}
        /\ page' = page + 1
        /\ next' = TRUE
        /\ timers' = rest
        /\ UNCHANGED <<ended, Skipped>>
     \/ /\ page = 6
        /\ SaveKeyring
        /\ timers' = rest
        /\ UNCHANGED <<ended, Skipped>>
     \/ /\ page = 7      \* there is no page after the last
        /\ next' = FALSE
        /\ timers' = rest
        /\ UNCHANGED <<page, ended, Skipped>>

ClickNext ==
  /\ Open
  /\ page < 7
  /\ next
  /\ GoNext(timers)
  /\ UNCHANGED <<backs, strays>>

Slide3ButtonYes ==
  /\ Open
  /\ page = 3
  /\ asked.buttons
  /\ GoNext(timers)
  /\ UNCHANGED <<backs, strays>>

(* A timer comes when it is due, whatever the page has become.             *)
RunTimer ==
  /\ timers # <<>>
  /\ \/ Head(timers) = "slide2" /\ ExecuteSlide2(Tail(timers))
     \/ Head(timers) = "advance" /\ GoNext(Tail(timers)) /\ Stray("advance", 4) /\ UNCHANGED backs

(* The infrared question is not asked again for a camera that skipped it.  *)
PageBefore == IF page = 4 /\ ~asked.shown THEN 2 ELSE page - 1

(* Next is on at once; what the page shows is set up after that.           *)
GoPrev ==
  /\ Open
  /\ page > 0
  /\ backs < MaxBacks
  /\ backs' = backs + 1
  /\ page' = PageBefore
  /\ LeavePage
  /\ IF page = 2 THEN CancelCameraScan ELSE UNCHANGED scan
  /\ \/ /\ PageBefore = 1
        /\ ExecuteSlide1(TRUE)
        /\ UNCHANGED <<timers, ended, enrol>>
     \/ /\ PageBefore = 2
        /\ timers' = Append(timers, "slide2")
        /\ next' = TRUE
        /\ UNCHANGED <<downloadVars, ended, enrol>>
     \/ /\ PageBefore = 4
        /\ ExecuteSlide4
        /\ next' = TRUE
        /\ UNCHANGED <<data, install, queue, watchers, timers>>
     \/ /\ PageBefore \notin {1, 2, 4}
        /\ next' = TRUE
        /\ UNCHANGED <<downloadVars, timers, ended, enrol>>
  /\ UNCHANGED <<list, asked, adds, strays>>

Finish ==
  /\ Open
  /\ page = 7
  /\ ended' = "finished"
  /\ UNCHANGED <<page, next, timers, downloadVars, cameraVars, enrolVars, ghosts>>

Close ==
  /\ Open
  /\ ended' = "closed"
  /\ UNCHANGED <<page, next, timers, downloadVars, cameraVars, enrolVars, ghosts>>

-----------------------------------------------------------------------------
Init ==
  /\ page = 0 /\ next = TRUE /\ ended = "no" /\ timers = <<>>
  /\ data \in BOOLEAN /\ proc = "none" /\ queue = 0 /\ watchers = 0
  /\ install = [i \in Installs |-> [at |-> "unused", told |-> FALSE]]
  /\ scan = [t \in Scanners |-> [at |-> "idle", current |-> FALSE]]
  /\ list = "none" /\ asked = [shown |-> FALSE, buttons |-> TRUE]
  /\ enrol = FirstPass(0)
  /\ adds = [a \in Adds |-> "idle"]
  /\ backs = 0 /\ strays = {} /\ leftScan = FALSE

Bounded == enrol.models + Cardinality(Adding) < MaxModels

User ==
  \/ ClickNext \/ GoPrev \/ SelectCamera \/ Slide3ButtonYes \/ Slide3ButtonNo
  \/ Bounded /\ \E a \in Adds : OnScanButtonClick(a)
  \/ OnSkipButtonClick \/ Finish \/ Close

Download(i) ==
  LandmarkAppears(i) \/ (\E status \in {"ok", "failed"} : InstallEnds(i, status)) \/ ReaderEnds(i)

Scan(t) == NoCamera(t) \/ ScanCamerasThread(t) \/ UpdateCameraListGui(t)

Add(a) == RunAdd(a) \/ (\E status \in {"saved", "failed"} : AddEnds(a, status)) \/ OnAddFinished(a)

Background ==
  \/ RunTimer \/ UpdateDownloadGui
  \/ \E i \in Installs : Download(i)
  \/ \E t \in Scanners : Scan(t)
  \/ \E a \in Adds : Add(a)

Next == User \/ (Open /\ Background)

Spec == Init /\ [][Next]_vars

(* The main loop runs what is due, and commands and scans come to an end:  *)
(* install.sh gives up on a server that does not answer, a probe on a      *)
(* camera, `add` on a face.  The user may do nothing at all.               *)
FairSpec ==
  /\ Spec
  /\ WF_vars(Open /\ RunTimer)
  /\ WF_vars(Open /\ UpdateDownloadGui)
  /\ \A i \in Installs : WF_vars(Open /\ (\E s \in {"ok", "failed"} : InstallEnds(i, s)))
  /\ \A i \in Installs : WF_vars(Open /\ ReaderEnds(i))
  /\ \A t \in Scanners : WF_vars(Open /\ Scan(t))
  /\ \A a \in Adds : WF_vars(Open /\ Add(a))

-----------------------------------------------------------------------------
(* Correctness.                                                            *)

TypeOK ==
  /\ page \in 0 .. 7
  /\ next \in BOOLEAN
  /\ ended \in {"no", "closed", "finished", "download", "no_camera", "no_selection",
               "cannot_open", "scan_failed"}
  /\ timers \in Seq({"slide2", "advance"})
  /\ data \in BOOLEAN
  /\ proc \in Installs \union {"none", "set"}
  /\ install \in [Installs -> [at : {"unused", "running", "ok", "failed"}, told : BOOLEAN]]
  /\ queue \in Nat /\ watchers \in Nat
  /\ scan \in [Scanners -> [at : {"idle", "start", "probe", "posted"}, current : BOOLEAN]]
  /\ list \in {"none", "infrared", "plain"}
  /\ asked \in [shown : BOOLEAN, buttons : BOOLEAN]
  /\ enrol \in [pass : {1, 2}, models : 0 .. MaxModels, scan : BOOLEAN, skip : BOOLEAN]
  /\ adds \in [Adds -> {"idle", "starting", "running", "saved", "failed"}]
  /\ backs \in 0 .. MaxBacks
  /\ strays \subseteq {"download", "slide2", "list", "scan", "advance"}
  /\ leftScan \in BOOLEAN

(* "Pass 1 is required": the pages after the face scan are reached without *)
(* a model only when a download or a camera scan that belongs to an        *)
(* earlier page turned Next on.                                            *)
FirstScanRequired ==
  page > 4 /\ enrol.models = 0 => strays \intersect {"download", "slide2"} # {}

(* An error page is shown only for a cause.  A missing camera selection:   *)
(* Next was turned on for the camera page by a download that ended late,   *)
(* the list was cleared by the late start of a scan, or the timer of an    *)
(* earlier enrolment turned the page.  No cameras, on another page than    *)
(* theirs: the thread belongs to a visit that is over, or its scan began   *)
(* when that page had gone.  A failed download: one did fail, or the end   *)
(* of a good one was seen so late that self.proc already was `set`.        *)
ErrorsAreTrue ==
  /\ ended = "no_selection" => strays \intersect {"download", "slide2", "advance"} # {}
  /\ ended = "no_camera" /\ page # 2 =>
       \/ "slide2" \in strays
       \/ \E t \in Scanners : scan[t].at = "start" /\ ~scan[t].current
  /\ ended = "download" =>
       \/ \E i \in Installs : install[i].at = "failed"
       \/ proc = "set" /\ \E i \in Installs : install[i].at = "ok"

(* Two `add` commands, which would share a camera and overwrite each       *)
(* other's model, run only after the user left the page during a scan.     *)
OneAddAtATime == Cardinality(Adding) > 1 => leftScan

PagesInv == TypeOK /\ OneAddAtATime

(* There is something to press that leads on.                              *)
WayForward ==
  \/ next \/ page = 7
  \/ page = 3 /\ asked.buttons
  \/ page = 4 /\ (enrol.scan \/ enrol.skip)

(* As long as the user has not said that the emitter does not work, the    *)
(* wizard always comes back to offer a way forward, or ends.               *)
AlwaysAWayForward == []<>(WayForward \/ ~asked.buttons \/ ~Open)
=============================================================================
