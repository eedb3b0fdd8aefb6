----------------------------- MODULE AppCameras -----------------------------
(***************************************************************************)
(* Who holds a camera open in the GTK app.  First the setup wizard         *)
(* (onboarding.py): the probes of its camera page, its live previews, the  *)
(* infrared question, the `add` command of the face scan page, and every   *)
(* way from page to page.  Then the Video page of Settings (tab_video.py), *)
(* in the same process.                                                    *)
(*                                                                         *)
(* Opening and reading a camera can block in the driver, so both windows   *)
(* do it on threads: a thread can come back long after the page that       *)
(* wanted the picture is gone.  A camera that streams for one holder       *)
(* cannot be opened by another.                                            *)
(***************************************************************************)
EXTENDS Naturals

CONSTANTS
  Cameras,    \* capture devices
  Visits,     \* visits of the wizard's camera page, each with its scan thread
  Previews,   \* preview threads alive at the same time
  Openers,    \* threads that open a camera for Settings at the same time
  MaxLate,    \* bound on the threads that are given up on
  None        \* no camera, no thread

ASSUME NoneAssumption == None \notin Cameras \union Previews

VARIABLES
  page,     \* wizard: "cameras", "emitter", "scan", "later"; Settings: "video", "other"
  main,     \* what the main loop goes on with when a preview has been joined
  cap,      \* the camera each holder has open
  visit,    \* the scan thread of each visit
  probe,    \* its probe of each camera
  listed,   \* the device list is shown
  sel,      \* the camera selected there
  face,     \* the camera of the face scan page
  asked,    \* the selected camera was asked about: it is an infrared one
  nextOn,   \* the Next button is sensitive
  answers,  \* the infrared question still shows its two buttons
  advance,  \* a 10 ms timer will turn the page (one at a time)
  download, \* a download is still polled that was left running on the page before
  enrolled, \* a face was scanned
  pv,       \* the preview threads
  current,  \* current_preview_path
  thread,   \* preview_thread
  add,      \* the `add` command
  opener,   \* threads that run open_camera_background
  active,   \* video_loop_active
  chosen,   \* the camera selected on the Video page
  rebuild,  \* a language rebuild is due
  late,     \* joins that timed out and probes given up: threads may be stuck
  stuck,    \* the preview threads that outlived their join
  skipped,  \* the infrared question was left without an answer, its camera open
  away,     \* the face scan page was left while `add` was starting or running
  inFlight, \* the Video page was left between an opener's check and its assignment
  crossed   \* two openers ran at the same time

buttonVars == <<nextOn, answers, advance, download, enrolled>>
wizardVars == <<visit, probe, listed, sel, face, asked, buttonVars>>
previewVars == <<pv, current, thread>>
settingsVars == <<opener, active, chosen, rebuild>>
ghosts == <<late, stuck, skipped, away, inFlight, crossed>>
vars == <<page, main, cap, wizardVars, previewVars, add, settingsVars, ghosts>>

Probes == Visits \X Cameras

(* Holders there is one of.                                                *)
Emitter == <<"emitter">>
Adder == <<"add">>
Window == <<"window">>
Closing == <<"closing">>

Holders == Probes \union Previews \union Openers \union {Emitter, Adder, Window, Closing}

(* They are different threads, and each has a capture of its own.          *)
ASSUME HoldersAssumption ==
  /\ Previews \intersect Openers = {}
  /\ Probes \intersect (Previews \union Openers) = {}
  /\ {Emitter, Adder, Window, Closing} \intersect (Probes \union Previews \union Openers) = {}

ASSUME LateAssumption == MaxLate \in Nat

Free(c) == \A h \in Holders : cap[h] # c
Idle == main.then = "free"
InWizard == page \in {"cameras", "emitter", "scan", "later"}

Release(h) == [cap EXCEPT ![h] = None]

NoThread == [at |-> "idle", dev |-> None]
NoProbe == [worker |-> "end", status |-> "done", ok |-> FALSE]
Over == [at |-> "end", wanted |-> FALSE, dev |-> None, left |-> {}]

(* Opening a camera works only while nobody else streams from it.          *)
Opens(h, c) ==
  \/ Free(c) /\ cap' = [cap EXCEPT ![h] = c]
  \/ UNCHANGED cap

-----------------------------------------------------------------------------
(* One probe: a worker thread opens the camera and reads a frame, while    *)
(* the scan thread waits for CAMERA_PROBE_TIMEOUT at most.  The lock makes *)
(* one of them responsible for the capture.                                *)

StartProbe(v, c) ==
  /\ visit[v].at = "next"
  /\ visit[v].wanted
  /\ c \in visit[v].left
  /\ visit' = [visit EXCEPT ![v].at = "wait", ![v].dev = c, ![v].left = @ \ {c}]
  /\ probe' = [probe EXCEPT ![<<v, c>>] = [worker |-> "open", status |-> "pending", ok |-> FALSE]]
  /\ UNCHANGED <<page, main, cap, listed, sel, face, asked, buttonVars, previewVars, add, settingsVars, ghosts>>

WorkerOpens(v, c) ==
  /\ probe[<<v, c>>].worker = "open"
  /\ Opens(<<v, c>>, c)
  /\ probe' = [probe EXCEPT ![<<v, c>>].worker = "read"]
  /\ UNCHANGED <<page, main, visit, listed, sel, face, asked, buttonVars, previewVars, add, settingsVars, ghosts>>

(* A read on a camera that did not open returns no frame.                  *)
WorkerReads(v, c) ==
  /\ probe[<<v, c>>].worker = "read"
  /\ \E ok \in {FALSE, cap[<<v, c>>] = c} :
       probe' = [probe EXCEPT ![<<v, c>>].worker = "settle", ![<<v, c>>].ok = ok]
  /\ UNCHANGED <<page, main, cap, visit, listed, sel, face, asked, buttonVars, previewVars, add, settingsVars, ghosts>>

(* Mutant: the worker does not look whether the caller has given up. *)
WorkerSettlesBlindly(v, c) ==
  /\ probe[<<v, c>>].worker = "settle"
  /\ probe' = [probe EXCEPT ![<<v, c>>].worker = "end", ![<<v, c>>].status = "done"]
  /\ cap' = IF probe[<<v, c>>].ok THEN cap ELSE Release(<<v, c>>)
  /\ UNCHANGED <<page, main, visit, listed, sel, face, asked, buttonVars, previewVars, add, settingsVars, ghosts>>

(* Under the lock: hands a good capture over, and releases any other.      *)
WorkerSettles(v, c) ==
  /\ probe[<<v, c>>].worker = "settle"
  /\ IF probe[<<v, c>>].status = "pending"
     THEN /\ probe' = [probe EXCEPT ![<<v, c>>].worker = "end", ![<<v, c>>].status = "done"]
          /\ cap' = IF probe[<<v, c>>].ok THEN cap ELSE Release(<<v, c>>)
     ELSE /\ probe' = [probe EXCEPT ![<<v, c>>] = NoProbe]
          /\ cap' = Release(<<v, c>>)
  /\ UNCHANGED <<page, main, visit, listed, sel, face, asked, buttonVars, previewVars, add, settingsVars, ghosts>>

(* The join has ended or timed out.  Under the lock: gives a pending probe *)
(* up, or takes its capture.                                               *)
CallerChecks(v) ==
  LET c == visit[v].dev IN
  /\ visit[v].at = "wait"
  /\ IF probe[<<v, c>>].status = "pending"
     THEN /\ late < MaxLate
          /\ probe' = [probe EXCEPT ![<<v, c>>].status = "abandoned"]
          /\ visit' = [visit EXCEPT ![v].at = "next", ![v].dev = None]
          /\ late' = late + 1
     ELSE /\ visit' = IF probe[<<v, c>>].ok
                      THEN [visit EXCEPT ![v].at = "use"]
                      ELSE [visit EXCEPT ![v].at = "next", ![v].dev = None]
          /\ probe' = [probe EXCEPT ![<<v, c>>].ok = FALSE]
          /\ UNCHANGED late
  /\ UNCHANGED <<page, main, cap, listed, sel, face, asked, buttonVars, previewVars, add, settingsVars, stuck, skipped, away, inFlight, crossed>>

(* A usable capture is looked at and released.                             *)
CallerReleases(v) ==
  /\ visit[v].at = "use"
  /\ cap' = Release(<<v, visit[v].dev>>)
  /\ visit' = [visit EXCEPT ![v].at = "next", ![v].dev = None]
  /\ UNCHANGED <<page, main, probe, listed, sel, face, asked, buttonVars, previewVars, add, settingsVars, ghosts>>

(* No camera is left, or the user has left the page.                       *)
ScanThreadEnds(v) ==
  /\ visit[v].at = "next"
  /\ ~visit[v].wanted \/ visit[v].left = {}
  /\ visit' = IF visit[v].wanted THEN [visit EXCEPT ![v].at = "posted"] ELSE [visit EXCEPT ![v] = Over]
  /\ UNCHANGED <<page, main, cap, probe, listed, sel, face, asked, buttonVars, previewVars, add, settingsVars, ghosts>>

-----------------------------------------------------------------------------
(* The live previews.                                                      *)

StartPreview(c) ==
  /\ current' = c
  /\ \E p \in Previews :
       /\ pv[p].at = "idle"
       /\ pv' = [pv EXCEPT ![p] = [at |-> "open", dev |-> c]]
       /\ thread' = p

(* stop_preview: the thread sees that its path is no longer the current    *)
(* one, and is waited for, 2 seconds at most.                              *)
StopPreview(then, c) ==
  /\ current' = None
  /\ main' = [then |-> then, dev |-> c]
  /\ UNCHANGED <<pv, thread>>

(* The camera opens, or is tried again, up to six times.                   *)
PreviewOpens(p) ==
  /\ pv[p].at = "open"
  /\ \/ /\ Free(pv[p].dev)
        /\ current = pv[p].dev
        /\ cap' = [cap EXCEPT ![p] = pv[p].dev]
        /\ pv' = [pv EXCEPT ![p].at = "loop"]
        /\ UNCHANGED stuck
     \/ /\ pv' = [pv EXCEPT ![p] = NoThread]
        /\ stuck' = stuck \ {p}
        /\ UNCHANGED cap
  /\ UNCHANGED <<page, main, wizardVars, current, thread, add, settingsVars, late, skipped, away, inFlight, crossed>>

PreviewReads(p) ==
  /\ pv[p].at = "loop"
  /\ current = pv[p].dev
  /\ pv' = [pv EXCEPT ![p].at = "read"]
  /\ UNCHANGED <<page, main, cap, wizardVars, current, thread, add, settingsVars, ghosts>>

PreviewFrame(p) ==
  /\ pv[p].at = "read"
  /\ pv' = [pv EXCEPT ![p].at = "loop"]
  /\ UNCHANGED <<page, main, cap, wizardVars, current, thread, add, settingsVars, ghosts>>

PreviewEnds(p) ==
  /\ pv[p].at = "loop"
  /\ current # pv[p].dev
  /\ pv' = [pv EXCEPT ![p] = NoThread]
  /\ cap' = Release(p)
  /\ stuck' = stuck \ {p}
  /\ UNCHANGED <<page, main, wizardVars, current, thread, add, settingsVars, late, skipped, away, inFlight, crossed>>

(* The generation of every earlier visit is over: it starts no more probes.*)
Unwanted == [v \in Visits |-> [visit[v] EXCEPT !.wanted = FALSE, !.left = {}]]

(* The device list is gone, and Next waits for the new one.                *)
StartScan ==
  /\ listed' = FALSE
  /\ nextOn' = FALSE
  /\ \E v \in Visits :
       /\ visit[v].at = "unused"
       /\ visit' = [Unwanted EXCEPT ![v] = [at |-> "next", wanted |-> TRUE, dev |-> None, left |-> Cameras]]

(* The joined thread has ended, or is inside a camera call: the wizard     *)
(* goes on with what it stopped the preview for.                           *)
Joined ==
  \/ /\ thread \in Previews => pv[thread].at = "idle"
     /\ UNCHANGED <<late, stuck>>
  \/ /\ thread \in Previews
     /\ late < MaxLate
     /\ pv[thread].at \in {"open", "read"}
     /\ late' = late + 1
     /\ stuck' = stuck \union {thread}

NoPreview == thread' = None /\ UNCHANGED <<current, pv>>

JoinEnds ==
  /\ ~Idle
  /\ Joined
  /\ main' = [then |-> "free", dev |-> None]
  /\ \/ main.then = "rest" /\ NoPreview /\ UNCHANGED <<page, cap, visit, listed, nextOn, add, away>>
     \/ /\ main.then = "preview"
        /\ StartPreview(main.dev)
        /\ UNCHANGED <<page, cap, visit, listed, nextOn, add, away>>
     \/ main.then = "scan" /\ StartScan /\ NoPreview /\ UNCHANGED <<page, cap, add, away>>
     \/ /\ main.then = "emitter"      \* a camera that does not open ends the wizard
        /\ Opens(Emitter, main.dev)
        /\ page' = IF cap'[Emitter] = None THEN "gone" ELSE page
        /\ NoPreview
        /\ UNCHANGED <<visit, listed, nextOn, add, away>>
     \/ /\ main.then = "add"
        /\ add' = "starting"
        /\ away' = FALSE
        /\ NoPreview
        /\ UNCHANGED <<page, cap, visit, listed, nextOn>>
  /\ UNCHANGED <<probe, sel, face, asked, answers, advance, download, enrolled, settingsVars>>
  /\ UNCHANGED <<skipped, inFlight, crossed>>

-----------------------------------------------------------------------------
(* The wizard's pages.                                                     *)

(* The list of the current visit: some camera is selected and previewed.   *)
UpdateCameraListGui(v) ==
  /\ Idle /\ InWizard
  /\ visit[v].at = "posted"
  /\ visit' = [visit EXCEPT ![v] = Over]
  /\ IF visit[v].wanted
     THEN /\ listed' = TRUE
          /\ nextOn' = TRUE
          /\ sel' \in Cameras
          /\ StopPreview("preview", sel')
     ELSE UNCHANGED <<listed, nextOn, sel, main, previewVars>>
  /\ UNCHANGED <<page, cap, probe, face, asked, answers, advance, download, enrolled, add, settingsVars, ghosts>>

OnCameraSelectionChanged(c) ==
  /\ Idle /\ page = "cameras" /\ listed
  /\ c \notin {sel, current}
  /\ sel' = c
  /\ StopPreview("preview", c)
  /\ UNCHANGED <<page, cap, visit, probe, listed, face, asked, buttonVars, add, settingsVars, ghosts>>

LeavePage == away' = (away \/ (page = "scan" /\ add # "idle"))

(* A download of the page before, whose first files were there already,    *)
(* ends on whatever page the user is by now.                               *)
UpdateDownloadGui ==
  /\ Idle /\ InWizard /\ download
  /\ download' = FALSE
  /\ \/ nextOn' = TRUE /\ UNCHANGED <<page, away>>
     \/ page' = "gone" /\ LeavePage /\ UNCHANGED nextOn
  /\ UNCHANGED <<main, cap, visit, probe, listed, sel, face, asked, answers, advance, enrolled, previewVars, add,
                 settingsVars, late, stuck, skipped, inFlight, crossed>>

EnterScan ==
  /\ page' = "scan"
  /\ face' = sel
  /\ StopPreview("preview", sel)

(* An infrared camera is asked about first.                                *)
LeaveCameras ==
  /\ page = "cameras"
  /\ visit' = Unwanted
  /\ \/ ~listed /\ page' = "gone" /\ UNCHANGED <<main, face, asked, previewVars>>
     \/ listed /\ asked' = FALSE /\ EnterScan
     \/ listed /\ asked' = TRUE /\ page' = "emitter" /\ StopPreview("emitter", sel) /\ UNCHANGED face
  /\ UNCHANGED skipped

(* Next has no eye to the camera of the question.                          *)
LeaveEmitter ==
  /\ page = "emitter"
  /\ skipped' = (cap[Emitter] # None)
  /\ EnterScan
  /\ UNCHANGED <<visit, asked>>

LeaveScan ==
  /\ page = "scan"
  /\ page' = "later"
  /\ StopPreview("rest", None)
  /\ UNCHANGED <<visit, face, asked, skipped>>

LeaveLater ==
  /\ page = "later"
  /\ UNCHANGED <<page, main, visit, face, asked, previewVars, skipped>>

(* By the Next button, or by the timer of a face scan page that is done    *)
(* with, on whatever page the user is by now.  Only the later pages enable *)
(* Next at once.                                                           *)
GoNext ==
  /\ Idle /\ InWizard
  /\ \/ nextOn /\ UNCHANGED advance
     \/ advance /\ advance' = FALSE
  /\ nextOn' = (page \in {"scan", "later"})
  /\ LeaveCameras \/ LeaveEmitter \/ LeaveScan \/ LeaveLater
  /\ LeavePage
  /\ UNCHANGED <<cap, probe, listed, sel, answers, download, enrolled, add, settingsVars, late, stuck, inFlight, crossed>>

(* Mutant: Yes does not give the camera back. *)
Slide3ButtonYesHolding ==
  /\ Idle /\ page = "emitter" /\ answers
  /\ nextOn' = FALSE
  /\ EnterScan
  /\ UNCHANGED <<cap, visit, probe, listed, sel, asked, answers, advance, download, enrolled, add, settingsVars, ghosts>>

(* Yes goes on to the face scan; No shows where to get help, and there is  *)
(* no going on but by Next or Back.                                        *)
Slide3ButtonYes ==
  /\ Idle /\ page = "emitter" /\ answers
  /\ cap' = Release(Emitter)
  /\ skipped' = FALSE
  /\ nextOn' = FALSE
  /\ EnterScan
  /\ UNCHANGED <<visit, probe, listed, sel, asked, answers, advance, download, enrolled, add, settingsVars,
                 late, stuck, away, inFlight, crossed>>

Slide3ButtonNo ==
  /\ Idle /\ page = "emitter" /\ answers
  /\ cap' = Release(Emitter)
  /\ skipped' = FALSE
  /\ answers' = FALSE
  /\ UNCHANGED <<page, main, visit, probe, listed, sel, face, asked, nextOn, advance, download, enrolled,
                 previewVars, add, settingsVars, late, stuck, away, inFlight, crossed>>

(* The preview has to be gone before `add` opens the camera.  A second     *)
(* `add` beside an unfinished one is Wizard's: here there is one at a time.*)
OnScanButtonClick ==
  /\ Idle /\ page = "scan" /\ add = "idle"
  /\ StopPreview("add", None)
  /\ UNCHANGED <<page, cap, wizardVars, add, settingsVars, ghosts>>

AddOpens ==
  /\ add = "starting"
  /\ \/ Free(face) /\ cap' = [cap EXCEPT ![Adder] = face] /\ add' = "running"
     \/ add' = "ended" /\ UNCHANGED cap
  /\ UNCHANGED <<page, main, wizardVars, previewVars, settingsVars, ghosts>>

AddEnds ==
  /\ add = "running"
  /\ add' = "ended"
  /\ cap' = Release(Adder)
  /\ UNCHANGED <<page, main, wizardVars, previewVars, settingsVars, ghosts>>

(* Offered once a face was scanned; insensitive while `add` runs, but not  *)
(* after the page was left and entered again meanwhile.                    *)
OnSkipSecondButtonClick ==
  /\ Idle /\ page = "scan" /\ enrolled
  /\ add = "idle" \/ away
  /\ advance' = TRUE
  /\ StopPreview("rest", None)
  /\ UNCHANGED <<page, cap, visit, probe, listed, sel, face, asked, nextOn, answers, download, enrolled, add,
                 settingsVars, ghosts>>

(* On whatever page the user is by now: the next scan, or a second one     *)
(* that failed, gets its preview; a first one that failed ends the wizard; *)
(* after a second one the timer turns the page.                            *)
OnAddFinished ==
  /\ Idle /\ InWizard /\ add = "ended"
  /\ add' = "idle" /\ away' = FALSE
  /\ \/ ~enrolled /\ page' = "gone" /\ UNCHANGED <<main, advance, enrolled, previewVars>>
     \/ enrolled' = TRUE /\ StopPreview("preview", face) /\ UNCHANGED <<page, advance>>
     \/ enrolled /\ advance' = TRUE /\ UNCHANGED <<page, main, enrolled, previewVars>>
  /\ UNCHANGED <<cap, visit, probe, listed, sel, face, asked, nextOn, answers, download, settingsVars,
                 late, stuck, skipped, inFlight, crossed>>

(* Back, and Next to the camera page again.  Back from the question gives  *)
(* its camera back.                                                        *)
GoPrev ==
  /\ Idle /\ InWizard
  /\ LeavePage
  /\ \/ /\ page = "later"
        /\ nextOn' = TRUE
        /\ EnterScan
        /\ UNCHANGED <<cap, visit, listed, skipped>>
     \/ /\ page = "scan"
        /\ nextOn' = TRUE
        /\ \/ asked /\ page' = "emitter" /\ StopPreview("rest", None)
           \/ ~asked /\ page' = "cameras" /\ StopPreview("scan", None)
        /\ UNCHANGED <<cap, visit, listed, face, skipped>>
     \/ /\ page = "emitter"
        /\ page' = "cameras"
        /\ cap' = Release(Emitter)
        /\ skipped' = FALSE
        /\ StartScan
        /\ UNCHANGED <<main, face, previewVars>>
     \/ /\ page = "cameras"
        /\ page' = page
        /\ visit' = Unwanted
        /\ nextOn' = TRUE
        /\ StopPreview("scan", None)
        /\ UNCHANGED <<cap, listed, face, skipped>>
  /\ UNCHANGED <<probe, sel, asked, answers, advance, download, enrolled, add, settingsVars, late, stuck,
                 inFlight, crossed>>

(* The wizard is finished and Settings opens, on another page than Video.  *)
(* The wizard's state goes with its window.  A holder that still has a     *)
(* camera could only keep Settings from opening it, which may fail anyway: *)
(* none is followed further.                                               *)
OpenSettings ==
  /\ Idle /\ page = "later" /\ add = "idle"
  /\ \A h \in Holders : cap[h] = None
  /\ \A p \in Previews : pv[p].at = "idle"
  /\ page' = "other"
  /\ chosen' = face
  /\ visit' = [v \in Visits |-> Over]
  /\ probe' = [x \in Probes |-> NoProbe]
  /\ listed' = FALSE /\ sel' = face /\ asked' = FALSE /\ current' = None /\ thread' = None
  /\ nextOn' = FALSE /\ answers' = TRUE /\ advance' = FALSE /\ download' = FALSE /\ enrolled' = TRUE
  /\ late' = 0 /\ stuck' = {} /\ skipped' = FALSE /\ away' = FALSE
  /\ UNCHANGED <<main, cap, face, pv, add, opener, active, rebuild, inFlight, crossed>>

-----------------------------------------------------------------------------
(* The Video page of Settings.                                             *)

StartOpener(c) ==
  /\ \E o \in Openers :
       /\ opener[o].at = "idle"
       /\ opener' = [opener EXCEPT ![o] = [at |-> "open", dev |-> c]]
  /\ crossed' = (crossed \/ \E o \in Openers : opener[o].at # "idle")

(* A camera is opened only if the preview is not already on.               *)
StartVideoPreview ==
  IF active THEN UNCHANGED <<active, opener, crossed>> ELSE active' = TRUE /\ StartOpener(chosen)

OnPageSwitch ==
  /\ Idle /\ page = "other"
  /\ page' = "video"
  /\ StartVideoPreview
  /\ UNCHANGED <<main, cap, wizardVars, previewVars, add, chosen, rebuild, late, stuck, skipped, away, inFlight>>

(* The capture is released by a thread of its own.                         *)
StopVideoPreview ==
  /\ Idle /\ page = "video"
  /\ cap[Closing] = None
  /\ page' = "other"
  /\ active' = FALSE
  /\ cap' = [cap EXCEPT ![Closing] = cap[Window], ![Window] = None]
  /\ inFlight' = (inFlight \/ \E o \in Openers : opener[o].at = "assign")
  /\ UNCHANGED <<main, wizardVars, previewVars, add, opener, chosen, rebuild, late, stuck, skipped, away, crossed>>

Closed ==
  /\ cap[Closing] # None
  /\ cap' = Release(Closing)
  /\ UNCHANGED <<page, main, wizardVars, previewVars, add, settingsVars, ghosts>>

OpenerOpens(o) ==
  /\ opener[o].at = "open"
  /\ Opens(o, opener[o].dev)
  /\ opener' = IF cap'[o] = None THEN [opener EXCEPT ![o] = NoThread] ELSE [opener EXCEPT ![o].at = "check"]
  /\ UNCHANGED <<page, main, wizardVars, previewVars, add, active, chosen, rebuild, ghosts>>

(* Mutant: the page may have been left while the camera opened. *)
OpenerKeeps(o) ==
  /\ opener[o].at = "check"
  /\ opener' = [opener EXCEPT ![o].at = "assign"]
  /\ UNCHANGED <<page, main, cap, wizardVars, previewVars, add, active, chosen, rebuild, ghosts>>

OpenerChecks(o) ==
  /\ opener[o].at = "check"
  /\ IF active
     THEN opener' = [opener EXCEPT ![o].at = "assign"] /\ UNCHANGED cap
     ELSE opener' = [opener EXCEPT ![o] = NoThread] /\ cap' = Release(o)
  /\ UNCHANGED <<page, main, wizardVars, previewVars, add, active, chosen, rebuild, ghosts>>

(* A capture that is replaced is closed with its last reference.           *)
OpenerAssigns(o) ==
  /\ opener[o].at = "assign"
  /\ opener' = [opener EXCEPT ![o] = NoThread]
  /\ cap' = [cap EXCEPT ![Window] = opener[o].dev, ![o] = None]
  /\ UNCHANGED <<page, main, wizardVars, previewVars, add, active, chosen, rebuild, ghosts>>

(* The old capture is released before the new camera is saved and opened.  *)
OnCameraChange(c) ==
  /\ Idle /\ page = "video"
  /\ c # chosen
  /\ cap' = Release(Window)
  /\ chosen' = c
  /\ StartOpener(c)
  /\ UNCHANGED <<page, main, wizardVars, previewVars, add, active, rebuild, late, stuck, skipped, away, inFlight>>

(* A language takes effect 200 ms after it was picked, when its list has   *)
(* closed: all widgets are made again and the page shown is switched to    *)
(* once more.                                                              *)
OnLanguageChanged ==
  /\ Idle /\ page = "other" /\ ~rebuild
  /\ rebuild' = TRUE
  /\ UNCHANGED <<page, main, cap, wizardVars, previewVars, add, opener, active, chosen, ghosts>>

ApplyLanguageRebuild ==
  /\ Idle /\ rebuild
  /\ rebuild' = FALSE
  /\ cap' = Release(Window)
  /\ IF page = "video" THEN StartVideoPreview ELSE UNCHANGED <<active, opener, crossed>>
  /\ UNCHANGED <<page, main, wizardVars, previewVars, add, chosen, late, stuck, skipped, away, inFlight>>

-----------------------------------------------------------------------------
Init ==
  /\ \/ page = "cameras" /\ main = [then |-> "scan", dev |-> None] /\ download \in BOOLEAN /\ enrolled = FALSE
     \/ /\ page = "other"          \* there is a model already
        /\ main = [then |-> "free", dev |-> None] /\ download = FALSE /\ enrolled = TRUE
  /\ cap = [h \in Holders |-> None]
  /\ visit = [v \in Visits |-> [at |-> "unused", wanted |-> FALSE, dev |-> None, left |-> {}]]
  /\ probe = [x \in Probes |-> NoProbe]
  /\ listed = FALSE /\ sel \in Cameras /\ face = sel /\ asked = FALSE
  /\ pv = [p \in Previews |-> NoThread]
  /\ current = None /\ thread = None /\ add = "idle"
  /\ opener = [o \in Openers |-> NoThread]
  /\ active = FALSE /\ chosen = sel /\ rebuild = FALSE
  /\ nextOn = FALSE /\ answers = TRUE /\ advance = FALSE
  /\ late = 0 /\ stuck = {} /\ skipped = FALSE /\ away = FALSE /\ inFlight = FALSE /\ crossed = FALSE

Caller(v) ==
  (\E c \in Cameras : StartProbe(v, c)) \/ CallerChecks(v) \/ CallerReleases(v) \/ ScanThreadEnds(v)

Worker(v, c) == WorkerOpens(v, c) \/ WorkerReads(v, c) \/ WorkerSettles(v, c)

Preview(p) == PreviewOpens(p) \/ PreviewReads(p) \/ PreviewFrame(p) \/ PreviewEnds(p)

Opener(o) == OpenerOpens(o) \/ OpenerChecks(o) \/ OpenerAssigns(o)

User ==
  \/ \E c \in Cameras : OnCameraSelectionChanged(c) \/ OnCameraChange(c)
  \/ GoNext \/ GoPrev \/ Slide3ButtonYes \/ Slide3ButtonNo
  \/ OnScanButtonClick \/ OnSkipSecondButtonClick \/ OpenSettings
  \/ OnPageSwitch \/ StopVideoPreview \/ OnLanguageChanged

Next ==
  \/ User \/ JoinEnds \/ UpdateDownloadGui
  \/ \E v \in Visits : Caller(v) \/ UpdateCameraListGui(v) \/ \E c \in Cameras : Worker(v, c)
  \/ \E p \in Previews : Preview(p)
  \/ AddOpens \/ AddEnds \/ OnAddFinished
  \/ \E o \in Openers : Opener(o)
  \/ Closed \/ ApplyLanguageRebuild

Spec == Init /\ [][Next]_vars

-----------------------------------------------------------------------------
(* Correctness.                                                            *)

VisitType ==
  [at : {"unused", "next", "wait", "use", "posted", "end"}, wanted : BOOLEAN,
   dev : Cameras \union {None}, left : SUBSET Cameras]

ProbeType ==
  [worker : {"open", "read", "settle", "end"}, status : {"pending", "done", "abandoned"},
   ok : BOOLEAN]

TypeOK ==
  /\ page \in {"cameras", "emitter", "scan", "later", "gone", "video", "other"}
  /\ main \in [then : {"free", "rest", "preview", "scan", "emitter", "add"}, dev : Cameras \union {None}]
  /\ cap \in [Holders -> Cameras \union {None}]
  /\ visit \in [Visits -> VisitType]
  /\ probe \in [Probes -> ProbeType]
  /\ listed \in BOOLEAN /\ asked \in BOOLEAN /\ sel \in Cameras /\ face \in Cameras /\ chosen \in Cameras
  /\ pv \in [Previews -> [at : {"idle", "open", "loop", "read"}, dev : Cameras \union {None}]]
  /\ current \in Cameras \union {None} /\ thread \in Previews \union {None}
  /\ add \in {"idle", "starting", "running", "ended"}
  /\ opener \in [Openers -> [at : {"idle", "open", "check", "assign"}, dev : Cameras \union {None}]]
  /\ active \in BOOLEAN /\ rebuild \in BOOLEAN
  /\ nextOn \in BOOLEAN /\ answers \in BOOLEAN /\ advance \in BOOLEAN
  /\ download \in BOOLEAN /\ enrolled \in BOOLEAN
  /\ late \in 0 .. MaxLate /\ stuck \in SUBSET Previews /\ skipped \in BOOLEAN
  /\ away \in BOOLEAN /\ inFlight \in BOOLEAN /\ crossed \in BOOLEAN

(* "A capture is claimed exactly once and never silently discarded         *)
(* unreleased": a camera a probe has open belongs to the worker, which     *)
(* will release it or hand it over, or to the scan thread, which has taken *)
(* it or will; and the scan thread never uses a capture that is closed.    *)
HandedOver(v, c) ==
  /\ visit[v].dev = c
  /\ visit[v].at = "use" \/ (visit[v].at = "wait" /\ probe[<<v, c>>].status = "done" /\ probe[<<v, c>>].ok)

CaptureClaimedOnce ==
  \A v \in Visits, c \in Cameras :
    /\ cap[<<v, c>>] # None => ((probe[<<v, c>>].worker # "end") # HandedOver(v, c))
    /\ HandedOver(v, c) => cap[<<v, c>>] = c

HandOverInv == TypeOK /\ CaptureClaimedOnce

(* The scan thread of an earlier visit has not come to an end yet: the     *)
(* user went back and forth while it looked at a camera.                   *)
CutShort(v, c) == visit[v].at \in {"wait", "use"} /\ visit[v].dev = c /\ ~visit[v].wanted

(* When `add` is about to open the camera and its page was not left since  *)
(* it was started, nobody else of the wizard has it, each of them by its   *)
(* own account: a preview only if its thread outlived the join; a probe    *)
(* only if it was given up, or its scan cut short; the infrared question   *)
(* only if the page was turned over it without an answer.                  *)
AddFindsCameraFree ==
  add = "starting" /\ ~away =>
    \A h \in Holders : cap[h] = face =>
      \/ h \in stuck
      \/ \E v \in Visits, c \in Cameras : h = <<v, c>> /\ (probe[h].status = "abandoned" \/ CutShort(v, c))
      \/ h = Emitter /\ skipped

(* Settings shows the camera that is selected, and holds none on another   *)
(* page than Video, unless two openers crossed or the page was left        *)
(* between an opener's check and its assignment.                           *)
WindowShowsChosen ==
  /\ cap[Window] # None /\ page # "video" => inFlight
  /\ cap[Window] \notin {None, chosen} => crossed \/ inFlight

-----------------------------------------------------------------------------
(* The inductive invariant behind AppCamerasProofs.                        *)

(* Who waits for a probe is the one it is for; a probe is given up once    *)
(* only, and a worker that says it has a frame has the camera.             *)
InvProbe(v, c) ==
  /\ probe[<<v, c>>].worker # "end" => probe[<<v, c>>].status # "done"
  /\ probe[<<v, c>>].status = "pending" => visit[v].at = "wait" /\ visit[v].dev = c
  /\ probe[<<v, c>>].status = "abandoned" => late > 0
  /\ visit[v].at = "wait" /\ visit[v].dev = c => probe[<<v, c>>].status # "abandoned"
  /\ probe[<<v, c>>].worker = "settle" /\ probe[<<v, c>>].ok => cap[<<v, c>>] = c

InvProbes ==
  /\ CaptureClaimedOnce
  /\ \A v \in Visits : visit[v].at \in {"wait", "use"} => visit[v].dev \in Cameras
  /\ \A v \in Visits, c \in Cameras : InvProbe(v, c)

(* Only the last preview is alive, and those that outlived a join.         *)
InvPreviews ==
  /\ \A p \in Previews : cap[p] # None => pv[p].at \in {"loop", "read"}
  /\ \A p \in Previews : pv[p].at # "idle" => p = thread \/ p \in stuck

(* What the main loop waits for goes with the page it is on, and while     *)
(* `add` runs and its page is not left nothing starts a preview.           *)
InvPages ==
  /\ ~InWizard => main.then = "free"
  /\ main.then = "add" => page = "scan" /\ add = "idle"
  /\ main.then = "emitter" => page = "emitter"
  /\ main.then = "scan" => page = "cameras"
  /\ page \notin {"cameras", "gone"} => \A v \in Visits : ~visit[v].wanted
  /\ ~away /\ add # "idle" => page = "scan"
  /\ ~away /\ add = "starting" => main.then = "free"
  /\ ~away /\ add = "starting" => \A p \in Previews : pv[p].at # "idle" => p \in stuck

(* The holders there is one of, and the wizard knows no opener.            *)
InvHolders ==
  /\ cap[Emitter] # None => page \in {"emitter", "gone"} \/ skipped
  /\ cap[Adder] # None => add = "running"
  /\ \A o \in Openers : cap[o] # None => opener[o].at \in {"check", "assign"}
  /\ page \notin {"video", "other"} =>
        /\ cap[Window] = None /\ cap[Closing] = None /\ ~rebuild
        /\ \A o \in Openers : opener[o].at = "idle"

(* An opener past its check knows an active page, or one that was left     *)
(* since; openers that never crossed open what is selected.                *)
InvOpeners ==
  /\ active <=> page = "video"
  /\ \A o \in Openers : opener[o].at = "assign" => active \/ inFlight
  /\ ~crossed => \A o \in Openers : opener[o].at # "idle" =>
        /\ opener[o].dev = chosen
        /\ \A q \in Openers : opener[q].at # "idle" => q = o
  /\ WindowShowsChosen

CamerasInv == InvProbes /\ InvPreviews /\ InvPages /\ InvHolders /\ InvOpeners
=============================================================================
