# Ubuntu Hello: a TLA+ model of its authentication and its tools

Ubuntu Hello logs users in by their face. A PAM module starts a recognition
process, races it against the password prompt, tells the desktop what is going
on and, after a login, unlocks the keyring with a sealed password. Around it are
the tools: face models, a configuration, a setup wizard, a settings window, and
a removal that gives the passwords back. This directory holds TLA+ models of
those parts, the TLC configurations that check them and TLAPS proofs of their
main properties. Paths below are relative to the repository; `main.cc` is
`ubuntu-hello/src/pam/main.cc`.

    tlc -config PamIdentify_one.cfg MCPamIdentify.tla     # one run
    tlapm PamIdentifyProofs.tla                           # one set of proofs

## 1. Inventory

| Component | State it keeps | Operations | Hard behaviour |
|---|---|---|---|
| PAM module, `identify()` (main.cc, optional_task.hh, face_skip.cc, enter_device.cc) | confirmation type under a mutex, two threads, a child process, the `PAM_AUTHTOK` item, the user's face-skip marker | pam_sm_authenticate, pam_sm_open_session, pam_sm_setcred | two threads race to answer; teardown of the loser; signals, hung or killed children; calls of one user overlap |
| compare (compare.py, recorders/) | scan counters and two clocks, exit code, `_cleaned_up`, detector lock | start-up, recognition loop, exit, SIGTERM handler, session watcher | a signal handler on top of any step; stale answers of the watcher; dark and lost frames |
| Notifications (notify.py) | the card shown, `_lock`, `_io_lock`, `_finalized` | start, liveness, success ... cancelled | a background send against the final card, a handler against its own thread's lock |
| Rubberstamps (rubberstamps/) | the nose's baseline and recorded nods; the pressed key, the time left | execute, nod.run, hotkey.run, on_key | misspelt, missing or crashing rules; a keyboard thread; a face that leaves the view |
| Keyring sealing (cli/keyring.py, keyring_crypto.py) | TPM files, software blob, master key and its temporary file, pending marker, login keyring | enable, repair, disable | one file at a time, killed at any step, two jobs at once |
| Wallet restore (keyring_restore.py, wallet_backend.py, package-prerm.sh, uninstall.sh) | sealed users to do, TPM contexts, results | restore, restore --all, removal | buses and TPM tools that fail or hang, one time limit for all users |
| Root helpers (main.cc 381-506) | pipes, a deadline | run_root_helper | reader, writer and deadline at once |
| Face models (cli/add.py, remove.py, clear.py, list.py, enroll_capture.py) | `models/<user>.dat`, samples of a scan | add, remove, clear, guided capture | read, scan for a minute, write back; truncate in place |
| Configuration (config_edit.py, config_ensure.py, install_config.py, cli/set.py, cli/disable.py, the GTK pages) | config.ini | set_option, set, restore, migrate, whole-file write | five ways to write, no lock |
| Model data (download_models.py, dlib-data/install.sh) | three data files | download | partial files |
| Setup wizard (onboarding.py, enroll.py) | page, Next, scan pass, camera generation, timers, `self.proc`, preview thread | next, back, download, scan, add, finish | callbacks that come on another page, probes that time out |
| Settings window (window.py, tab_*.py) | page, capture, preview loop flag, a copy of the configuration | page switch, camera change, save, add, delete | background opens that finish late |
| Theme (theme_detect.py, the end of window.py) | refresh generation, probes under way, a pending flag and its timers, the monitor process | setup_theme, refresh, apply, schedule, stop | probes that finish out of order, a flag two threads set without a lock, tools that fail |
| The rest (gtk4compat.py, authsticky.py, auth_helper.py, cli.py, packaging) | none of their own, or presentation | | |

How they meet: the PAM module spawns compare and learns only its wait status
and its death by signal; compare sends cards to the user's session bus and runs
the rubberstamps; the PAM module spawns `cli.py keyring enable` in
`pam_sm_setcred` and reads the sealed files when a face was accepted; the
settings window and the wizard run the same CLI; the removal scripts run
`keyring restore --all` and delete the seals; `config.ini` and
`models/<user>.dat` are read by all and locked by none; the wizard, the settings
window and `add` compete for the camera.

What makes each part correct: a login succeeds only by a face, and a password
typed meanwhile is not lost (PAM module); the exit code and the last card agree
and were earned by frames (compare, notifications); a rule is passed only for a
reason its line gives (rubberstamps); a seal that reports success can be read,
and a failure takes nothing away that it need not (keyring); nobody's seal is
deleted untried (restore); a saved model or option is not lost but to a stated
cause (models, configuration); no page is a dead end and no error a lie
(wizard); an open capture has one owner (previews); the look is out of date only
while a refresh is on its way or for a stated cause (theme). `PROJECT.json` lists
the hazards line by line.

## 2. Modules

| Module | Models | Role |
|---|---|---|
| `PamOutcome` | what one call of `identify()` promises | abstract specification |
| `PamIdentify` | `identify()`, its threads, compare as seen from outside, overlapping calls, the face-skip marker | detailed; implements `PamOutcome` |
| `CompareLife` | the compare process as the PAM module sees it | abstract specification |
| `FaceScan` | compare.py from the camera to its exit, with watcher, detector, card sender and SIGTERM | detailed; implements `CompareLife` |
| `Rubberstamps` | execute(), nod and hotkey | detailed |
| `KeyringSeal` | the keyring jobs and the files of one user | detailed |
| `WalletRestore` | the sweep before removal, over several users | detailed |
| `ModelStore` | the commands on one user's models file, guided capture | detailed |
| `ConfigStore` | all writers of config.ini | detailed |
| `Wizard` | the wizard's pages and the callbacks behind them | detailed |
| `AppCameras` | who holds which camera in the GTK apps | detailed |
| `ThemeFollow` | how the GTK apps follow the look of the desktop | detailed |
| `MC...` | constants for TLC | |
| `...Proofs` | TLAPS proofs, about the module they are named after; `LoginProofs` is about `FaceScan` and `KeyringSeal`, `SetupProofs` about `ConfigStore` and `Wizard` | |

`PamIdentify` and `FaceScan` are joined by `CompareLife`: FaceScan implements it,
and PamIdentify's compare actions are its steps. `Rubberstamps` refines what is
one verdict in `FaceScan`: passed (the process exits 0), denied, or a crash.
`Wizard` and `AppCameras` describe the same program from two sides: pages
and callbacks in one, cameras and threads in the other; AppCameras keeps of
the pages only those that use a camera.

### PamIdentify

An *attempt* is one call of `identify()`. `pc` is its main thread: `idle`
(before `identify_preflight`), `admitted`, `waiting` on the condition variable,
`grace` (the five seconds after SIGTERM) and `joinChild` when the password won,
`failed` and `awaitPassword` when a failed face leaves the prompt to the user,
`dismiss`, `pressing`, `joinPass` for the three ways to get rid of the prompt,
`record`, `conclude`, `returned`, then `closed` by the application or `dead`.
`waiter` is the child_task thread, whose `waitpid` (`Reap`) and whose locking of
the mutex (`ChildConfirms`) are two steps, because SIGTERM, a submitted password
or the program's death may come between them. `pass` is the pass_task thread.
`compare`, `exit` and `term` are the child's life, its wait status and a pending
SIGTERM. The gates of `check_enabled` refuse with any of three codes; which one
is data the properties do not tell apart. The wait for a condition variable is
the guard of `WakeForPassword` and `WakeForFace`.

Attempts of one user share `skipMarker`, so runs with two attempts show calls
that overlap (a lock screen and a `sudo` in a terminal). Clearing the marker may
fail, unnoticed by the code; a marker that stays for that reason is `stuck`.
A call's options are the code's: among them `idleAbort`, the option
`core.abort_on_session_idle` under which compare's session watcher sends SIGTERM
to compare (`CompareCancelled`).

`WaitInterrupts` lets a signal handler of the host program interrupt
child_task's `waitpid`, which ignores the error.

### FaceScan

Time is counted in ticks. A turn of the loop (`Turn`) takes 1 to `TurnMax`
ticks, and the recognition clock starts at any tick of the turn that sees the
first usable frame. A frame is black, dark, usable, or a match. `main` is the
main thread; `handler` is `_signal_exit` running on top of it, during which no
step of the main thread happens; `starter` is the thread `AuthNotifier.start`
creates; `watcher` holds the last idle hint, which may be stale when it is used.
`stateLock` is the notifier's `_lock` while the main thread or the handler has
it, `ioLock` is `_io_lock`. Neither is re-entrant: a handler that interrupts
`_notify` while it has one of them waits for the thread it runs on
(`SelfBlocked`). What the main thread and the handler do with a lock takes
several steps; the starter thread's moments with `_lock` are one step, as no
signal handler runs on it. `Unwind` is a `sys.exit` that goes past `cleanup()`.

The rubberstamps are one verdict here, with their liveness prompts, which take
the same lock; what they decide is in `Rubberstamps`. A frame that cannot be read ends the process (`ReadFails`).

### KeyringSeal

A *job* is one run of `keyring enable`, `repair` or `disable`, or the helper
`pam_sm_setcred` starts. Every file has one variable. A file that was written
whole names its job, which stands for its password and its key, so "the pair
belongs together" is `pub = priv` and "this blob decrypts" is
`key[blob] = master`. `PamReads` and `RestoreReads` are what the two readers
make of the files: `try_set_keyring_authtok` does not fall back to the blob when
both TPM files exist, `unseal_password` does. A job can fail at any step that
may raise, and be killed at any step; a killed job's `tpm2_create` may go on
(the settings window kills only the command) or stop with the file it was writing
empty. The pending marker is not created by anything in the repository at this
commit, so it is there from the start or not at all. The wizard's
`_disable_keyring_for_user` removes the same four files itself, the pending
marker first and past errors; `Wizard` has that page as one step (`SaveKeyring`)
without the files.

### Rubberstamps

A rule is what its line says: stamp, mode as written, whether its arguments set
`failsafe=0`, and what is wrong with it. `Skips` are the problems after which
`execute` goes on with the next rule; `raises` are options it does not survive.
The mode is read twice by the code, with different care: the stamp's own option
compares it as written, `_run_stamp` in lower case, so `Faildeadly` denies on a
timeout and passes on a crash (`OptionFailsafe`, `RuleFailsafe`). A frame is the
position of the nose on two axes, and whether it comes after a gap of
`FACE_GAP_RESET`; frames without exactly one face are left out, as they change
nothing. `anchor` and `legs` are the code's own, `reach` and `went` are history
variables that account for the head independently of the anchor. The
hotkey loop's two looks at `pressed_key` are two steps, with the keyboard thread
(`KeyPressed`) before, between and after them.

### WalletRestore

A *home* is what a user has: the password a TPM seal and a software seal hold,
whether a session bus is there, and what opens the login keyring and each
KWallet. Unsealing may raise what neither `unseal_password` nor its callers
catch (`UnsealRaises`); `raised` is the place of the user whose software blob
did, at whom the sweep ended. Bus calls answer, fail, or run into their timeout, in units of five
seconds; the tpm2 tools may hang for good (`TpmHangs`). Under `prerm` the sweep
has a budget, and `CutOff` is `timeout(1)`. The backend is read from the sweep's
own environment (`kde`), as in the code, and not from the user's. `todo` is the
set of places in `Names`, the sorted list, that are still to be done. The three
removers are the packages' prerm, uninstall.sh, which deletes the command before
it looks for it, and the command run by hand. Users may log in or out and change
passwords while the sweep runs.

### ModelStore

A *job* is one run of add, remove or clear. It reads the file when it starts and
writes what it read, edited, when it ends. `file` is whole, torn or not there;
`fd` says what became of a file that a job has open (still its own, shared with
another writer, unlinked by a clear). A model is known by the job that captured
it; its id is what users see, and ids are used again. `Without` is the loop of
remove.py that keeps the other models. The guided capture
(`Capture`) looks for a first face, then goes through steps that end with their
samples or by their deadline. The settings page starts jobs from the rows it lists, which may
be stale (`ListModels`, `rows`).

### ConfigStore

A *writer* has a task: an edit by `config_edit.set_option` (read, write beside,
rename), `ubuntu-hello set` (find the line, then rewrite in place, matching lines
of every section), a configparser copy (load now, write everything back later),
the restore of a missing file and the upgrade. An option has the values the
properties tell apart: certainty and confirmations are named after the security
level they belong to, the nod rule is open or closed, `ignore_services` has
polkit-1 among them or not. The upgrade is two edits, the missing confirmations
and the removal of polkit-1, each decided by what it finds. A file is missing, fine or
garbled; empty is fine, as configparser reads it. Writers fail, stop
at any step, and overlap. `missed` is a history variable: the options whose
present value a writer has not seen, because they changed after it had read the
file or because the file was empty or unreadable when it did.

### Wizard

`page` is the page shown, `next` whether Next can be pressed. Everything visible
happens on the main loop, but 10 ms timers, scan threads, the end mark of a
download and finished `add` commands act on whatever page is shown then;
`strays` records which of them came too late for their page, and properties
excuse a wrong page or message only by one of those. Installs, scans and adds
are commands and threads with lives of their own. Dialogs that run a nested
loop are one step. A scan thread posts its list for its own visit only
(`current`), its errors for any.

### AppCameras

Every holder (probe, preview, emitter question, `add`, the settings window, an
opener of it) has at most one camera, and a camera one holder: a second open
fails. A probe's worker and its caller settle who owns the capture under the
lock of `_probe_camera`; a join that times out leaves a thread behind (`late`,
bounded by `MaxLate`). The wizard's pages are here as far as cameras go: the
camera page, the infrared question, the face scan, and one page for all that
come `later`. `GoNext` is go_next_slide, from each of them, by the Next button
or by the timer of a finished scan; `GoPrev` is Back; the answers, a download
that ends late and Skip have actions of their own. `stuck` and `skipped` are
history variables: the preview threads that outlived their join, and a question
that was left without an answer. In Settings each background open is a thread
whose check of `video_loop_active` and whose assignment are two steps. Two `add`
commands at once are left to `Wizard`, and the 10 ms before the camera page is
set up are part of the step that asks for it.

### ThemeFollow

A `session` is a desktop whose settings the elevated app probes as the user, or
`own` for an app that is not elevated and reads GNOME's settings itself. `Channel`
says who announces a change of a setting: the monitor process, the watched
files, or nobody. A probe reads one setting after the other, each read may fail,
and it is applied under the lock only while its generation is the newest.
`_schedule` is three steps on the reading thread (look at `_pending`, set it, add
the timer), with the main loop and the file monitors between them; `lines` and
`notes` are announcements nobody has taken yet. `doubt` is a history variable:
settings whose last change was announced to nobody (no channel, or a monitor
that has not subscribed yet or has died) or which the newest probe could not
read.

## 3. Runs

| Run | Bounds | Shows |
|---|---|---|
| `PamIdentify_one` | 1 call, every option, 2 Enter retries, interrupted waits | types; the call implements `PamOutcome`; a submitted password ends it although compare never reacts; if compare ends, so do calls that need no user; the death of the program stops the scan (`OrphanStops`) |
| `PamIdentify_two` | 2 calls, lock screens with and without a watcher, sudo | success only by a face; a call leaves neither threads nor processes nor a spoilt prompt (`CallLeavesClean`); what sets the face-skip marker (`MarkerHasCause`); a success by face takes it away unless the file system refuses |
| `PamIdentify_eintr` | as `PamIdentify_one` | *violation*: see section 5 |
| `FaceScan_signals` | timeouts of 2 ticks, turns of up to 2, 2 confirmations, 2 SIGTERMs, 3 unreadable hints | clocks, confirmations and exit codes (`CodesInv`), cards, decided codes (`DecisionStands`), the end of the scan, implements `CompareLife` |
| `KeyringSeal_lone` | 3 jobs one after another, 2 passwords | what a success promises after any debris (`ReportsHold`), where a password or a request can be lost (`LossesHaveCause`), that keys and login keyring stand (`KeysStand`) |
| `ModelStore_jobs` | 3 jobs, 2 frames, 2 steps of 1 sample | which overlaps lose a model or leave no readable file; an enrolment ends |
| `ConfigStore_writers` | 3 writers, 9 tasks | a change is undone only by a writer that could not know of it (`ChangedByIntentOrStale`); what leaves the file empty; level and nod go together |
| `Wizard_pages` | 2 installs, 2 scan threads, 2 adds, 1 Back, 3 timers, 3 models | no two adds at once, no finish without a scan, errors with a cause, a way forward, each but for the late callbacks it names |
| `AppCameras_handles` | 2 cameras, 2 visits of their page, 2 previews, 2 openers, 1 late thread | one owner per capture; when `add` opens its camera, whoever else has it has it by an account of its own (`AddFindsCameraFree`); the chosen camera in Settings |
| `Rubberstamps_rules` | 15 rule sets of up to 2 rules, 3 x 3 nose positions, 2 or 3 turns of the hotkey loop | rules are passed for a stated reason, verdicts are earned, the checks end |
| `ThemeFollow_switches` | 3 kinds of session, 2 changes, 3 settings, 2 themes of which one has no GTK 4 directory | the look is out of date only with a refresh on its way or for a stated cause (`ThemeInv`), and in the end is the desktop's (`FollowsDesktop`) |
| `WalletRestore_sweep` | 3 users of 5 kinds, 120 seconds in units of 5, 1 change meanwhile, 3 removers | whom a sweep leaves out and why, a success opened a wallet, the removal ends |

Why the bounds are enough. One call has all the threads of a call; calls meet
only through the marker, a single bit, and two calls give every order of one
setting and another clearing it. Two Enter retries reach the first, a middle and
the last press. In the loop a timeout no shorter than the longest turn lets a
clock run out in the middle of a turn or at its end, and a second confirmation lets matches and
misses alternate; the proofs cover all values. Two SIGTERMs put the second into
the handler of the first. Three unreadable hints are the code's own limit. Three
keyring jobs let the third meet the debris of a killed second on the files of a
first; two passwords tell a stale one from a new one. Three model jobs are two
that overlap and one that meets what they leave; two frames and two steps have a
first and a last. Three writers are two that overlap and one before, between or
after them; the nine tasks have every way of writing and both edits of every
two-option setting. In the wizard two of each thread are the current one and a
stale one, and one Back is enough to make any callback stray. The second visit of
the camera page is the one that meets what the first has left; two cameras are
the one `add` wants and another, in Settings a chosen and a forsaken one, and two
openers can cross. With
three nose positions and a minimum distance of one the nose can go far, come
back, and be anchored at either end; two directions are the code's default.
Three users can hang for 150 seconds between them, more than the 120. Two changes
of the desktop give a probe that is overtaken, and a second announcement at any
step of the first; the three sessions are one for each way of hearing of a
change, the three settings have a first, a middle and a last read.

`CHECK_DEADLOCK FALSE` is given everywhere because calls, scans, jobs and sweeps
end and the system then stops, and because `FaceScan` has a real blocked state
that `ScanEnds` names. Symmetry is used where properties are invariants or
action properties only.

Fairness. `ThreadSpec` assumes that the threads of a call run (weak fairness of
each thread: nothing in `identify()` waits on something other than its own
guards) and that init reaps orphans. That compare goes on, which its own timeouts
justify (`ScanEnds` in `FaceScan`), is `CompareFairness`, the premise of
`FaceEndsCall` alone: `PasswordEndsCall` holds without it, and `OrphanStops`
assumes `SignalFairness`, that a pending SIGTERM is delivered and a cleanup that
has begun ends, while the scan may go on for ever. Nothing
is assumed of the user, of the application or of a kill. In `FaceScan` the main thread, the
handler and the helper threads are weakly fair: the camera returns frames and the
notification service answers or times out. The end of the stamps needs strong
fairness, because their prompts take the notifier's lock again and again while
each stamp has its own timeout. No fairness is assumed of SIGTERM or of the
session. In `ModelStore` the capture and the disk go on (frames arrive, a step's
deadline passes); the user need not answer. In `Wizard` the main loop runs what
is due and commands and probes end by their own limits; the user may do nothing.
In `Rubberstamps` one weak fairness for the process is enough, since both loops
watch the clock. In `WalletRestore` calls end by their timeouts and
`timeout(1)` fires; a TPM tool that hangs is never assumed to come back. In
`ThemeFollow` the app's threads and timers run and every tool of a probe has a
timeout; the monitor process may never subscribe.

## 4. Proofs

All ten detailed modules have proofs, and every invariant, safety action property
and refinement that a passing run checks is a theorem. The theorems hold for every value of the constants, under assumptions that
are named where the constants are declared. Those are types and bounds
(`CallsAssumption`, `RetriesAssumption`, `InterruptAssumption`;
`SetupsAssumption`, `BoundsAssumption`; `OverlapAssumption`; `PositionsAssumption`,
`LimitsAssumption`, `RuleSetsAssumption`; `CaptureAssumption`; `BudgetAssumption`,
`RemoversAssumption`, `HomesAssumption`; `LateAssumption`; `KeyAssumption`,
`SessionsAssumption`, `ChangesAssumption`; `ChosenAssumption`; Wizard's
`BoundsAssumption` and `AddsAssumption`), and that different things have
different names: a job is none of the marks a file can carry
(`JobsAssumption`), no password or theme is the value for "none"
(`PasswordsAssumption`, `ValuesAssumption`), no download is `set`
(`InstallsAssumption`), no camera or thread is `None`, and two
holders of a camera are two threads (`NoneAssumption`, `HoldersAssumption`).
`NamesAssumption` says that the sorted list of users is a finite list.

The inductive invariant is at the end of the module it is about, for `ConfigStore`
and `Wizard` in `SetupProofs`. Each was checked by TLC first and is proved action
by action. Theorems about two modules share a proof module, and where both would
say `Init` or `TypeOK` one has names of its own (`SealInit`, `ConfigTypeOK`).

*PamIdentify.* `TypeCorrect`, then `IInv`, one `CallInv` for each attempt. The
safety properties are not inductive: `SuccessOnlyByFace` needs to know that the
main thread's branch agrees with the confirmation and the wait status
(`InvBranch`), that a confirmation names a thread that has finished
(`InvConfirmed`), that a report is present exactly when its thread says so
(`InvThreads`), and that a wait that was not interrupted left what compare ended
with (`InvReaped`). `IgnoreCarriesPassword` (PAM_IGNORE only with the typed
password stored) and `PromptKept` need `InvPrompt`:
until the face has won nobody touches the prompt but the user. `CallInvStep`
takes one action at a time for the attempt that moves, `OtherCalls` shows that
the others keep theirs. `SuccessSafe`, `TeardownSafe` and `LeavesCleanSafe` assume
`~WaitInterrupts`; without it they are false, as `PamIdentify_eintr` shows.
`MarkerSafe` needs `InvCancel`: where no watcher may send it, SIGTERM, and with it
the code 12, comes only after a password has won or the program has died, when
nobody looks at the code any more. `Refinement` maps the stages
of the main thread to those of `PamOutcome` and shows for groups of actions
that they are steps of it or stutter; it holds with interrupted waits too, since
the abstract face report is what `waitpid` left behind. `SuccessForgives` has a box
inside a box. Its inner invariant is `Forgiving`: the other calls are over, and
no success that was answered or is about to be has left a marker standing that
the file system would have removed.
`OthersForgive` shows that calls that are over only clear it, `CallForgives` that
the call's own way to success goes through `UpdateFaceSkip`; `ForgivenForGood`
starts that induction in every state that satisfies the property's premise.

*FaceScan.* `LoopInv` strengthens `SuccessEarned` and `TimeoutsHonest` by what
the counters have to do with each other (`InvFrames`), where the loop can be
(`InvLooping`) and how far the two clocks can be apart (`InvClocks`);
`ScanIsBounded` and `CodesAreHonest` follow. `CardInv` says who holds the lock,
that a result is claimed before it is sent, and which card is up at each way
out; `CardIsOutcome` and `DecidedIsFinal` (with its halves `ResultStays` and
`DecidedStands`) follow from it. `ScanImplementsLife` maps every step to one of
`CompareLife` or a stutter; it needs `CardInv` to know that a handler that aborts
runs before cleanup, and that 12 is the handler's code alone (`InvCleaned`). The
cases of the stage mapping exclude each other, as the proof needs to know which
value it has.

*KeyringSeal.* The types hold with overlapping jobs as well. `SealInv` is about
jobs that do not overlap: at most one is between its first and its last step
(`OneAtATime`), and that one has a password (`InvPassword`), finds the TPM files
it has written (`InvTpm`), makes a master key only where there is none and
encrypts with the one that is there (`InvSoft`), and reports success only with
one whole credential in place (`InvSealed`). `Alone` shows that a step of one job
cannot disturb what the invariant says of another; nothing is said of the debris
between jobs, because no step relies on it. That a step belongs to what the job
was started for (`InvKind`), and that disabling has removed what comes before its
next step (`InvDisable`), are there for the other half: `ReportsHoldAlways` is
`SealedPasswordIsRead` and `DisableLeavesNothing`, `LossesHaveCauseAlways` is
`PasswordLostInPlace` and `RequestIsKept`, `KeysStandAlways` is `MasterKeyKept` and
`RingMovedSafely`. All assume `~Overlap`: with overlapping jobs a master key can
be replaced (section 5), and a job's files are not its own.

*Rubberstamps.* The types need `InvRules` (a running stamp is that of a rule not
yet in the log), which with `PassedRules` is inductive: `Passing`, `Exiting` and
`Staying` are the three things a step can do to the log, and each action uses
one. `VerdictsEarned` needs `InvNod` (the anchor lies in the reach of the nose,
`Moving`; each leg was seen and differs from the one before, `FrameLegs`) and
`InvKeys` (a key the loop has looked past is still there or was overwritten).
`VerdictsAreEarned` assumes `MinDirections >= 2`: with one leg a glance would be
a nod, and the code does not check the option.

*WalletRestore.* `SealGoneTried` speaks of the end; `InvTried` says of every
moment of a sweep that a sealed user without a result has a place in `todo`, and
that a sweep that was not cut has left nobody so. `FinishTries` is the step that
takes a user out and gives him a result, whatever call ended it. `InvContexts`
ties the unsealed context files to the user the TPM works for, or to a sweep that
was cut. An exception leaves `todo` as it was, of which its user is the least
(`RaiseStep`), so whoever is left out comes at or after that place, and
`InvRaised` remembers that he has a software blob. A user's turn is the least member of `todo`; that there is one is
`LeastMember`, from the library's theorem that `<` on the naturals is
well-founded, a statement about sets that needs no induction principle.
`OkOnlyForOpened` follows from the types and the steps that give a result.

*ModelStore.* The file alone is not inductive: a job may write what it read long
ago. `InvOrder` therefore says of the file and of whatever any job has read that
ids grow, and `InvJobs` that a remove that goes on has read the id it removes, so
that it never writes an empty list. The lemmas about the edits do not depend on
the jobs: `AppendKeeps` (the next id is above the others) and `WithoutKeeps` (the
loop of remove.py keeps the other models in their order). `Without` is a recursive
function on an interval; `RoundsExist` shows that there is a function with its
equations and `RoundsKeep` what holds after each round, both through the least
round that would fail. `TornHasCause` is a conjunct of the invariant itself;
`LossesAreExplained` looks at the steps that can shrink what is stored.

*AppCameras.* `HandOverInv` needs to know who waits for a probe and that a probe
is given up once only (`InvProbe`). `AddFindsCameraFree` needs to know which page
the main loop waits on (`InvPages`), that an older preview is alive only after a
join timed out (`InvPreviews`), and what each single holder's camera says of the
page (`InvHolders`); `HolderHasAccount` then goes through the holders one by one. `WindowShowsChosen` needs `InvOpeners`: an opener past its
check knows an active page or one that was left since. The proof goes through the
parts of the program (caller, worker, preview, wizard, `add`, Settings, opener) and
shows for each which parts of the invariant it can disturb.

*ThemeFollow.* `StaleHasCause` is about the time after start-up; `InvShown` says of
every moment that each announced setting has a refresh on its way, or is right in
the newest probe, or is shown. It is inductive because a generation has one probe
(`InvProbes`), and because `_pending` is set only while a timer, or the reader that
is about to add one, will clear it (`InvTimer`).

*ConfigStore.* The theorems hold for any number of writers and any choice of
their tasks, and each adds a layer to the one before. `BaseInv` says what a
writer may be doing given its task (`StageOK`), and that of two writers at work
neither believes it is alone (`Overlap`); every later argument about "nobody
else" rests on it. `WriterInv` needs that nobody is about to write an empty
content (`BlankHasCause`): the one step that empties a file without damage is the
truncating open, whose writer is then at `put`. `ChangedByIntentOrStale` is
about single steps, but what a step writes was read steps ago: `KnownInv` says
that a writer is about to write its own edit and, of the options it has not
`missed`, what the file holds now (`Known`). `MissedSteps` follows what a writer
misses from step to step: it grows by what others change, and starts anew when
the writer reads.
`LevelsAndNodAgree` looks across edits. `LevelsInv` says that what is left of a
list of edits fits the file as it is now (`Ready`): the nod comes only after its
rule, the confirmations right after the certainty (`WellFormed`, shown for all
tasks by `TaskShapes`), and `NextEdit` that this survives an edit.
`UndisturbedBefore` brings the many writers down to the one that is at work.
`EditorNeverEmpties` is a corollary no run checks: where only `config_edit` writes,
overlapping, failing or killed, an existing configuration is always whole and
never empty; the upgrade, which drops polkit-1 in place, is not among them. TLC checked the invariants with three writers and some of the tasks,
and with two writers and all of them.

*Wizard.* `PagesIInv` has one part for each way a page can be wrong. `OneAdd`: until
the user has left the page during a scan, a running command means page 4 with its
button off, so a second click cannot come. `ModelsBounded` counts a running command
as a model, which is what keeps the type of `models`. `FirstInv` has to speak of the
timers and scan threads as well as of the pages: a queued `advance` means that
there is a model, and a current scan that page 2 is shown; otherwise a callback
could turn Next on without leaving its mark in `strays`. `CameraInv` does the same for
the list, as long as nothing has turned a page, cleared the list or turned Next on
from elsewhere (`Settled`). `HomeInv` is `FirstInv`'s clause about scans for
wizards in which only the late start of a scan has not happened; `NoCameraInv`
needs it. `DownloadInv` is about a wizard in which no download failed: until the
data is there it is on the first pages with nothing pending (`Fresh`), there is one
download, and an end mark in the queue is that of a good one. TLC checked
`PagesIInv` on the run's bounds and with `MaxBacks = 2`. The attempt to prove
`ErrorsAreTrue` as it was first stated (an error only after a failed download or a
late callback) failed for a good reason: going from page 4 back to page 1 leaves
`self.proc` at `set`, and the watcher then reads the end of a good download as a failure
with no callback on a wrong page. One Back is too few to see it, `MaxBacks = 3`
shows it, and the property now names that cause.

Only model-checked: all liveness (`FaceEndsCall`, `PasswordEndsCall`,
`OrphanStops`, `ScanEnds`, `EnrolmentEnds`, `AlwaysAWayForward`, `ChecksEnd`,
`RemovalEnds`, `FollowsDesktop`), which is outside the prover's reach.

## 5. What the models show of the code

Violated, with a run:

- `PamIdentify_eintr`: child_task calls `waitpid` once and ignores its result.
  Interrupted, it leaves `status` at 0, and the call answers PAM_SUCCESS with
  compare still scanning. The same file has `waitpid_no_eintr`.

The properties had to make exceptions for the following, which the models reach.
Removing the exception from the property gives a counterexample; they are not
runs of their own. The first six contradict what the repository says of itself:

- The comment at main.cc:699 says "Do not set skip on SIGTERM/cancel", but the
  code leaves out a compare that was *killed* by a signal only. compare's handler
  turns SIGTERM into exit code 12, and compare sends itself one when the session
  goes idle: that cancel does set the marker (`idleAbort` in `MarkerHasCause`;
  without it `PamIdentify_two` fails).
- SIGTERM while the main thread, or an earlier run of the handler, has the
  notifier's `_lock` (notify.py:311) or `_io_lock` (320) leaves the handler
  waiting for its own thread, although compare.py:136 promises "same cleanup as
  exit, then abort with code 12" (`SelfBlocked` in `ScanEnds`). The PAM module
  gets rid of such a process after five seconds by SIGKILL; a scan whose parent
  has died stays.
- A move to the TPM that stops in tpm2_create's second file leaves a pair of files
  that PAM prefers and cannot use over a software blob that is still whole,
  against keyring.py:107 (`priv' = "torn"` in `LossesHaveCause`).
- A blob that is not UTF-8, or a master key that can neither be read nor made,
  raises past unseal_password (keyring_restore.py:97-107) and ends the sweep;
  prerm deletes the seals of the users after that one untried, although the
  architecture document has the sweep try every sealed user (`raised` in
  `SealGoneTried`).
- scan_cameras_thread looks at its generation before each probe and before it
  posts its list ("the user left the page: stop probing, post nothing"), but not
  before it posts an error (onboarding.py:469 and 474), which ends the wizard on
  whatever page is shown (a `scan` that is not `current` in `ErrorsAreTrue`).
- go_next_slide (onboarding.py:247) does not release the camera of the infrared
  question, as the answers and Back do; when a late download has enabled Next
  there, or the timer of a finished scan turns the page, `add` finds the camera
  busy, which stopping the preview is meant to avoid (onboarding.py:658)
  (`skipped` in `AddFindsCameraFree`).

The others:

- A face-skip marker that cannot be unlinked stays after a success, and nobody
  notices (`stuck` in `SuccessForgives`). A program that dies while compare is
  still importing, before it asks for the parent-death signal, leaves a compare
  nobody signals (the premise of `OrphanStops`).
- After `rubberstamps.execute` has decided on 0 by `sys.exit`, `_cleaned_up` is
  still false, and a SIGTERM makes it 12 (`DecisionStands` speaks of codes after
  `cleanup()` has begun).
- A keyring job that stops between writing and renaming the master key leaves
  `keyring-master.key.tmp`, and `O_EXCL` makes every later run fail. Of two
  overlapping jobs that find no master key the second replaces the key the first
  has used (`KeysStand` with `Overlap = TRUE`).
- tpm2_create writes over a TPM pair in place, and its public file beside an
  older private file makes a pair that cannot be used (`LossesHaveCause` names
  both moments).
- A call from `pam_sm_open_session` under the input workaround presses Enter
  although it started no prompt (`FirstEnter` has no such guard).
- uninstall.sh deletes `/usr/bin/ubuntu-hello` (line 121) before it looks for
  the command (line 172), so its restore never runs, although
  docs/architecture/README.md:183 has the sweep "used by uninstall / apt `prerm`
  before deleting seals" and tests/test_uninstall_keyring_restore.py compares
  the position of the restore with that of the deletion of the seals only.
  `SweepInv` promises something for prerm alone.
- The restore takes the wallet backend from root's environment, not from the
  user's, and tries kwalletd5 after kwalletd6 has rejected the password. Three
  users whose daemons hang outlast the 120 seconds, and the later ones lose
  their seal untried (`cut` in `SealGoneTried`).
- An add that overlaps a remove, or another add, undoes it; a remove of the only
  model it had read deletes a file that holds another by then. The "saved" card
  is shown before anything is written. A torn file stops add, remove and
  every face login until it is cleared (`LossesExplained`, `TornHasCause`).
- Two overlapping `ubuntu-hello set` can leave config.ini empty though both
  report success, and any command that runs `config_ensure` in that moment
  restores the template over the user's settings (`InPlaceDamage`). The Security
  page goes on to switch the nod on when the edit of its rule failed (`hurt`).
  Its comment (tab_security.py:123) still calls the shipped default "fail-open
  on timeout", which config.ini no longer is.
- In the wizard, callbacks that come on another page can enable Next without a
  model, reset the camera list, report a download that `set` ended, or turn one
  page too many (`strays`); leaving the page during a scan and coming back
  allows two `add` commands at once (`leftScan`); "No" on the emitter question
  hides both buttons for good (`asked.buttons`).
- In Settings the slower of two camera opens wins (`crossed`), and one that has
  passed its check assigns although the page was left (`inFlight`).
- A rule that is misspelt, or names a stamp that is not there, is skipped and
  the login passes; `Faildeadly` denies on a timeout and passes on a crash. Of
  two keys struck in one sleep of the hotkey loop the later one counts, and a
  key struck in its last sleep is lost.

## 6. Plan

The two parts that could still be modelled are `RootHelper` (the pipes and the
deadline of run_root_helper) and, in notify.py, the closing watchdog and
`EnrollNotifier`.

## 7. Not modelled

Face matching, image processing and AES-GCM (pure functions: a frame matches or
not, a blob decrypts or not); the contents of cards, logs and translations; the
session bus, whose calls answer or time out; a camera driver that blocks for
ever inside `read()`, except as a compare that never reacts; a parent that dies
between fork and prctl; whether an application's conversation function tolerates
two callers; reuse of process ids between `waitpid` and `kill`; the pipes of the
root helpers; the tables of `v4l2.py`; comments and formatting of config.ini,
which the camera page and the upgrade lose; download_models.py, a sequential
script; GTK layout, theme files and languages; the rest of packaging, and CI. The
components concerned have the status `partly` or `not_modelled` in
`PROJECT.json`.
