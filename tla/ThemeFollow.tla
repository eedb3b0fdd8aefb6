----------------------------- MODULE ThemeFollow -----------------------------
(***************************************************************************)
(* How the GTK app keeps the look of the desktop (theme_detect.py and the  *)
(* end of window.py).  Elevated by pkexec it cannot subscribe to the       *)
(* user's settings: it probes them with the desktop's tools, and a process *)
(* that runs as the user prints a line for every change.  A thread reads   *)
(* the lines, a timer on the main loop gathers bursts of them, and every   *)
(* refresh probes again on a thread of its own.  Run as the user itself,   *)
(* the app reads GNOME's settings and is called on every change.           *)
(*                                                                         *)
(* The tools, the monitor process and the file monitors are external.      *)
(***************************************************************************)
EXTENDS Naturals

CONSTANTS
  Key,        \* the settings that are followed
  Sessions,   \* desktops, and "own" for an app that is not elevated
  Themes,     \* GTK themes the user may choose
  Icons,      \* icon themes
  Installed,  \* those of both that root finds under /usr/share
  MaxChanges  \* bound on what the user and other programs change

Desktops == {"gnome", "cinnamon", "mate", "xfce", "kde", "lxqt"}

(* Answers that are no value of a setting.                                 *)
Nothing == "nothing"
Unread == "unread"

ASSUME KeyAssumption == Key \subseteq {"dark", "animations", "theme", "icon"}
ASSUME SessionsAssumption == Sessions \subseteq Desktops \union {"own"}
ASSUME ValuesAssumption == {Nothing, Unread} \intersect (Themes \union Icons) = {}
ASSUME ChangesAssumption == MaxChanges \in Nat

VARIABLES
  session,     \* where the app runs
  stage,       \* of setup_theme: "probing", "watch", "following", "untracked", "closed"
  desktop,     \* what the user has set
  shown,       \* what Gtk.Settings has
  monitor,     \* the monitor process: "none", "starting", "on", "gone"
  lines,       \* lines it has printed that nobody has read
  notes,       \* file changes the main loop has not handled
  reader,      \* _schedule on the reading thread: "idle", "check", "set", "add"
  pending,     \* _pending
  timers,      \* debounce timers that run
  generation,  \* _theme_refresh_generation
  probes,      \* the probes under way, with what they have read
  doubt,       \* history: settings whose last change was announced to nobody,
               \* or which the newest probe could not read
  changes      \* what has been changed so far

feed == <<monitor, lines, notes>>
scheduling == <<reader, pending, timers>>
probing == <<generation, probes, doubt>>
vars == <<session, stage, desktop, shown, feed, scheduling, probing, changes>>

Domain ==
  [dark |-> {"light", "dark"}, animations |-> {"on", "off"},
   theme |-> Themes, icon |-> Icons]

(* The order in which _detect_user_theme reads.                            *)
Earlier ==
  [dark |-> {}, animations |-> {"dark"}, theme |-> {"dark", "animations"},
   icon |-> {"dark", "animations", "theme"}]

(* theme_monitor_command, theme_files_to_watch, and the stores the probes  *)
(* read: who tells the app of a change.  The animations are GNOME's on     *)
(* every desktop, and so are the icons of KDE and LXQt.                    *)
Channel(k) ==
  CASE session = "own" -> IF k = "icon" THEN "none" ELSE "monitor"
    [] session = "gnome" -> "monitor"
    [] session \in {"cinnamon", "mate", "xfce"} ->
         IF k = "animations" THEN "none" ELSE "monitor"
    [] OTHER -> IF k \in {"dark", "theme"} THEN "files" ELSE "none"

HasMonitor == session \in {"gnome", "cinnamon", "mate", "xfce"}

(* resolve_gtk4_theme, and the test for index.theme in get_icon_theme_name:*)
(* a theme that is not there is not set.                                   *)
Settable(k, value) ==
  IF k \in {"theme", "icon"} THEN value \in Installed ELSE value # Nothing

(* What a probe answers when a tool is missing, fails or runs into its     *)
(* timeout: a default, or what another desktop's store says.               *)
FailedAnswers(k) ==
  IF k \in {"theme", "icon"} THEN Domain[k] \union {Nothing} ELSE Domain[k]

NewProbe(g) == [gen |-> g, got |-> [k \in Key |-> Unread]]

Complete(p) == \A k \in Key : p.got[k] # Unread

Newest(p) == p.gen = generation

-----------------------------------------------------------------------------
(* The user and other programs.                                            *)

Change(k) ==
  \E value \in Domain[k] \ {desktop[k]} :
     /\ stage # "closed" /\ changes < MaxChanges
     /\ desktop' = [desktop EXCEPT ![k] = value]
     /\ changes' = changes + 1
     /\ \/ /\ Channel(k) = "monitor" /\ monitor = "on"
           /\ lines' = lines + 1
           /\ doubt' = doubt \ {k}
           /\ UNCHANGED notes
        \/ /\ Channel(k) = "files" /\ stage = "following"
           /\ notes' = notes + 1
           /\ doubt' = doubt \ {k}
           /\ UNCHANGED lines
        \/ /\ ~(Channel(k) = "monitor" /\ monitor = "on")
           /\ ~(Channel(k) = "files" /\ stage = "following")
           /\ doubt' = doubt \union {k}
           /\ UNCHANGED <<lines, notes>>
     /\ UNCHANGED <<session, stage, shown, monitor, scheduling, generation, probes>>

(* The watched files are written for other reasons too, on every desktop.  *)
OtherWrite ==
  /\ stage = "following" /\ session # "own" /\ changes < MaxChanges
  /\ changes' = changes + 1
  /\ notes' = notes + 1
  /\ UNCHANGED <<session, stage, desktop, shown, monitor, lines, scheduling, probing>>

(* `gsettings monitor` takes a moment to subscribe, and ends without a     *)
(* schema, with the user's session bus, or when it is killed.              *)
MonitorSubscribes ==
  /\ monitor = "starting" /\ stage # "closed"
  /\ monitor' = "on"
  /\ UNCHANGED <<session, stage, desktop, shown, lines, notes, scheduling, probing, changes>>

MonitorEnds ==
  /\ monitor \in {"starting", "on"} /\ session # "own" /\ stage # "closed"
  /\ monitor' = "gone"
  /\ UNCHANGED <<session, stage, desktop, shown, lines, notes, scheduling, probing, changes>>

-----------------------------------------------------------------------------
(* Probes: _detect_user_theme on a worker, or, for the first one, on the   *)
(* main thread.                                                            *)

Reads(p, k) ==
  /\ p.got[k] = Unread
  /\ \A h \in Earlier[k] \intersect Key : p.got[h] # Unread

Answered(p, k, value) ==
  probes' = (probes \ {p}) \union {[p EXCEPT !.got[k] = value]}

Running == UNCHANGED <<session, stage, desktop, feed, scheduling, changes>>

ReadSetting(p) ==
  \E k \in Key :
     /\ stage # "closed"
     /\ Reads(p, k)
     /\ Answered(p, k, desktop[k])
     /\ doubt' = IF Newest(p) THEN doubt \ {k} ELSE doubt
     /\ Running /\ UNCHANGED <<shown, generation>>

ReadFails(p) ==
  \E k \in Key :
     /\ stage # "closed"
     /\ Reads(p, k)
     /\ \E value \in FailedAnswers(k) : Answered(p, k, value)
     /\ doubt' = IF Newest(p) THEN doubt \union {k} ELSE doubt
     /\ Running /\ UNCHANGED <<shown, generation>>

(* The worker prints the exception and is gone.                            *)
ProbeRaises(p) ==
  /\ stage = "following"
  /\ probes' = probes \ {p}
  /\ doubt' = IF Newest(p) THEN Key ELSE doubt
  /\ Running /\ UNCHANGED <<shown, generation>>

(* _apply_theme_settings.                                                  *)
Set(values) ==
  shown' = [k \in Key |-> IF Settable(k, values[k]) THEN values[k] ELSE shown[k]]

(* Mutant: any finished probe is applied.                                  *)
ApplyAny(p) ==
  /\ stage = "following"
  /\ Complete(p)
  /\ probes' = probes \ {p}
  /\ Set(p.got)
  /\ Running /\ UNCHANGED <<generation, doubt>>

(* _apply_theme_settings_if_current, idle callbacks of the main loop.      *)
Apply(p) ==
  /\ stage = "following"
  /\ Complete(p)
  /\ probes' = probes \ {p}
  /\ IF Newest(p) THEN Set(p.got) ELSE UNCHANGED shown
  /\ Running /\ UNCHANGED <<generation, doubt>>

-----------------------------------------------------------------------------
(* setup_theme.                                                            *)

(* apply_user_theme.                                                       *)
FirstApply(p) ==
  /\ stage = "probing"
  /\ Complete(p)
  /\ Set(p.got)
  /\ probes' = probes \ {p}
  /\ stage' = "watch"
  /\ UNCHANGED <<session, desktop, feed, scheduling, generation, doubt, changes>>

SetupFails ==
  /\ stage = "probing"
  /\ stage' = "untracked"
  /\ probes' = {}
  /\ UNCHANGED <<session, desktop, shown, feed, scheduling, generation, doubt, changes>>

(* ThemeWatcher.start; the tool may be missing.                            *)
StartWatcher ==
  /\ stage = "watch"
  /\ stage' = "following"
  /\ monitor' \in IF HasMonitor THEN {"starting", "none"} ELSE {"none"}
  /\ UNCHANGED <<session, desktop, shown, lines, notes, scheduling, probing, changes>>

(* _setup_theme_as_user subscribes first and reads then.  The icons are    *)
(* left to GTK.                                                            *)
OwnValues == [k \in Key |-> IF k = "icon" THEN Nothing ELSE desktop[k]]

FollowOwn ==
  /\ stage = "probing" /\ session = "own"
  /\ stage' = "following"
  /\ monitor' = "on"
  /\ Set(OwnValues)
  /\ doubt' = Key \intersect {"icon"}
  /\ UNCHANGED <<session, desktop, lines, notes, scheduling, generation, probes, changes>>

(* _apply_theme_from_settings, the handler of "changed".                   *)
SettingsChanged ==
  /\ session = "own" /\ stage = "following"
  /\ lines > 0
  /\ lines' = lines - 1
  /\ Set(OwnValues)
  /\ UNCHANGED <<session, stage, desktop, monitor, notes, scheduling, probing, changes>>

(* ThemeWatcher.stop at exit.                                              *)
Stop ==
  /\ stage \in {"following", "untracked"}
  /\ stage' = "closed"
  /\ monitor' = IF monitor = "none" THEN "none" ELSE "gone"
  /\ notes' = 0
  /\ UNCHANGED <<session, desktop, shown, lines, scheduling, probing, changes>>

-----------------------------------------------------------------------------
(* ThemeWatcher._schedule, on the reading thread and, for the files, on    *)
(* the main loop, and the timer it sets.                                   *)

Scheduling == stage = "following" /\ session # "own"

ReadLine ==
  /\ Scheduling
  /\ lines > 0 /\ reader = "idle"
  /\ lines' = lines - 1
  /\ reader' = "check"
  /\ UNCHANGED <<session, stage, desktop, shown, monitor, notes, pending, timers, probing, changes>>

CheckPending ==
  /\ Scheduling
  /\ reader = "check"
  /\ reader' = IF pending THEN "idle" ELSE "set"
  /\ UNCHANGED <<session, stage, desktop, shown, feed, pending, timers, probing, changes>>

SetPending ==
  /\ Scheduling
  /\ reader = "set"
  /\ reader' = "add"
  /\ pending' = TRUE
  /\ UNCHANGED <<session, stage, desktop, shown, feed, timers, probing, changes>>

AddTimer ==
  /\ Scheduling
  /\ reader = "add"
  /\ reader' = "idle"
  /\ timers' = timers + 1
  /\ UNCHANGED <<session, stage, desktop, shown, feed, pending, probing, changes>>

FileChanged ==
  /\ Scheduling
  /\ notes > 0
  /\ notes' = notes - 1
  /\ \/ pending /\ UNCHANGED <<pending, timers>>
     \/ ~pending /\ pending' = TRUE /\ timers' = timers + 1
  /\ UNCHANGED <<session, stage, desktop, shown, monitor, lines, reader, probing, changes>>

(* Mutant: the refresh ends the debounce, not the timer.                   *)
FireStillPending ==
  /\ Scheduling
  /\ timers > 0
  /\ timers' = timers - 1
  /\ generation' = generation + 1
  /\ probes' = probes \union {NewProbe(generation + 1)}
  /\ UNCHANGED <<session, stage, desktop, shown, feed, reader, pending, doubt, changes>>

(* fire, and refresh_user_theme_async.                                     *)
Fire ==
  /\ Scheduling
  /\ timers > 0
  /\ timers' = timers - 1
  /\ pending' = FALSE
  /\ generation' = generation + 1
  /\ probes' = probes \union {NewProbe(generation + 1)}
  /\ UNCHANGED <<session, stage, desktop, shown, feed, reader, doubt, changes>>

-----------------------------------------------------------------------------
Init ==
  /\ session \in Sessions
  /\ stage = "probing"
  /\ desktop \in [Key -> UNION {Domain[k] : k \in Key}]
  /\ \A k \in Key : desktop[k] \in Domain[k]
  /\ shown = [k \in Key |-> Nothing]
  /\ monitor = "none" /\ lines = 0 /\ notes = 0
  /\ reader = "idle" /\ pending = FALSE /\ timers = 0
  /\ generation = 0
  /\ probes = IF session = "own" THEN {} ELSE {NewProbe(0)}
  /\ doubt = {}
  /\ changes = 0

Probe == \E p \in probes : ReadSetting(p) \/ ReadFails(p) \/ ProbeRaises(p) \/ Apply(p) \/ FirstApply(p)

Watch == ReadLine \/ CheckPending \/ SetPending \/ AddTimer \/ FileChanged \/ Fire

App == Probe \/ Watch \/ StartWatcher \/ FollowOwn \/ SettingsChanged

Environment ==
  (\E k \in Key : Change(k)) \/ OtherWrite \/ MonitorSubscribes \/ MonitorEnds

Next == App \/ Environment \/ SetupFails \/ Stop

Spec == Init /\ [][Next]_vars

(* Threads run, timers fire, and every tool of a probe has a timeout.      *)
FairSpec == Spec /\ WF_vars(App)
-----------------------------------------------------------------------------
Values == {Nothing} \union UNION {Domain[k] : k \in Key}

ProbeType == [gen : Nat, got : [Key -> Values \union {Unread}]]

TypeOK ==
  /\ session \in Sessions
  /\ stage \in {"probing", "watch", "following", "untracked", "closed"}
  /\ desktop \in [Key -> Values] /\ shown \in [Key -> Values]
  /\ \A k \in Key : desktop[k] \in Domain[k]
  /\ monitor \in {"none", "starting", "on", "gone"}
  /\ lines \in Nat /\ notes \in Nat /\ timers \in Nat /\ generation \in Nat
  /\ reader \in {"idle", "check", "set", "add"} /\ pending \in BOOLEAN
  /\ \A p \in probes : p \in ProbeType
  /\ doubt \subseteq Key /\ changes \in 0 .. MaxChanges

(* Something between a change and the probe that will see it.              *)
UnderWay == lines > 0 \/ notes > 0 \/ reader # "idle" \/ timers > 0

(* When the app shows something else than the user has set, and could show *)
(* it, then a refresh is on its way or the newest probe will put it right; *)
(* unless nobody told the app, or a tool of the newest probe failed.       *)
StaleHasCause ==
  stage = "following" =>
    \A k \in Key \ doubt :
       Settable(k, desktop[k]) /\ shown[k] # desktop[k] =>
         \/ UnderWay
         \/ \E p \in probes : Newest(p) /\ p.got[k] \in {Unread, desktop[k]}

ThemeInv == TypeOK /\ StaleHasCause

(* A switch of the desktop's look is applied live: when the user has done, *)
(* the app comes to show what was announced to it, and stays so.           *)
FollowsDesktop ==
  <>[](stage = "following" =>
         \A k \in Key \ doubt : Settable(k, desktop[k]) => shown[k] = desktop[k])

-----------------------------------------------------------------------------
(* The inductive invariant behind ThemeFollowProofs.                       *)

(* _pending is never left set without a timer that will end it.            *)
InvTimer == pending => timers > 0 \/ reader = "add"

(* Each generation has one probe; the app's own session has none.          *)
InvProbes ==
  /\ \A p \in probes : p.gen <= generation
  /\ \A p, q \in probes : p.gen = q.gen => p = q
  /\ stage = "probing" => generation = 0
  /\ session = "own" => probes = {} /\ stage # "watch"
  /\ session = "own" /\ stage = "following" => Key \intersect {"icon"} \subseteq doubt

(* What the newest probe has read still stands; without one, the app shows *)
(* what the user has set; or another probe is to come.                     *)
Settles(k) ==
  \/ UnderWay
  \/ \E p \in probes : Newest(p) /\ p.got[k] \in {Unread, desktop[k]}
  \/ /\ \A p \in probes : ~Newest(p)
     /\ Settable(k, desktop[k]) => shown[k] = desktop[k]

Tracked ==
  \/ stage = "probing" /\ session # "own"
  \/ stage \in {"watch", "following"}

InvShown == Tracked => \A k \in Key \ doubt : Settles(k)

FollowInv == InvTimer /\ InvProbes /\ InvShown
=============================================================================
