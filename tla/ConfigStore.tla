---------------------------- MODULE ConfigStore ----------------------------
(***************************************************************************)
(* /etc/ubuntu-hello/config.ini and everything that writes it: the section-*)
(* aware editor config_edit (Settings pages, wizard, disable), the bare-key*)
(* editor of "ubuntu-hello set", the whole-file copies of the camera page  *)
(* and of the upgrade, and config_ensure, which every command and every    *)
(* login runs to restore a configuration that is missing.                  *)
(*                                                                         *)
(* A writer is one task of one process: a page's toggle, a command, an     *)
(* upgrade.  Writers take no lock.  The editor replaces the file by a new  *)
(* one; the others empty the file and fill it again.                       *)
(***************************************************************************)
EXTENDS Naturals, Sequences

CONSTANTS
  Writers,
  Chosen   \* the tasks they may be given

VARIABLES
  file,   \* the configuration, as a parser reads it
  kept,   \* the options of the last file that was written whole
  at,     \* where a writer is
  task,   \* what it is for
  todo,   \* the edits it has still to make
  buf,    \* the options it has read, or is about to write
  fd,     \* what became of the file it has open for writing
  alone,  \* no other writer was at work while it was
  hurt,   \* one of its edits failed
  missed  \* history: options whose kept value it did not see when it read

configVars == <<file, kept, at, task, todo, buf, fd, alone, hurt, missed>>

Levels == {"fast", "secure"}
Absent == "absent"

(* Certainty and confirmations are named after the level they belong to.   *)
Values(o) ==
  CASE o \in {"certainty", "confirmations"} -> Levels
    [] o = "stamp_rules"                    -> {"open", "closed"}
    [] o \in {"stamps", "cards", "disabled"} -> {"true", "false"}
    [] o = "device_path"                    -> {"old", "new"}
    [] o = "ignore_services"                -> {"with polkit-1", "without"}

Options ==
  {"certainty", "confirmations", "stamp_rules", "stamps", "cards", "disabled", "device_path",
   "ignore_services"}

Content == [Options -> (UNION {Values(o) : o \in Options}) \union {Absent}]

Nothing == [o \in Options |-> Absent]

(* The template of this version, and a configuration from before the key   *)
(* confirmations: with the rule that lets a login through on a timeout and *)
(* with polkit-1 among the ignored services.                               *)
Template ==
  [o \in Options |-> CASE o \in {"certainty", "confirmations"} -> "secure"
                       [] o = "stamp_rules" -> "closed"
                       [] o \in {"stamps", "disabled"} -> "false"
                       [] o = "cards" -> "true"
                       [] o = "device_path" -> "old"
                       [] o = "ignore_services" -> "without"]

Older == [Template EXCEPT !["certainty"] = "fast", !["confirmations"] = Absent,
                          !["stamp_rules"] = "open",
                          !["ignore_services"] = "with polkit-1"]

Missing == [state |-> "missing", opt |-> Nothing]
Garbled == [state |-> "garbled", opt |-> Nothing]
Fine(c) == [state |-> "fine", opt |-> c]

-----------------------------------------------------------------------------
(* Tasks.                                                                  *)

E(o, v) == [opt |-> o, val |-> v]

Work(style, edits, halts) == [style |-> style, edits |-> edits, halts |-> halts]

LevelEdits(l) == <<E("certainty", l), E("confirmations", l)>>

(* Mutant: the switch is written before the rule it turns on. *)
NodEditsSwitchFirst(on) ==
  IF on THEN <<E("stamps", "true"), E("stamp_rules", "closed")>> ELSE <<E("stamps", "false")>>

(* The rule goes with the switch: the older one does not fail closed.      *)
NodEdits(on) ==
  IF on THEN <<E("stamp_rules", "closed"), E("stamps", "true")>> ELSE <<E("stamps", "false")>>

(* The Security page; it goes on after an edit that failed.                *)
SecurityPage ==
  {Work("edit", LevelEdits(l), FALSE) : l \in Levels}
    \union {Work("edit", NodEdits(on), FALSE) : on \in BOOLEAN}

(* save_security_settings of the wizard; it stops at the first failure.    *)
FinishPage ==
  {Work("edit", LevelEdits(l) \o NodEdits(on), TRUE) : l \in Levels, on \in BOOLEAN}

(* The Notifications page and ubuntu-hello disable: one option each.       *)
SingleEdits ==
  {Work("edit", <<E(o, v)>>, TRUE) : o \in {"cards", "disabled"}, v \in {"true", "false"}}

(* ubuntu-hello set <key> <value>; stamps and cards are both "enabled".    *)
SetCommands ==
  {Work("set", <<E(o, v)>>, TRUE) : o \in {"certainty"}, v \in Levels}
    \union {Work("set", <<E("cards", v)>>, TRUE) : v \in {"true", "false"}}

(* on_camera_change. *)
CameraPage == {Work("copy", <<E("device_path", "new")>>, TRUE)}

(* install_or_migrate_config: what it edits depends on what it finds, and  *)
(* an edit that fails is a warning.                                        *)
Upgrade == Work("upgrade", <<>>, FALSE)
DropPolkit == E("ignore_services", "without")

Restore == Work("restore", <<>>, TRUE)

Tasks ==
  SecurityPage \union FinishPage \union SingleEdits
    \union SetCommands \union CameraPage \union {Upgrade, Restore}

ASSUME ChosenAssumption == Chosen \subseteq Tasks

-----------------------------------------------------------------------------
Active == {w \in Writers : at[w] \notin {"idle", "done", "stopped"}}

Go(w, from, to) ==
  /\ at[w] = from
  /\ at' = [at EXCEPT ![w] = to]

FirstStep(style) == CASE style = "restore" -> "check"
                      [] style = "upgrade" -> "look"
                      [] OTHER -> "read"

Begin(w) ==
  \E t \in Chosen :
     /\ \A i \in 1..Len(t.edits) : t.edits[i].opt = "disabled" => t.edits[i].val # file.opt["disabled"]
     /\ Go(w, "idle", FirstStep(t.style))
     /\ task' = [task EXCEPT ![w] = t]
     /\ todo' = [todo EXCEPT ![w] = t.edits]
     /\ alone' = [v \in Writers |-> IF v = w THEN Active = {} ELSE alone[v] /\ v \notin Active]
     /\ UNCHANGED <<file, kept, buf, fd, hurt, missed>>

(* Where a writer goes after an edit.                                      *)
AfterEdit(w) == IF Len(todo[w]) > 1 THEN "read" ELSE "done"

(* Another writer has the same file open, or the file it has open is no    *)
(* longer the configuration.                                               *)
Others(w, how) ==
  [v \in Writers |-> IF v # w /\ at[v] = "put" /\ fd[v] # "gone" THEN how ELSE fd[v]]

(* What a writer that reads the file cannot see: an emptied or unreadable  *)
(* file hides what it held.                                                *)
Look(w) ==
  missed' = [v \in Writers |-> IF v = w THEN {o \in Options : file.opt[o] # kept[o]} ELSE missed[v]]

(* What a writer that writes makes the others miss, if they have read.     *)
Overtake(w) ==
  missed' = [v \in Writers |->
               IF v # w /\ at[v] \in {"swap", "open", "put", "create", "swapin"}
               THEN missed[v] \union {o \in Options : kept'[o] # kept[o]} ELSE {}]

(* Mutant: the editor writes over the file itself. *)
EditFailsInPlace(w) ==
  /\ at[w] \in {"read", "swap"}
  /\ task[w].style = "set" => file.state = "missing"
  /\ hurt' = [hurt EXCEPT ![w] = TRUE]
  /\ at' = [at EXCEPT ![w] = IF task[w].halts THEN "stopped" ELSE AfterEdit(w)]
  /\ todo' = [todo EXCEPT ![w] = Tail(@)]
  /\ buf' = [buf EXCEPT ![w] = Nothing]
  /\ file' = IF at[w] = "swap" THEN Fine(Nothing) ELSE file
  /\ UNCHANGED <<kept, task, fd, alone, missed>>

(* The edit cannot be made: no file to read, no room to write.             *)
EditFails(w) ==
  /\ at[w] \in {"read", "swap"}
  /\ task[w].style = "set" => file.state = "missing"
  /\ hurt' = [hurt EXCEPT ![w] = TRUE]
  /\ at' = [at EXCEPT ![w] = IF task[w].halts THEN "stopped" ELSE AfterEdit(w)]
  /\ todo' = [todo EXCEPT ![w] = Tail(@)]
  /\ buf' = [buf EXCEPT ![w] = Nothing]
  /\ UNCHANGED <<file, kept, task, fd, alone, missed>>

-----------------------------------------------------------------------------
(* config_edit.set_option: read, edit, write beside, rename over.  Lines   *)
(* that no parser accepts stay what they are.                              *)

ReadLines(w) ==
  /\ task[w].style \in {"edit", "upgrade"}
  /\ file.state # "missing"
  /\ Go(w, "read", "swap")
  /\ Head(todo[w]) # DropPolkit
  /\ Look(w)
  /\ buf' = [buf EXCEPT ![w] = IF file.state = "garbled" THEN Nothing
                               ELSE [file.opt EXCEPT ![Head(todo[w]).opt] = Head(todo[w]).val]]
  /\ UNCHANGED <<file, kept, task, todo, fd, alone, hurt>>

Replace(w) ==
  /\ task[w].style \in {"edit", "upgrade"}
  /\ Go(w, "swap", AfterEdit(w))
  /\ file' = IF buf[w] = Nothing THEN Garbled ELSE Fine(buf[w])
  /\ kept' = IF buf[w] = Nothing THEN kept ELSE buf[w]
  /\ fd' = Others(w, "gone")
  /\ Overtake(w)
  /\ todo' = [todo EXCEPT ![w] = Tail(@)]
  /\ buf' = [buf EXCEPT ![w] = Nothing]
  /\ UNCHANGED <<task, alone, hurt>>

-----------------------------------------------------------------------------
(* cli/set.py: find the line, then rewrite the file in place.              *)

(* The last line that starts with the key: cards come after stamps.        *)
Namesakes(o) == IF o = "cards" THEN {"stamps", "cards"} ELSE {o}

Found(o, c) == IF o = "cards" /\ c["cards"] = Absent THEN c["stamps"] ELSE c[o]

FindLine(w) ==
  LET o == Head(todo[w]).opt
  IN /\ task[w].style = "set"
     /\ file.state # "missing"
     /\ Go(w, "read", IF Found(o, file.opt) = Absent THEN "stopped" ELSE "open")
     /\ Look(w)
     /\ buf' = [buf EXCEPT ![w] = file.opt]
     /\ UNCHANGED <<file, kept, task, todo, fd, alone, hurt>>

(* fileinput moves the file aside and starts a new one.  Every line equal  *)
(* to the one found changes, whatever its section.                         *)
OpenInPlace(w) ==
  LET e == Head(todo[w])
      old == Found(e.opt, buf[w])
  IN /\ task[w].style = "set"
     /\ file.state # "missing"
     /\ Go(w, "open", "put")
     /\ Look(w)
     /\ buf' = [buf EXCEPT ![w] =
                  [o \in Options |-> IF o \in Namesakes(e.opt) /\ file.opt[o] = old
                                     THEN e.val ELSE file.opt[o]]]
     /\ file' = Fine(Nothing)
     /\ fd' = [Others(w, "gone") EXCEPT ![w] = "own"]
     /\ UNCHANGED <<kept, task, todo, alone, hurt>>

-----------------------------------------------------------------------------
(* configparser copies: load, and much later write everything back.        *)

(* The page keeps what it had when the file cannot be read: nothing yet.   *)
LoadCopy(w) ==
  /\ task[w].style = "copy"
  /\ Go(w, "read", "open")
  /\ Look(w)
  /\ buf' = [buf EXCEPT ![w] = file.opt]
  /\ UNCHANGED <<file, kept, task, todo, fd, alone, hurt>>

(* _drop_polkit_1_from_ignore_services: it is done unless polkit-1 is there.*)
LoadIgnored(w) ==
  /\ task[w].style = "upgrade"
  /\ Go(w, "read", IF file.opt["ignore_services"] = "with polkit-1" THEN "open" ELSE "done")
  /\ Head(todo[w]) = DropPolkit
  /\ Look(w)
  /\ buf' = [buf EXCEPT ![w] = file.opt]
  /\ UNCHANGED <<file, kept, task, todo, fd, alone, hurt>>

OpenCopy(w) ==
  LET e == Head(todo[w])
  IN /\ task[w].style \in {"copy", "upgrade"}
     /\ Go(w, "open", "put")
     /\ buf' = [buf EXCEPT ![w][e.opt] = e.val]
     /\ file' = Fine(Nothing)
     /\ fd' = [Others(w, "shared") EXCEPT ![w] =
                 IF \E v \in Writers \ {w} : at[v] = "put" /\ fd[v] # "gone" THEN "shared" ELSE "own"]
     /\ UNCHANGED <<kept, task, todo, alone, hurt, missed>>

(* The new content is there when the file is closed.                       *)
Put(w) ==
  /\ Go(w, "put", "done")
  /\ IF fd[w] = "gone"
     THEN UNCHANGED <<file, kept, fd>>
     ELSE /\ fd' = Others(w, "shared")
          /\ kept' = buf[w]
          /\ \/ file' = Fine(buf[w])
             \/ fd[w] = "shared" /\ file' = Garbled
  /\ Overtake(w)
  /\ todo' = [todo EXCEPT ![w] = <<>>]
  /\ buf' = [buf EXCEPT ![w] = Nothing]
  /\ UNCHANGED <<task, alone, hurt>>

-----------------------------------------------------------------------------
(* config_ensure.                                                          *)

(* Missing, or parsed and without a section; a garbled file is preserved.  *)
NeedsRestore == file.state # "garbled" /\ file.opt = Nothing

(* A configuration without a certainty is read as 3.5.                     *)
Certainty == IF file.opt["certainty"] = Absent THEN "fast" ELSE file.opt["certainty"]

(* add_missing_confirmations, the count that goes with the certainty; then *)
(* polkit-1 is dropped.                                                    *)
LookForConfirmations(w) ==
  LET missing == file.state = "fine" /\ file.opt["confirmations"] = Absent
  IN /\ task[w].style = "upgrade"
     /\ Go(w, "look", "read")
     /\ todo' = [todo EXCEPT ![w] =
                   IF missing THEN <<E("confirmations", Certainty), DropPolkit>> ELSE <<DropPolkit>>]
     /\ UNCHANGED <<file, kept, task, buf, fd, alone, hurt, missed>>

(* Mutant: what exists is never looked at again before it is replaced. *)
RestoreUnseen(w) ==
  /\ Go(w, "check", IF NeedsRestore THEN "create" ELSE "swapin")
  /\ Look(w)
  /\ UNCHANGED <<file, kept, task, todo, buf, fd, alone, hurt>>

CheckRestore(w) ==
  /\ Go(w, "check", IF NeedsRestore THEN "create" ELSE "done")
  /\ Look(w)
  /\ UNCHANGED <<file, kept, task, todo, buf, fd, alone, hurt>>

(* O_EXCL makes the file, empty; or it is there and is looked at again.    *)
CreateOrRecheck(w) ==
  /\ Go(w, "create", CASE file.state = "missing" -> "put"
                       [] file.state # "missing" /\ NeedsRestore -> "swapin"
                       [] OTHER -> "done")
  /\ Look(w)
  /\ IF file.state = "missing"
     THEN /\ file' = Fine(Nothing)
          /\ buf' = [buf EXCEPT ![w] = Template]
          /\ fd' = [fd EXCEPT ![w] = "own"]
     ELSE UNCHANGED <<file, buf, fd>>
  /\ UNCHANGED <<kept, task, todo, alone, hurt>>

SwapTemplateIn(w) ==
  /\ Go(w, "swapin", "done")
  /\ file' = Fine(Template)
  /\ kept' = Template
  /\ fd' = Others(w, "gone")
  /\ Overtake(w)
  /\ UNCHANGED <<task, todo, buf, alone, hurt>>

(* A writer is killed; what it has not written is lost.                    *)
Stop(w) ==
  /\ w \in Active
  /\ at' = [at EXCEPT ![w] = "stopped"]
  /\ buf' = [buf EXCEPT ![w] = Nothing]
  /\ todo' = [todo EXCEPT ![w] = <<>>]
  /\ UNCHANGED <<file, kept, task, fd, alone, hurt, missed>>

-----------------------------------------------------------------------------
ConfigInit ==
  /\ file \in {Missing, Fine(Template), Fine(Older)}
  /\ kept = file.opt
  /\ at = [w \in Writers |-> "idle"]
  /\ task = [w \in Writers |-> Restore]
  /\ todo = [w \in Writers |-> <<>>]
  /\ buf = [w \in Writers |-> Nothing]
  /\ fd = [w \in Writers |-> "none"]
  /\ alone = [w \in Writers |-> TRUE]
  /\ hurt = [w \in Writers |-> FALSE]
  /\ missed = [w \in Writers |-> {}]

EditStep(w) == ReadLines(w) \/ Replace(w) \/ EditFails(w)

InPlaceStep(w) ==
  FindLine(w) \/ OpenInPlace(w) \/ LoadCopy(w) \/ LoadIgnored(w) \/ OpenCopy(w) \/ Put(w)

EnsureStep(w) ==
  LookForConfirmations(w) \/ CheckRestore(w) \/ CreateOrRecheck(w) \/ SwapTemplateIn(w)

ConfigNext == \E w \in Writers : Begin(w) \/ EditStep(w) \/ InPlaceStep(w) \/ EnsureStep(w) \/ Stop(w)

ConfigSpec == ConfigInit /\ [][ConfigNext]_configVars

-----------------------------------------------------------------------------
ConfigTypeOK ==
  /\ file \in [state : {"missing", "fine", "garbled"}, opt : Content]
  /\ kept \in Content
  /\ at \in [Writers -> {"idle", "check", "look", "read", "swap", "open", "put",
                         "create", "swapin", "done", "stopped"}]
  /\ task \in [Writers -> Tasks]
  /\ todo \in [Writers -> Seq([opt : Options, val : UNION {Values(o) : o \in Options}])]
  /\ buf \in [Writers -> Content]
  /\ fd \in [Writers -> {"none", "own", "shared", "gone"}]
  /\ alone \in [Writers -> BOOLEAN]
  /\ hurt \in [Writers -> BOOLEAN]

(* A writer that works in place was stopped, or was not alone.             *)
InPlaceDamage ==
  \E w \in Writers : task[w].style # "edit" /\ (at[w] = "stopped" \/ ~alone[w])

(* Another writer's change is undone only by a writer that could not know  *)
(* of it: it was made after this writer had read the file, or the file was *)
(* empty or unreadable when it did.  Every other option stays as it is, but*)
(* for the one the edit at hand asks for, and for the options that nobody  *)
(* has when the template is restored.                                      *)
ChangedByIntentOrStale ==
  [][\A o \in Options : kept'[o] # kept[o] =>
       \E w \in Active :
         /\ at'[w] # at[w]
         /\ \/ todo[w] # <<>> /\ Head(todo[w]) = E(o, kept'[o])
            \/ task[w].style = "set" /\ Head(todo[w]).val = kept'[o]
                 /\ o \in Namesakes(Head(todo[w]).opt)
            \/ task[w] = Restore /\ kept[o] = Absent
            \/ o \in missed[w]]_configVars

Undisturbed == \A w \in Writers : at[w] = "idle" \/ (alone[w] /\ ~hurt[w] /\ at[w] # "stopped"
                                                     /\ task[w].style # "set")

(* Pages, wizard, upgrade and restore, one after the other and none of them*)
(* failing, in any order: at no moment is the nod asked for under the rule *)
(* that lets a timeout through, and at rest the confirmations are those of *)
(* the certainty.                                                          *)
LevelsAndNodAgree ==
  Undisturbed =>
    /\ file.opt["stamps"] = "true" => file.opt["stamp_rules"] = "closed"
    /\ Active = {} => file.opt["confirmations"] \in {Absent, Certainty}

(* The configuration is left empty or garbled only by a writer that works  *)
(* in place and was stopped, or was not alone: never by the editor, and by *)
(* nobody who ran alone to the end.                                        *)
EmptyHasCause ==
  (file.opt = Nothing /\ file.state # "missing") =>
    InPlaceDamage \/ \E w \in Writers : at[w] = "put"

HistoryOK == missed \in [Writers -> SUBSET Options]

(* The file has its shape, and an empty one has a cause.                   *)
WriterInv == ConfigTypeOK /\ HistoryOK /\ EmptyHasCause
=============================================================================
