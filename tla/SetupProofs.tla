---------------------------- MODULE SetupProofs ----------------------------
(***************************************************************************)
(* Theorems about how a machine is set up: ConfigStore, for any set of     *)
(* writers and any choice of their tasks, and Wizard, for any Adds, Scans  *)
(* and installs and any bound on the models and on going back.             *)
(*                                                                         *)
(* ConfigStore.  BaseInv says what a writer may be doing and that two that *)
(* are at work know of each other; BlankHasCause that nobody is about to   *)
(* write an empty file; KnownInv that a writer is about to write what it   *)
(* was asked for and, of the options it has not missed, what is kept;      *)
(* LevelsInv that what is left of an edit fits what has been written of it.*)
(*                                                                         *)
(* Wizard.  The bounds and the two pages' guards (PagesIInv) hold until a  *)
(* late callback comes; every error on a page has what it says for a cause.*)
(***************************************************************************)
EXTENDS ConfigStore, Wizard, FiniteSetTheorems, SequenceTheorems, TLAPS

USE DEF configVars

-----------------------------------------------------------------------------
Edit == [opt : Options, val : UNION {Values(o) : o \in Options}]

(* What a writer may be doing, by what it is for.                          *)
StageOK(w) ==
  /\ at[w] = "idle" => task[w] = Restore /\ alone[w]
  /\ at[w] \in {"check", "create", "swapin"} => task[w] = Restore
  /\ at[w] = "look" => task[w] = Upgrade
  /\ at[w] = "swap" => task[w].style \in {"edit", "upgrade"}
  /\ at[w] \in {"read", "open", "swap"} => task[w] # Restore /\ todo[w] # <<>>
  /\ at[w] = "put" /\ task[w].style # "restore" => todo[w] # <<>>
  /\ at[w] = "open" => task[w].style \in {"set", "copy", "upgrade"}
  /\ at[w] = "put" => task[w].style \in {"set", "copy", "upgrade", "restore"}
  /\ task[w].style \in {"set", "copy"} /\ at[w] \in {"read", "open", "put"} => todo[w] = task[w].edits
  /\ at[w] = "open" /\ task[w].style = "set" => Found(Head(todo[w]).opt, buf[w]) # Absent

Overlap ==
  /\ \A v, w \in Active : v # w => ~alone[v]
  /\ \A w \in Writers : fd[w] \in {"shared", "gone"} => ~alone[w]

FileOK == file.state # "fine" => file.opt = Nothing

BlankHasCause ==
  /\ EmptyHasCause
  /\ \A w \in Writers : at[w] \in {"swap", "put"} /\ buf[w] = Nothing => InPlaceDamage

BaseInv == ConfigTypeOK /\ (\A w \in Writers : StageOK(w)) /\ Overlap /\ FileOK

Inv == BaseInv /\ BlankHasCause

-----------------------------------------------------------------------------
Edited(c, e) == [c EXCEPT ![e.opt] = e.val]

(* What a writer is about to write of the options it has not missed.       *)
Known(w) ==
  LET e == Head(todo[w])
      seen == Options \ missed[w]
  IN /\ at[w] = "swap" /\ buf[w] # Nothing => \A o \in seen : buf[w][o] = Edited(kept, e)[o]
     /\ at[w] = "open" /\ task[w].style # "set" => \A o \in seen : buf[w][o] = kept[o]
     /\ at[w] = "put" /\ task[w].style \in {"copy", "upgrade"} =>
          \A o \in seen : buf[w][o] = Edited(kept, e)[o]
     /\ at[w] = "put" /\ task[w].style = "set" =>
          \A o \in seen : buf[w][o] # kept[o] => o \in Namesakes(e.opt) /\ buf[w][o] = e.val
     /\ at[w] = "swapin" \/ (at[w] = "put" /\ task[w] = Restore) =>
          \A o \in seen : kept[o] = Absent

KnownInv == HistoryOK /\ \A w \in Writers : Known(w)

-----------------------------------------------------------------------------
Nod(c) == c["stamps"] = "true" => c["stamp_rules"] = "closed"
CertaintyOf(c) == IF c["certainty"] = Absent THEN "fast" ELSE c["certainty"]
Agree(c) == c["confirmations"] \in {Absent, CertaintyOf(c)}

WellFormed(td) ==
  /\ td \in Seq(Edit)
  /\ \A i \in 1..Len(td) :
       /\ td[i].opt = "stamp_rules" => td[i].val = "closed"
       /\ td[i].opt = "stamps" /\ td[i].val = "true" => i = 1 \/ td[i - 1] = E("stamp_rules", "closed")
       /\ td[i].opt = "confirmations" => i = 1 \/ td[i - 1] = E("certainty", td[i].val)
       /\ td[i].opt = "certainty" => i < Len(td) /\ td[i + 1] = E("confirmations", td[i].val)

Ready(c, td) ==
  /\ WellFormed(td)
  /\ td # <<>>
  /\ Nod(c)
  /\ Head(td).opt = "confirmations" => CertaintyOf(c) = Head(td).val
  /\ Head(td).opt # "confirmations" => Agree(c)
  /\ Head(td) = E("stamps", "true") => c["stamp_rules"] = "closed"

OnCourse(w) ==
  /\ at[w] \in {"read", "swap"} => Ready(file.opt, todo[w])
  /\ at[w] = "swap" => buf[w] = Edited(file.opt, Head(todo[w]))
  /\ at[w] \in {"look", "check", "create"} => Agree(file.opt)
  /\ at[w] \in {"open", "put"} => Nod(buf[w]) /\ Agree(buf[w])
  /\ at[w] = "open" => Head(todo[w]) \in {E("device_path", "new"), DropPolkit}

LevelsInv ==
  Undisturbed =>
    /\ Nod(file.opt)
    /\ Active = {} => Agree(file.opt)
    /\ \A w \in Active : OnCourse(w)

-----------------------------------------------------------------------------
(* Edits and tasks.                                                        *)
Settings ==
  {"fast", "secure", "open", "closed", "true", "false", "old", "new", "with polkit-1", "without"}

(* The values of all options, none of which stands for an absent one.      *)
LEMMA SettingValues ==
  /\ UNION {Values(o) : o \in Options} = Settings
  /\ Absent \notin Settings
  /\ Content = [Options -> Settings \union {Absent}]
PROOF
<1>1. /\ Values("certainty") = {"fast", "secure"} /\ Values("confirmations") = {"fast", "secure"}
      /\ Values("stamp_rules") = {"open", "closed"} /\ Values("stamps") = {"true", "false"}
      /\ Values("cards") = {"true", "false"} /\ Values("disabled") = {"true", "false"}
      /\ Values("device_path") = {"old", "new"}
      /\ Values("ignore_services") = {"with polkit-1", "without"}
  BY DEF Values, Levels
<1>2. UNION {Values(o) : o \in Options} = Settings
  <2>1. \A o \in Options : Values(o) \subseteq Settings
    BY <1>1 DEF Options, Settings
  <2>2. \A v \in Settings : \E o \in {"certainty", "stamp_rules", "stamps", "device_path", "ignore_services"} :
                              v \in Values(o)
    BY <1>1 DEF Settings
  <2>3. {"certainty", "stamp_rules", "stamps", "device_path", "ignore_services"} \subseteq Options
    BY DEF Options
  <2>. QED
    BY <2>1, <2>2, <2>3
<1>3. Absent \notin Settings
  BY DEF Absent, Settings
<1>4. Content = [Options -> Settings \union {Absent}]
  BY <1>2 DEF Content
<1>. QED
  BY <1>2, <1>3, <1>4

LEMMA EditParts ==
  /\ Edit = [opt : Options, val : Settings]
  /\ \A o \in Options, v \in Settings : E(o, v) \in Edit /\ E(o, v).opt = o /\ E(o, v).val = v
  /\ \A e \in Edit : e = E(e.opt, e.val)
PROOF
<1>1. Edit = [opt : Options, val : Settings]
  BY SettingValues DEF Edit
<1>2. \A o \in Options, v \in Settings : E(o, v) \in Edit /\ E(o, v).opt = o /\ E(o, v).val = v
  BY <1>1 DEF E
<1>3. \A e \in Edit : e = E(e.opt, e.val)
  BY <1>1 DEF E
<1>. QED
  BY <1>1, <1>2, <1>3

(* What the edits of the pages are, one after the other.                   *)
NodOn == <<E("stamp_rules", "closed"), E("stamps", "true")>>
NodOff == <<E("stamps", "false")>>
FinishOn(l) == <<E("certainty", l), E("confirmations", l), E("stamp_rules", "closed"), E("stamps", "true")>>
FinishOff(l) == <<E("certainty", l), E("confirmations", l), E("stamps", "false")>>

Opens(td) ==
  /\ WellFormed(td) /\ td # <<>>
  /\ Head(td).opt # "confirmations" /\ Head(td) # E("stamps", "true")

(* The edits that tasks are made of.                                       *)
LEMMA AllEdits ==
  /\ \A l \in Levels : /\ E("certainty", l) \in Edit /\ E("confirmations", l) \in Edit
                       /\ E("certainty", l).opt = "certainty" /\ E("certainty", l).val = l
                       /\ E("confirmations", l).opt = "confirmations" /\ E("confirmations", l).val = l
  /\ \A v \in {"true", "false"}, o \in {"stamps", "cards", "disabled"} :
       E(o, v) \in Edit /\ E(o, v).opt = o /\ E(o, v).val = v
  /\ E("stamp_rules", "closed") \in Edit
  /\ E("stamp_rules", "closed").opt = "stamp_rules" /\ E("stamp_rules", "closed").val = "closed"
  /\ E("device_path", "new") \in Edit
  /\ E("device_path", "new").opt = "device_path" /\ E("device_path", "new").val = "new"
  /\ DropPolkit \in Edit /\ DropPolkit.opt = "ignore_services" /\ DropPolkit.val = "without"
PROOF
<1>1. Levels \subseteq Settings /\ {"true", "false", "closed", "new", "without"} \subseteq Settings
  BY DEF Settings, Levels
<1>2. {"certainty", "confirmations", "stamps", "cards", "disabled", "stamp_rules", "device_path",
       "ignore_services"} \subseteq Options
  BY DEF Options
<1>. QED
  BY <1>1, <1>2, EditParts DEF DropPolkit

(* What the Settings pages and the wizard's last page ask for starts well: *)
(* the nod only after its rule, the confirmations after the certainty.     *)
LEMMA PageEdits ==
  /\ Opens(NodOn) /\ Opens(NodOff)
  /\ \A l \in Levels : Opens(LevelEdits(l)) /\ Opens(FinishOn(l)) /\ Opens(FinishOff(l))
  /\ \A o \in {"cards", "disabled"}, v \in {"true", "false"} : Opens(<<E(o, v)>>)
PROOF
<1>1. Opens(NodOn) /\ Opens(NodOff)
  BY AllEdits DEF Opens, WellFormed, NodOn, NodOff
<1>2. ASSUME NEW l \in Levels
      PROVE  Opens(LevelEdits(l))
  BY AllEdits DEF Opens, WellFormed, LevelEdits
<1>3. ASSUME NEW l \in Levels
      PROVE  Opens(FinishOn(l))
  BY AllEdits DEF Opens, WellFormed, FinishOn
<1>4. ASSUME NEW l \in Levels
      PROVE  Opens(FinishOff(l))
  BY AllEdits DEF Opens, WellFormed, FinishOff
<1>5. ASSUME NEW o \in {"cards", "disabled"}, NEW v \in {"true", "false"}
      PROVE  Opens(<<E(o, v)>>)
  BY AllEdits DEF Opens, WellFormed
<1>. QED
  BY <1>1, <1>2, <1>3, <1>4, <1>5

(* What a task may be.                                                     *)
Shape(t) ==
  /\ t.edits \in Seq(Edit) /\ t.halts \in BOOLEAN
  /\ \/ t.style = "edit" /\ Opens(t.edits)
     \/ t.style = "set" /\ Len(t.edits) = 1
     \/ t.style = "copy" /\ t.edits = <<E("device_path", "new")>>
     \/ t.style = "upgrade" /\ t = Upgrade /\ t.edits = <<>>
     \/ t.style = "restore" /\ t = Restore /\ t.edits = <<>>

LEMMA WorkParts ==
  ASSUME NEW s, NEW e, NEW h \in BOOLEAN
  PROVE  /\ Work(s, e, h).style = s /\ Work(s, e, h).edits = e
         /\ Work(s, e, h).halts \in BOOLEAN
BY DEF Work

(* A task of the editor has the shape the invariants rely on.              *)
LEMMA EditWork ==
  ASSUME NEW td, Opens(td), NEW h \in BOOLEAN
  PROVE  Shape(Work("edit", td, h))
PROOF
<1>1. td \in Seq(Edit)
  BY DEF Opens, WellFormed
<1>2. /\ Work("edit", td, h).style = "edit" /\ Work("edit", td, h).edits = td
      /\ Work("edit", td, h).halts \in BOOLEAN
  BY WorkParts
<1>. QED
  BY <1>1, <1>2 DEF Shape

(* So has `ubuntu-hello set`.                                              *)
LEMMA SetWork ==
  ASSUME NEW e \in Edit
  PROVE  Shape(Work("set", <<e>>, TRUE))
PROOF
<1>1. <<e>> \in Seq(Edit) /\ Len(<<e>>) = 1
  OBVIOUS
<1>2. /\ Work("set", <<e>>, TRUE).style = "set" /\ Work("set", <<e>>, TRUE).edits = <<e>>
      /\ Work("set", <<e>>, TRUE).halts \in BOOLEAN
  BY WorkParts
<1>. QED
  BY <1>1, <1>2 DEF Shape

(* The edits of the wizard's last page, written out.                       *)
LEMMA FinishEdits ==
  ASSUME NEW l \in Levels
  PROVE  /\ LevelEdits(l) \o NodEdits(TRUE) = FinishOn(l)
         /\ LevelEdits(l) \o NodEdits(FALSE) = FinishOff(l)
PROOF
<1>1. /\ LevelEdits(l) \in Seq(Edit) /\ Len(LevelEdits(l)) = 2
      /\ LevelEdits(l)[1] = E("certainty", l) /\ LevelEdits(l)[2] = E("confirmations", l)
  BY AllEdits DEF LevelEdits
<1>2. NodEdits(TRUE) = NodOn /\ NodEdits(FALSE) = NodOff
  BY DEF NodEdits, NodOn, NodOff
<1>3. /\ NodOn \in Seq(Edit) /\ Len(NodOn) = 2 /\ NodOn[1] = E("stamp_rules", "closed")
      /\ NodOn[2] = E("stamps", "true")
  BY AllEdits DEF NodOn
<1>4. NodOff \in Seq(Edit) /\ Len(NodOff) = 1 /\ NodOff[1] = E("stamps", "false")
  BY AllEdits DEF NodOff
<1>7. ASSUME NEW n \in {NodOn, NodOff}
      PROVE  /\ LevelEdits(l) \o n \in Seq(Edit) /\ Len(LevelEdits(l) \o n) = Len(LevelEdits(l)) + Len(n)
             /\ \A i \in 1 .. Len(LevelEdits(l)) + Len(n) :
                  (LevelEdits(l) \o n)[i] =
                     IF i <= Len(LevelEdits(l)) THEN LevelEdits(l)[i] ELSE n[i - Len(LevelEdits(l))]
  <2>1. n \in Seq(Edit) /\ LevelEdits(l) \in Seq(Edit)
    BY <1>1, <1>3, <1>4, <1>7
  <2>. QED
    BY <2>1, ConcatProperties, Zenon
<1>5. LevelEdits(l) \o NodOn = FinishOn(l)
  <2>1. FinishOn(l) \in Seq(Edit) /\ Len(FinishOn(l)) = 4
    BY AllEdits DEF FinishOn
  <2>2. LevelEdits(l) \o NodOn \in Seq(Edit) /\ Len(LevelEdits(l) \o NodOn) = 4
    BY <1>1, <1>3, <1>7
  <2>3. \A i \in 1..4 : (LevelEdits(l) \o NodOn)[i] = FinishOn(l)[i]
    BY <1>1, <1>3, <1>7 DEF FinishOn
  <2>. QED
    BY <2>1, <2>2, <2>3, SeqEqual
<1>6. LevelEdits(l) \o NodOff = FinishOff(l)
  <2>0. /\ LevelEdits(l) \o NodOff \in Seq(Edit)
        /\ Len(LevelEdits(l) \o NodOff) = Len(LevelEdits(l)) + Len(NodOff)
        /\ \A i \in 1 .. Len(LevelEdits(l)) + Len(NodOff) :
             (LevelEdits(l) \o NodOff)[i] =
                IF i <= Len(LevelEdits(l)) THEN LevelEdits(l)[i] ELSE NodOff[i - Len(LevelEdits(l))]
    BY <1>7, Zenon
  <2>1. FinishOff(l) \in Seq(Edit) /\ Len(FinishOff(l)) = 3
    BY AllEdits DEF FinishOff
  <2>2. LevelEdits(l) \o NodOff \in Seq(Edit) /\ Len(LevelEdits(l) \o NodOff) = 3
    BY <1>1, <1>4, <2>0
  <2>3. \A i \in 1..3 : (LevelEdits(l) \o NodOff)[i] = FinishOff(l)[i]
    BY <1>1, <1>4, <2>0 DEF FinishOff
  <2>. QED
    BY <2>1, <2>2, <2>3, SeqEqual
<1>. QED
  BY <1>2, <1>5, <1>6

(* Every task has its shape.                                               *)
LEMMA TaskShapes == \A t \in Tasks : Shape(t)
PROOF
<1>1. ASSUME NEW t \in SecurityPage
      PROVE  Shape(t)
  <2>1. \A on \in BOOLEAN : Opens(NodEdits(on))
    BY PageEdits DEF NodEdits, NodOn, NodOff
  <2>2. \A l \in Levels : Opens(LevelEdits(l))
    BY PageEdits
  <2>. QED
    BY <1>1, <2>1, <2>2, EditWork, Zenon DEF SecurityPage
<1>2. ASSUME NEW t \in FinishPage
      PROVE  Shape(t)
  <2>1. \A l \in Levels, on \in BOOLEAN : Opens(LevelEdits(l) \o NodEdits(on))
    BY FinishEdits, PageEdits
  <2>2. PICK l \in Levels, on \in BOOLEAN : t = Work("edit", LevelEdits(l) \o NodEdits(on), TRUE)
    BY <1>2, SMT DEF FinishPage, Work
  <2>. QED
    BY <2>1, <2>2, EditWork
<1>3. ASSUME NEW t \in SingleEdits
      PROVE  Shape(t)
  <2>1. PICK o \in {"cards", "disabled"}, v \in {"true", "false"} :
           t = Work("edit", <<E(o, v)>>, TRUE)
    BY <1>3, SMT DEF SingleEdits, Work
  <2>2. Opens(<<E(o, v)>>)
    BY PageEdits
  <2>. QED
    BY <2>1, <2>2, EditWork
<1>4. ASSUME NEW t \in SetCommands
      PROVE  Shape(t)
  <2>1. /\ \A l \in Levels : E("certainty", l) \in Edit
        /\ \A v \in {"true", "false"} : E("cards", v) \in Edit
    BY AllEdits
  <2>2. \/ \E l \in Levels : t = Work("set", <<E("certainty", l)>>, TRUE)
        \/ \E v \in {"true", "false"} : t = Work("set", <<E("cards", v)>>, TRUE)
    BY <1>4, SMT DEF SetCommands, Work
  <2>. QED
    BY <2>1, <2>2, SetWork, Zenon
<1>5. ASSUME NEW t \in CameraPage
      PROVE  Shape(t)
  <2>1. <<E("device_path", "new")>> \in Seq(Edit)
    BY AllEdits
  <2>2. t = Work("copy", <<E("device_path", "new")>>, TRUE)
    BY <1>5, Zenon DEF CameraPage
  <2>3. /\ t.style = "copy" /\ t.edits = <<E("device_path", "new")>> /\ t.halts \in BOOLEAN
    BY <2>2 DEF Work
  <2>. QED
    BY <2>1, <2>3 DEF Shape
<1>6. Shape(Upgrade) /\ Shape(Restore)
  <2>1. <<>> \in Seq(Edit)
    OBVIOUS
  <2>2. /\ Upgrade.style = "upgrade" /\ Upgrade.edits = <<>> /\ Upgrade.halts \in BOOLEAN
        /\ Restore.style = "restore" /\ Restore.edits = <<>> /\ Restore.halts \in BOOLEAN
    BY DEF Upgrade, Restore, Work
  <2>. QED
    BY <2>1, <2>2 DEF Shape
<1>. QED
  BY <1>1, <1>2, <1>3, <1>4, <1>5, <1>6 DEF Tasks

(* So the styles are different tasks.                                      *)
LEMMA TaskStyles ==
  ASSUME NEW t \in Tasks
  PROVE  /\ Shape(t)
         /\ t.style \in {"edit", "set", "copy"} => t.edits # <<>>
         /\ t.style = "restore" <=> t = Restore
         /\ t.style = "upgrade" <=> t = Upgrade
         /\ t.style \in {"edit", "set", "copy", "upgrade", "restore"}
PROOF
<1>1. Shape(t)
  BY TaskShapes
<1>2. Restore.style = "restore" /\ Upgrade.style = "upgrade"
  BY DEF Restore, Upgrade, Work
<1>3. t.style \in {"edit", "set", "copy"} => t.edits # <<>>
  <2>1. t.style = "edit" => t.edits # <<>>
    BY <1>1, SMT DEF Shape, Opens
  <2>2. t.style = "set" => Len(t.edits) = 1
    BY <1>1 DEF Shape
  <2>3. t.style = "copy" => t.edits = <<E("device_path", "new")>>
    BY <1>1 DEF Shape
  <2>4. Len(<<>>) = 0 /\ <<E("device_path", "new")>> # <<>>
    OBVIOUS
  <2>5. t.style = "set" => Len(t.edits) # Len(<<>>)
    BY <2>2, <2>4
  <2>. QED
    BY <2>1, <2>3, <2>4, <2>5, Zenon
<1>4. /\ t.style \in {"edit", "set", "copy", "upgrade", "restore"}
      /\ t.style = "upgrade" => t = Upgrade
      /\ t.style = "restore" => t = Restore
  BY <1>1, SMT DEF Shape
<1>. QED
  BY <1>1, <1>2, <1>3, <1>4

-----------------------------------------------------------------------------
(* Type correctness.                                                       *)
FileType == [state : {"missing", "fine", "garbled"}, opt : Content]

Stages == {"idle", "check", "look", "read", "swap", "open", "put", "create", "swapin", "done", "stopped"}

TypeFile == file \in FileType /\ kept \in Content /\ buf \in [Writers -> Content]

TypeProgress ==
  /\ at \in [Writers -> Stages] /\ task \in [Writers -> Tasks] /\ todo \in [Writers -> Seq(Edit)]
  /\ fd \in [Writers -> {"none", "own", "shared", "gone"}]

TypeMarks == alone \in [Writers -> BOOLEAN] /\ hurt \in [Writers -> BOOLEAN]

LEMMA ConfigTypeParts ==
  /\ ConfigTypeOK <=> TypeFile /\ TypeProgress /\ TypeMarks
  /\ ConfigTypeOK' <=> TypeFile' /\ TypeProgress' /\ TypeMarks'
BY DEF ConfigTypeOK, TypeFile, TypeProgress, TypeMarks, FileType, Stages, Edit

(* What the three given files say.                                         *)
LEMMA Contents ==
  /\ Nothing \in Content /\ Template \in Content /\ Older \in Content
  /\ Template # Nothing /\ Older # Nothing
  /\ \A o \in Options : Nothing[o] = Absent
  /\ Template["certainty"] = "secure" /\ Template["confirmations"] = "secure"
  /\ Template["stamps"] = "false"
  /\ Older["certainty"] = "fast" /\ Older["confirmations"] = Absent /\ Older["stamps"] = "false"
PROOF
<1>1. Nothing \in Content /\ \A o \in Options : Nothing[o] = Absent
  BY SettingValues DEF Nothing
<1>2. Template \in Content
  BY SettingValues DEF Template, Settings, Options
<1>3. Older \in Content
  BY <1>2, SettingValues DEF Older, Settings
<1>4. /\ Template["certainty"] = "secure" /\ Template["confirmations"] = "secure"
      /\ Template["stamps"] = "false"
  BY DEF Template, Options
<1>5. Older["certainty"] = "fast" /\ Older["confirmations"] = Absent /\ Older["stamps"] = "false"
  BY <1>2, <1>4, SettingValues DEF Older, Options
<1>6. "certainty" \in Options /\ "secure" # Absent /\ "fast" # Absent
  BY DEF Options, Absent
<1>. QED
  BY <1>1, <1>2, <1>3, <1>4, <1>5, <1>6

(* One edit changes one option, and what it leaves is not empty.           *)
LEMMA EditedContent ==
  ASSUME NEW c \in Content, NEW e \in Edit
  PROVE  /\ Edited(c, e) \in Content /\ Edited(c, e)[e.opt] = e.val
         /\ \A o \in Options : o # e.opt => Edited(c, e)[o] = c[o]
         /\ Edited(c, e) # Nothing
PROOF
<1>1. e.opt \in Options /\ e.val \in Settings
  BY EditParts
<1>2. /\ Edited(c, e) \in Content /\ Edited(c, e)[e.opt] = e.val
      /\ \A o \in Options : o # e.opt => Edited(c, e)[o] = c[o]
  BY <1>1, SettingValues DEF Edited
<1>. QED
  BY <1>1, <1>2, SettingValues, Contents

(* The first of the edits and the rest of them.                            *)
LEMMA HeadTail ==
  ASSUME NEW td \in Seq(Edit)
  PROVE  /\ Len(td) \in Nat
         /\ td # <<>> => Head(td) \in Edit /\ Tail(td) \in Seq(Edit) /\ Len(Tail(td)) = Len(td) - 1
                         /\ Len(td) > 0 /\ Head(td) = td[1]
                         /\ \A i \in 1..Len(Tail(td)) : Tail(td)[i] = td[i + 1]
         /\ Len(td) > 1 => td # <<>> /\ Tail(td) # <<>>
         /\ td # <<>> /\ ~(Len(td) > 1) => Len(td) = 1
PROOF
<1>1. Len(td) \in Nat
  OBVIOUS
<1>2. ASSUME td # <<>>
      PROVE  /\ Head(td) \in Edit /\ Tail(td) \in Seq(Edit) /\ Len(Tail(td)) = Len(td) - 1
             /\ Len(td) > 0 /\ Head(td) = td[1]
             /\ \A i \in 1..Len(Tail(td)) : Tail(td)[i] = td[i + 1]
  BY <1>2, HeadTailProperties, EmptySeq
<1>3. Len(<<>>) = 0
  OBVIOUS
<1>4. td # <<>> => Len(Tail(td)) = Len(td) - 1 /\ Len(td) > 0
  BY <1>2, Zenon
<1>5. \A n \in Nat : (n > 1 => n # 0 /\ n - 1 # 0) /\ (n > 0 /\ ~(n > 1) => n = 1)
  OBVIOUS
<1>6. Len(td) > 1 => td # <<>> /\ Tail(td) # <<>>
  <2>1. Len(td) > 1 => Len(td) # 0 /\ Len(td) - 1 # 0
    BY <1>1, <1>5, Zenon
  <2>2. Len(td) # 0 => td # <<>>
    BY <1>3, Zenon
  <2>3. Len(td) - 1 # 0 /\ td # <<>> => Tail(td) # <<>>
    BY <1>3, <1>4, Zenon
  <2>. QED
    BY <2>1, <2>2, <2>3, Zenon
<1>7. td # <<>> /\ ~(Len(td) > 1) => Len(td) = 1
  BY <1>1, <1>4, <1>5, Zenon
<1>. QED
  BY <1>1, <1>2, <1>6, <1>7, Zenon

FdType == {"none", "own", "shared", "gone"}

(* What any step of a writer leaves alone.                                 *)
Apart(w) ==
  /\ \A v \in Writers \ {w} :
       /\ at'[v] = at[v] /\ task'[v] = task[v] /\ todo'[v] = todo[v] /\ buf'[v] = buf[v]
       /\ hurt'[v] = hurt[v]
       /\ fd'[v] \in {fd[v], "shared", "gone"}
       /\ fd'[v] # fd[v] => at[v] = "put"

(* A step of a writer that is at work.                                     *)
Within(w, from, to) == at[w] = from /\ at'[w] = to /\ task' = task /\ alone' = alone /\ Apart(w)

LEMMA Files ==
  ASSUME NEW c \in Content
  PROVE  /\ Fine(c) \in FileType /\ Garbled \in FileType /\ Missing \in FileType
         /\ Fine(c).state = "fine" /\ Fine(c).opt = c
         /\ Garbled.state = "garbled" /\ Garbled.opt = Nothing
         /\ Missing.state = "missing" /\ Missing.opt = Nothing
BY Contents DEF Fine, Garbled, Missing, FileType

(* What a rename, or a second open, does to the files others have open.    *)
LEMMA OtherFds ==
  ASSUME TypeProgress, NEW w \in Writers, NEW how \in {"shared", "gone"}
  PROVE  /\ Others(w, how) \in [Writers -> FdType] /\ Others(w, how)[w] = fd[w]
         /\ \A v \in Writers \ {w} :
              /\ Others(w, how)[v] = IF at[v] = "put" /\ fd[v] # "gone" THEN how ELSE fd[v]
              /\ Others(w, how)[v] \in {fd[v], "shared", "gone"}
              /\ Others(w, how)[v] # fd[v] => at[v] = "put"
BY DEF TypeProgress, Others, FdType

LEMMA AfterEdits ==
  ASSUME NEW w \in Writers
  PROVE  AfterEdit(w) \in {"read", "done"}
BY DEF AfterEdit

LEMMA Went ==
  ASSUME TypeProgress, NEW w \in Writers, NEW from, NEW to \in Stages, Go(w, from, to)
  PROVE  /\ at[w] = from /\ at' \in [Writers -> Stages] /\ at'[w] = to
         /\ \A v \in Writers \ {w} : at'[v] = at[v]
BY DEF TypeProgress, Go

(* What each step does, in the order of the module: the types after it,    *)
(* where the writer goes, what it changes and what it leaves alone.        *)
LEMMA BeginDoes ==
  ASSUME ConfigTypeOK, NEW w \in Writers, Begin(w)
  PROVE  /\ ConfigTypeOK' /\ Apart(w)
         /\ \E t \in Tasks :
              /\ at[w] = "idle" /\ at'[w] = FirstStep(t.style)
              /\ task'[w] = t /\ todo'[w] = t.edits
         /\ alone'[w] <=> Active = {}
         /\ \A v \in Writers \ {w} : alone'[v] <=> alone[v] /\ v \notin Active
         /\ UNCHANGED <<file, kept, buf, fd, hurt>>
PROOF
<1>0. TypeFile /\ TypeProgress /\ TypeMarks
  BY ConfigTypeParts
<1>1. PICK t \in Chosen :
        /\ Go(w, "idle", FirstStep(t.style))
        /\ task' = [task EXCEPT ![w] = t]
        /\ todo' = [todo EXCEPT ![w] = t.edits]
        /\ alone' = [v \in Writers |-> IF v = w THEN Active = {} ELSE alone[v] /\ v \notin Active]
        /\ UNCHANGED <<file, kept, buf, fd, hurt>>
  BY Zenon DEF Begin
<1>2. t \in Tasks /\ t.edits \in Seq(Edit)
  BY TaskShapes, ChosenAssumption DEF Shape
<1>3. FirstStep(t.style) \in Stages
  BY DEF FirstStep, Stages
<1>4. /\ at[w] = "idle" /\ at' \in [Writers -> Stages] /\ at'[w] = FirstStep(t.style)
      /\ \A v \in Writers \ {w} : at'[v] = at[v]
  BY <1>0, <1>1, <1>3, Went
<1>5. /\ TypeProgress' /\ task'[w] = t /\ todo'[w] = t.edits
      /\ \A v \in Writers \ {w} : task'[v] = task[v] /\ todo'[v] = todo[v]
  BY <1>0, <1>1, <1>2, <1>4 DEF TypeProgress
<1>6. TypeFile'
  BY <1>0, <1>1 DEF TypeFile, FileType
<1>7. TypeMarks'
  BY <1>0, <1>1, Zenon DEF TypeMarks
<1>8. /\ alone'[w] <=> Active = {}
      /\ \A v \in Writers \ {w} : alone'[v] <=> alone[v] /\ v \notin Active
  BY <1>1, Zenon
<1>9. Apart(w)
  BY <1>1, <1>4, <1>5 DEF Apart
<1>. QED
  BY <1>1, <1>2, <1>4, <1>5, <1>6, <1>7, <1>8, <1>9, ConfigTypeParts, Zenon

LEMMA ReadLinesDoes ==
  ASSUME ConfigTypeOK, NEW w \in Writers, StageOK(w), ReadLines(w)
  PROVE  /\ ConfigTypeOK' /\ Within(w, "read", "swap")
         /\ buf'[w] = IF file.state = "garbled" THEN Nothing ELSE Edited(file.opt, Head(todo[w]))
         /\ task[w].style \in {"edit", "upgrade"} /\ file.state # "missing"
         /\ UNCHANGED <<file, kept, todo, fd, hurt>>
PROOF
<1>0. TypeFile /\ TypeProgress /\ TypeMarks
  BY ConfigTypeParts
<1>1. /\ at[w] = "read" /\ at' \in [Writers -> Stages] /\ at'[w] = "swap"
      /\ \A v \in Writers \ {w} : at'[v] = at[v]
  BY <1>0, Went DEF ReadLines, Stages
<1>2. Head(todo[w]) \in Edit
  BY <1>0, <1>1, HeadTail DEF StageOK, TypeProgress
<1>3. Edited(file.opt, Head(todo[w])) \in Content /\ Nothing \in Content
  BY <1>0, <1>2, EditedContent, Contents DEF TypeFile, FileType
<1>4. buf' = [buf EXCEPT ![w] = IF file.state = "garbled" THEN Nothing ELSE Edited(file.opt, Head(todo[w]))]
  BY DEF ReadLines, Edited
<1>5. /\ TypeFile'
      /\ buf'[w] = IF file.state = "garbled" THEN Nothing ELSE Edited(file.opt, Head(todo[w]))
      /\ \A v \in Writers \ {w} : buf'[v] = buf[v]
  BY <1>0, <1>3, <1>4 DEF TypeFile, FileType, ReadLines
<1>6. TypeProgress' /\ TypeMarks'
  BY <1>0, <1>1 DEF TypeProgress, TypeMarks, ReadLines
<1>7. Within(w, "read", "swap")
  BY <1>1, <1>5 DEF Within, Apart, ReadLines
<1>. QED
  BY <1>5, <1>6, <1>7, ConfigTypeParts DEF ReadLines

LEMMA ReplaceDoes ==
  ASSUME ConfigTypeOK, NEW w \in Writers, StageOK(w), Replace(w)
  PROVE  /\ ConfigTypeOK' /\ Within(w, "swap", AfterEdit(w))
         /\ file' = IF buf[w] = Nothing THEN Garbled ELSE Fine(buf[w])
         /\ kept' = IF buf[w] = Nothing THEN kept ELSE buf[w]
         /\ todo'[w] = Tail(todo[w]) /\ todo[w] # <<>> /\ buf'[w] = Nothing /\ fd'[w] = fd[w]
         /\ task[w].style \in {"edit", "upgrade"}
         /\ hurt' = hurt
PROOF
<1>0. TypeFile /\ TypeProgress /\ TypeMarks
  BY ConfigTypeParts
<1>1. /\ at[w] = "swap" /\ at' \in [Writers -> Stages] /\ at'[w] = AfterEdit(w)
      /\ \A v \in Writers \ {w} : at'[v] = at[v]
  <2>1. AfterEdit(w) \in Stages
    BY AfterEdits DEF Stages
  <2>. QED
    BY <1>0, <2>1, Went DEF Replace
<1>2. todo[w] # <<>> /\ Tail(todo[w]) \in Seq(Edit)
  BY <1>0, <1>1, HeadTail DEF StageOK, TypeProgress
<1>3. /\ fd' \in [Writers -> FdType] /\ fd'[w] = fd[w]
      /\ \A v \in Writers \ {w} : fd'[v] \in {fd[v], "shared", "gone"} /\ (fd'[v] # fd[v] => at[v] = "put")
  BY <1>0, OtherFds DEF Replace
<1>4. /\ TypeProgress' /\ todo'[w] = Tail(todo[w])
      /\ \A v \in Writers \ {w} : todo'[v] = todo[v]
  BY <1>0, <1>1, <1>2, <1>3 DEF TypeProgress, Replace, FdType
<1>5. /\ TypeFile' /\ buf'[w] = Nothing
      /\ \A v \in Writers \ {w} : buf'[v] = buf[v]
  BY <1>0, Contents, Files DEF TypeFile, Replace
<1>6. TypeMarks'
  BY <1>0 DEF TypeMarks, Replace
<1>7. Within(w, "swap", AfterEdit(w))
  BY <1>1, <1>3, <1>4, <1>5 DEF Within, Apart, Replace
<1>. QED
  BY <1>2, <1>3, <1>4, <1>5, <1>6, <1>7, ConfigTypeParts DEF Replace

LEMMA EditFailsDoes ==
  ASSUME ConfigTypeOK, NEW w \in Writers, StageOK(w), EditFails(w)
  PROVE  /\ ConfigTypeOK' /\ Within(w, at[w], at'[w])
         /\ at[w] \in {"read", "swap"} /\ at'[w] \in {"stopped", AfterEdit(w)} /\ hurt'[w]
         /\ at'[w] = "stopped" => task[w].halts
         /\ task[w].style = "set" => file.state = "missing"
         /\ todo'[w] = Tail(todo[w]) /\ todo[w] # <<>> /\ buf'[w] = Nothing
         /\ UNCHANGED <<file, kept, fd>>
PROOF
<1>0. TypeFile /\ TypeProgress /\ TypeMarks
  BY ConfigTypeParts
<1>1. /\ at[w] \in {"read", "swap"} /\ at' \in [Writers -> Stages]
      /\ at'[w] = IF task[w].halts THEN "stopped" ELSE AfterEdit(w)
      /\ \A v \in Writers \ {w} : at'[v] = at[v]
  <2>1. (IF task[w].halts THEN "stopped" ELSE AfterEdit(w)) \in Stages
    BY AfterEdits DEF Stages
  <2>. QED
    BY <1>0, <2>1 DEF EditFails, TypeProgress
<1>2. todo[w] # <<>> /\ Tail(todo[w]) \in Seq(Edit)
  BY <1>0, <1>1, HeadTail DEF StageOK, TypeProgress
<1>3. /\ TypeProgress' /\ todo'[w] = Tail(todo[w])
      /\ \A v \in Writers \ {w} : todo'[v] = todo[v]
  BY <1>0, <1>1, <1>2 DEF TypeProgress, EditFails
<1>4. /\ TypeFile' /\ buf'[w] = Nothing
      /\ \A v \in Writers \ {w} : buf'[v] = buf[v]
  BY <1>0, Contents DEF TypeFile, EditFails
<1>5. hurt' = [hurt EXCEPT ![w] = TRUE] /\ UNCHANGED <<file, kept, task, fd, alone>>
  BY DEF EditFails
<1>6. TypeMarks' /\ hurt'[w] /\ \A v \in Writers \ {w} : hurt'[v] = hurt[v]
  BY <1>0, <1>5, Zenon DEF TypeMarks
<1>7. Within(w, at[w], at'[w])
  BY <1>1, <1>3, <1>4, <1>5, <1>6 DEF Within, Apart
<1>8. at'[w] \in {"stopped", AfterEdit(w)} /\ (at'[w] = "stopped" => task[w].halts)
  BY <1>1, AfterEdits
<1>9. task[w].style = "set" => file.state = "missing"
  BY DEF EditFails
<1>. QED
  BY <1>1, <1>2, <1>3, <1>4, <1>5, <1>6, <1>7, <1>8, <1>9, ConfigTypeParts, Zenon

LEMMA FindLineDoes ==
  ASSUME ConfigTypeOK, NEW w \in Writers, StageOK(w), FindLine(w)
  PROVE  /\ ConfigTypeOK' /\ Within(w, "read", at'[w]) /\ buf'[w] = file.opt
         /\ at'[w] = IF Found(Head(todo[w]).opt, file.opt) = Absent THEN "stopped" ELSE "open"
         /\ task[w].style = "set" /\ file.state # "missing"
         /\ UNCHANGED <<file, kept, todo, fd, hurt>>
PROOF
<1>0. TypeFile /\ TypeProgress /\ TypeMarks
  BY ConfigTypeParts
<1>1. /\ at[w] = "read" /\ at' \in [Writers -> Stages]
      /\ at'[w] = IF Found(Head(todo[w]).opt, file.opt) = Absent THEN "stopped" ELSE "open"
      /\ \A v \in Writers \ {w} : at'[v] = at[v]
  <2>1. (IF Found(Head(todo[w]).opt, file.opt) = Absent THEN "stopped" ELSE "open") \in Stages
    BY DEF Stages
  <2>2. Go(w, "read", IF Found(Head(todo[w]).opt, file.opt) = Absent THEN "stopped" ELSE "open")
    BY DEF FindLine
  <2>. QED
    BY <1>0, <2>1, <2>2, Went
<1>2. /\ TypeFile' /\ buf'[w] = file.opt
      /\ \A v \in Writers \ {w} : buf'[v] = buf[v]
  BY <1>0 DEF TypeFile, FileType, FindLine
<1>3. TypeProgress' /\ TypeMarks'
  BY <1>0, <1>1 DEF TypeProgress, TypeMarks, FindLine
<1>4. Within(w, "read", at'[w])
  BY <1>1, <1>2 DEF Within, Apart, FindLine
<1>. QED
  BY <1>1, <1>2, <1>3, <1>4, ConfigTypeParts DEF FindLine

(* The file with every line changed that was equal to the one found.       *)
Rewritten(c, e, old) ==
  [o \in Options |-> IF o \in Namesakes(e.opt) /\ c[o] = old THEN e.val ELSE c[o]]

(* set's rewriting changes namesakes of its option only, and empties       *)
(* nothing.                                                                *)
LEMMA RewrittenContent ==
  ASSUME NEW c \in Content, NEW e \in Edit, NEW old
  PROVE  /\ Rewritten(c, e, old) \in Content
         /\ \A o \in Options : Rewritten(c, e, old)[o] # c[o] =>
                                 o \in Namesakes(e.opt) /\ Rewritten(c, e, old)[o] = e.val
         /\ c # Nothing => Rewritten(c, e, old) # Nothing
PROOF
<1>1. e.val \in Settings
  BY EditParts
<1>2. Rewritten(c, e, old) \in Content
  BY <1>1, SettingValues DEF Rewritten
<1>3. \A o \in Options : Rewritten(c, e, old)[o] \in {c[o], e.val}
  BY DEF Rewritten
<1>4. \A o \in Options : Rewritten(c, e, old)[o] # c[o] =>
                           o \in Namesakes(e.opt) /\ Rewritten(c, e, old)[o] = e.val
  BY DEF Rewritten
<1>5. ASSUME c # Nothing
      PROVE  Rewritten(c, e, old) # Nothing
  <2>1. PICK o \in Options : c[o] # Absent
    BY <1>5, SettingValues DEF Nothing
  <2>2. Rewritten(c, e, old)[o] # Absent
    BY <1>1, <1>3, <2>1, SettingValues
  <2>. QED
    BY <2>1, <2>2, Contents
<1>. QED
  BY <1>2, <1>4, <1>5

LEMMA OpenInPlaceDoes ==
  ASSUME ConfigTypeOK, NEW w \in Writers, StageOK(w), OpenInPlace(w)
  PROVE  /\ ConfigTypeOK' /\ Within(w, "open", "put")
         /\ buf'[w] = Rewritten(file.opt, Head(todo[w]), Found(Head(todo[w]).opt, buf[w]))
         /\ file' = Fine(Nothing) /\ fd'[w] = "own"
         /\ \A v \in Writers \ {w} : at[v] = "put" => fd'[v] = "gone"
         /\ task[w].style = "set" /\ file.state # "missing"
         /\ UNCHANGED <<kept, todo, hurt>>
PROOF
<1>0. TypeFile /\ TypeProgress /\ TypeMarks
  BY ConfigTypeParts
<1>1. /\ at[w] = "open" /\ at' \in [Writers -> Stages] /\ at'[w] = "put"
      /\ \A v \in Writers \ {w} : at'[v] = at[v]
  BY <1>0, Went DEF OpenInPlace, Stages
<1>2. Head(todo[w]) \in Edit
  BY <1>0, <1>1, HeadTail DEF StageOK, TypeProgress
<1>3. Rewritten(file.opt, Head(todo[w]), Found(Head(todo[w]).opt, buf[w])) \in Content
  BY <1>0, <1>2, RewrittenContent DEF TypeFile, FileType
<1>4. buf' = [buf EXCEPT ![w] = Rewritten(file.opt, Head(todo[w]), Found(Head(todo[w]).opt, buf[w]))]
  BY DEF OpenInPlace, Rewritten
<1>5. /\ TypeFile' /\ file' = Fine(Nothing)
      /\ buf'[w] = Rewritten(file.opt, Head(todo[w]), Found(Head(todo[w]).opt, buf[w]))
      /\ \A v \in Writers \ {w} : buf'[v] = buf[v]
  BY <1>0, <1>3, <1>4, Contents, Files DEF TypeFile, OpenInPlace
<1>6. /\ fd' \in [Writers -> FdType] /\ fd'[w] = "own"
      /\ \A v \in Writers \ {w} : /\ fd'[v] \in {fd[v], "shared", "gone"}
                                  /\ fd'[v] # fd[v] => at[v] = "put"
                                  /\ at[v] = "put" => fd'[v] = "gone"
  <2>1. fd' = [Others(w, "gone") EXCEPT ![w] = "own"]
    BY DEF OpenInPlace
  <2>. QED
    BY <1>0, <2>1, OtherFds DEF FdType
<1>7. TypeProgress' /\ TypeMarks'
  BY <1>0, <1>1, <1>6 DEF TypeProgress, TypeMarks, OpenInPlace, FdType
<1>8. Within(w, "open", "put")
  BY <1>1, <1>5, <1>6 DEF Within, Apart, OpenInPlace
<1>. QED
  BY <1>5, <1>6, <1>7, <1>8, ConfigTypeParts DEF OpenInPlace

LEMMA LoadCopyDoes ==
  ASSUME ConfigTypeOK, NEW w \in Writers, LoadCopy(w)
  PROVE  /\ ConfigTypeOK' /\ Within(w, "read", "open") /\ buf'[w] = file.opt
         /\ task[w].style = "copy"
         /\ UNCHANGED <<file, kept, todo, fd, hurt>>
PROOF
<1>0. TypeFile /\ TypeProgress /\ TypeMarks
  BY ConfigTypeParts
<1>1. /\ at[w] = "read" /\ at' \in [Writers -> Stages] /\ at'[w] = "open"
      /\ \A v \in Writers \ {w} : at'[v] = at[v]
  BY <1>0, Went DEF LoadCopy, Stages
<1>2. /\ TypeFile' /\ buf'[w] = file.opt
      /\ \A v \in Writers \ {w} : buf'[v] = buf[v]
  BY <1>0 DEF TypeFile, FileType, LoadCopy
<1>3. TypeProgress' /\ TypeMarks'
  BY <1>0, <1>1 DEF TypeProgress, TypeMarks, LoadCopy
<1>4. Within(w, "read", "open")
  BY <1>1, <1>2 DEF Within, Apart, LoadCopy
<1>. QED
  BY <1>1, <1>2, <1>3, <1>4, ConfigTypeParts DEF LoadCopy

LEMMA LoadIgnoredDoes ==
  ASSUME ConfigTypeOK, NEW w \in Writers, LoadIgnored(w)
  PROVE  /\ ConfigTypeOK' /\ Within(w, "read", at'[w]) /\ buf'[w] = file.opt
         /\ at'[w] \in {"open", "done"}
         /\ task[w].style = "upgrade" /\ Head(todo[w]) = DropPolkit
         /\ UNCHANGED <<file, kept, todo, fd, hurt>>
PROOF
<1>0. TypeFile /\ TypeProgress /\ TypeMarks
  BY ConfigTypeParts
<1>1. PICK to \in {"open", "done"} : Go(w, "read", to)
  BY DEF LoadIgnored
<1>2. /\ at[w] = "read" /\ at' \in [Writers -> Stages] /\ at'[w] = to
      /\ \A v \in Writers \ {w} : at'[v] = at[v]
  BY <1>0, <1>1, Went DEF Stages
<1>3. /\ TypeFile' /\ buf'[w] = file.opt
      /\ \A v \in Writers \ {w} : buf'[v] = buf[v]
  BY <1>0 DEF TypeFile, FileType, LoadIgnored
<1>4. TypeProgress' /\ TypeMarks'
  BY <1>0, <1>2 DEF TypeProgress, TypeMarks, LoadIgnored
<1>5. Within(w, "read", at'[w])
  BY <1>2, <1>3 DEF Within, Apart, LoadIgnored
<1>. QED
  BY <1>2, <1>3, <1>4, <1>5, ConfigTypeParts DEF LoadIgnored

LEMMA OpenCopyDoes ==
  ASSUME ConfigTypeOK, NEW w \in Writers, StageOK(w), OpenCopy(w)
  PROVE  /\ ConfigTypeOK' /\ Within(w, "open", "put")
         /\ buf'[w] = Edited(buf[w], Head(todo[w]))
         /\ file' = Fine(Nothing) /\ fd'[w] \in {"own", "shared"}
         /\ fd'[w] = "shared" => \E v \in Writers \ {w} : at[v] = "put"
         /\ task[w].style \in {"copy", "upgrade"}
         /\ UNCHANGED <<kept, todo, hurt>>
PROOF
<1>0. TypeFile /\ TypeProgress /\ TypeMarks
  BY ConfigTypeParts
<1>1. /\ at[w] = "open" /\ at' \in [Writers -> Stages] /\ at'[w] = "put"
      /\ \A v \in Writers \ {w} : at'[v] = at[v]
  BY <1>0, Went DEF OpenCopy, Stages
<1>2. Head(todo[w]) \in Edit
  BY <1>0, <1>1, HeadTail DEF StageOK, TypeProgress
<1>3. buf[w] \in Content /\ Edited(buf[w], Head(todo[w])) \in Content
  BY <1>0, <1>2, EditedContent DEF TypeFile
<1>4. buf' = [buf EXCEPT ![w] = Edited(buf[w], Head(todo[w]))]
  BY DEF OpenCopy, Edited
<1>5. /\ TypeFile' /\ file' = Fine(Nothing)
      /\ buf'[w] = Edited(buf[w], Head(todo[w]))
      /\ \A v \in Writers \ {w} : buf'[v] = buf[v]
  BY <1>0, <1>3, <1>4, Contents, Files DEF TypeFile, OpenCopy
<1>6. /\ fd' \in [Writers -> FdType] /\ fd'[w] \in {"own", "shared"}
      /\ fd'[w] = "shared" => \E v \in Writers \ {w} : at[v] = "put"
      /\ \A v \in Writers \ {w} : /\ fd'[v] \in {fd[v], "shared", "gone"}
                                  /\ fd'[v] # fd[v] => at[v] = "put"
  <2>1. fd' = [Others(w, "shared") EXCEPT ![w] =
                 IF \E v \in Writers \ {w} : at[v] = "put" /\ fd[v] # "gone" THEN "shared" ELSE "own"]
    BY DEF OpenCopy
  <2>2. PICK x \in {"own", "shared"} :
           /\ fd' = [Others(w, "shared") EXCEPT ![w] = x]
           /\ x = "shared" => \E v \in Writers \ {w} : at[v] = "put"
    BY <2>1
  <2>. QED
    BY <1>0, <2>2, OtherFds DEF FdType
<1>7. TypeProgress' /\ TypeMarks'
  BY <1>0, <1>1, <1>6 DEF TypeProgress, TypeMarks, OpenCopy, FdType
<1>8. Within(w, "open", "put")
  BY <1>1, <1>5, <1>6 DEF Within, Apart, OpenCopy
<1>. QED
  BY <1>5, <1>6, <1>7, <1>8, ConfigTypeParts DEF OpenCopy

LEMMA PutDoes ==
  ASSUME ConfigTypeOK, NEW w \in Writers, Put(w)
  PROVE  /\ ConfigTypeOK' /\ Within(w, "put", "done")
         /\ fd'[w] = fd[w] /\ buf'[w] = Nothing
         /\ fd[w] = "gone" => UNCHANGED <<file, kept, fd>>
         /\ fd[w] # "gone" =>
              /\ kept' = buf[w]
              /\ file' = Fine(buf[w]) \/ (fd[w] = "shared" /\ file' = Garbled)
              /\ \A v \in Writers \ {w} : at[v] = "put" => fd'[v] \in {"shared", "gone"}
         /\ hurt' = hurt
PROOF
<1>0. TypeFile /\ TypeProgress /\ TypeMarks
  BY ConfigTypeParts
<1>1. /\ at[w] = "put" /\ at' \in [Writers -> Stages] /\ at'[w] = "done"
      /\ \A v \in Writers \ {w} : at'[v] = at[v]
  BY <1>0, Went DEF Put, Stages
<1>2. /\ fd' \in [Writers -> FdType] /\ fd'[w] = fd[w]
      /\ \A v \in Writers \ {w} : /\ fd'[v] \in {fd[v], "shared", "gone"}
                                  /\ fd'[v] # fd[v] => at[v] = "put"
                                  /\ fd[w] # "gone" /\ at[v] = "put" => fd'[v] \in {"shared", "gone"}
  <2>1. CASE fd[w] = "gone"
    BY <1>0, <2>1 DEF Put, TypeProgress, FdType
  <2>2. CASE fd[w] # "gone"
    <3>1. fd' = Others(w, "shared")
      BY <2>2 DEF Put
    <3>. QED
      BY <1>0, <3>1, OtherFds DEF FdType
  <2>. QED
    BY <2>1, <2>2
<1>3. /\ fd[w] = "gone" => UNCHANGED <<file, kept, fd>>
      /\ fd[w] # "gone" => kept' = buf[w] /\ (file' = Fine(buf[w]) \/ (fd[w] = "shared" /\ file' = Garbled))
  <2>1. CASE fd[w] = "gone"
    BY <2>1 DEF Put
  <2>2. CASE fd[w] # "gone"
    BY <2>2, Zenon DEF Put
  <2>. QED
    BY <2>1, <2>2
<1>4. buf[w] \in Content /\ Fine(buf[w]) \in FileType /\ Garbled \in FileType
  BY <1>0, Files DEF TypeFile
<1>5. file' \in FileType /\ kept' \in Content
  BY <1>0, <1>3, <1>4 DEF TypeFile
<1>6. /\ TypeFile' /\ buf'[w] = Nothing
      /\ \A v \in Writers \ {w} : buf'[v] = buf[v]
  BY <1>0, <1>5, Contents DEF TypeFile, Put
<1>7. /\ TypeProgress'
      /\ \A v \in Writers \ {w} : todo'[v] = todo[v]
  BY <1>0, <1>1, <1>2 DEF TypeProgress, Put, FdType
<1>8. TypeMarks'
  BY <1>0 DEF TypeMarks, Put
<1>9. Within(w, "put", "done")
  BY <1>1, <1>2, <1>6, <1>7 DEF Within, Apart, Put
<1>. QED
  BY <1>2, <1>3, <1>6, <1>7, <1>8, <1>9, ConfigTypeParts DEF Put

(* The certainty that counts is a value an option can have.                *)
LEMMA CertaintyKnown ==
  ASSUME NEW c \in Content
  PROVE  CertaintyOf(c) \in Settings
BY SettingValues DEF CertaintyOf, Settings, Options

LEMMA LookDoes ==
  ASSUME ConfigTypeOK, NEW w \in Writers, LookForConfirmations(w)
  PROVE  /\ ConfigTypeOK' /\ Within(w, "look", "read")
         /\ todo'[w] \in {<<E("confirmations", CertaintyOf(file.opt)), DropPolkit>>, <<DropPolkit>>}
         /\ task[w].style = "upgrade"
         /\ UNCHANGED <<file, kept, buf, fd, hurt>>
PROOF
<1>0. TypeFile /\ TypeProgress /\ TypeMarks
  BY ConfigTypeParts
<1>1. Certainty = CertaintyOf(file.opt)
  BY DEF Certainty, CertaintyOf
<1>2. /\ <<E("confirmations", CertaintyOf(file.opt)), DropPolkit>> \in Seq(Edit)
      /\ <<DropPolkit>> \in Seq(Edit)
  <2>1. file.opt \in Content
    BY <1>0 DEF TypeFile, FileType
  <2>2. E("confirmations", CertaintyOf(file.opt)) \in Edit /\ DropPolkit \in Edit
    BY <2>1, CertaintyKnown, EditParts, AllEdits DEF Options
  <2>. QED
    BY <2>2
<1>3. PICK td \in {<<E("confirmations", CertaintyOf(file.opt)), DropPolkit>>, <<DropPolkit>>} :
        todo' = [todo EXCEPT ![w] = td]
  BY <1>1 DEF LookForConfirmations
<1>4. /\ at[w] = "look" /\ at' \in [Writers -> Stages] /\ at'[w] = "read"
      /\ \A v \in Writers \ {w} : at'[v] = at[v]
  BY <1>0, Went DEF LookForConfirmations, Stages
<1>5. td \in Seq(Edit)
  BY <1>2, <1>3
<1>6. /\ TypeProgress' /\ todo'[w] = td
      /\ \A v \in Writers \ {w} : todo'[v] = todo[v]
  BY <1>0, <1>3, <1>4, <1>5 DEF TypeProgress, LookForConfirmations
<1>7. TypeFile' /\ TypeMarks'
  BY <1>0 DEF TypeFile, FileType, TypeMarks, LookForConfirmations
<1>8. Within(w, "look", "read")
  BY <1>4, <1>6 DEF Within, Apart, LookForConfirmations
<1>. QED
  BY <1>3, <1>6, <1>7, <1>8, ConfigTypeParts DEF LookForConfirmations

LEMMA CheckDoes ==
  ASSUME ConfigTypeOK, NEW w \in Writers, CheckRestore(w)
  PROVE  /\ ConfigTypeOK' /\ Within(w, "check", at'[w])
         /\ at'[w] = IF NeedsRestore THEN "create" ELSE "done"
         /\ UNCHANGED <<file, kept, todo, buf, fd, hurt>>
PROOF
<1>0. TypeFile /\ TypeProgress /\ TypeMarks
  BY ConfigTypeParts
<1>1. PICK to \in Stages : to = IF NeedsRestore THEN "create" ELSE "done"
  BY DEF Stages
<1>2. /\ at[w] = "check" /\ at' \in [Writers -> Stages] /\ at'[w] = to
      /\ \A v \in Writers \ {w} : at'[v] = at[v]
  BY <1>0, <1>1, Went DEF CheckRestore
<1>3. TypeFile' /\ TypeMarks' /\ TypeProgress'
  BY <1>0, <1>2 DEF TypeFile, FileType, TypeMarks, TypeProgress, CheckRestore
<1>4. Within(w, "check", at'[w])
  BY <1>2 DEF Within, Apart, CheckRestore
<1>. QED
  BY <1>1, <1>2, <1>3, <1>4, ConfigTypeParts DEF CheckRestore

LEMMA CreateDoes ==
  ASSUME ConfigTypeOK, NEW w \in Writers, CreateOrRecheck(w)
  PROVE  /\ ConfigTypeOK' /\ Within(w, "create", at'[w])
         /\ at'[w] \in {"put", "swapin", "done"}
         /\ at'[w] = "put" <=> file.state = "missing"
         /\ file.state = "missing" => file' = Fine(Nothing) /\ buf'[w] = Template /\ fd'[w] = "own"
         /\ file.state # "missing" => UNCHANGED <<file, buf, fd>>
         /\ at'[w] = "swapin" => NeedsRestore
         /\ UNCHANGED <<kept, todo, hurt>>
PROOF
<1>0. TypeFile /\ TypeProgress /\ TypeMarks
  BY ConfigTypeParts
<1>1. PICK to \in {"put", "swapin", "done"} :
        /\ to = "put" <=> file.state = "missing"
        /\ to = "swapin" => NeedsRestore
        /\ Go(w, "create", to)
  BY DEF CreateOrRecheck
<1>2. /\ at[w] = "create" /\ at' \in [Writers -> Stages] /\ at'[w] = to
      /\ \A v \in Writers \ {w} : at'[v] = at[v]
  BY <1>0, <1>1, Went DEF Stages
<1>3. UNCHANGED <<kept, task, todo, alone, hurt>>
  BY DEF CreateOrRecheck
<1>4. CASE file.state = "missing"
  <2>1. /\ file' = Fine(Nothing)
        /\ buf' = [buf EXCEPT ![w] = Template]
        /\ fd' = [fd EXCEPT ![w] = "own"]
    BY <1>4 DEF CreateOrRecheck
  <2>2. /\ TypeFile' /\ buf'[w] = Template /\ \A v \in Writers \ {w} : buf'[v] = buf[v]
    BY <1>0, <1>3, <2>1, Contents, Files DEF TypeFile
  <2>3. /\ TypeProgress' /\ fd'[w] = "own" /\ \A v \in Writers \ {w} : fd'[v] = fd[v]
    BY <1>0, <1>2, <1>3, <2>1 DEF TypeProgress
  <2>4. TypeMarks'
    BY <1>0, <1>3 DEF TypeMarks
  <2>5. Within(w, "create", at'[w])
    BY <1>2, <1>3, <2>2, <2>3 DEF Within, Apart
  <2>. QED
    BY <1>1, <1>2, <1>3, <1>4, <2>1, <2>2, <2>3, <2>4, <2>5, ConfigTypeParts
<1>5. CASE file.state # "missing"
  <2>1. UNCHANGED <<file, buf, fd>>
    BY <1>5 DEF CreateOrRecheck
  <2>2. TypeFile' /\ TypeProgress' /\ TypeMarks'
    BY <1>0, <1>2, <1>3, <2>1 DEF TypeFile, FileType, TypeProgress, TypeMarks
  <2>3. Within(w, "create", at'[w])
    BY <1>2, <1>3, <2>1 DEF Within, Apart
  <2>. QED
    BY <1>1, <1>2, <1>3, <1>5, <2>1, <2>2, <2>3, ConfigTypeParts
<1>. QED
  BY <1>4, <1>5

LEMMA SwapInDoes ==
  ASSUME ConfigTypeOK, NEW w \in Writers, SwapTemplateIn(w)
  PROVE  /\ ConfigTypeOK' /\ Within(w, "swapin", "done")
         /\ file' = Fine(Template) /\ kept' = Template /\ fd'[w] = fd[w]
         /\ UNCHANGED <<todo, buf, hurt>>
PROOF
<1>0. TypeFile /\ TypeProgress /\ TypeMarks
  BY ConfigTypeParts
<1>1. /\ at[w] = "swapin" /\ at' \in [Writers -> Stages] /\ at'[w] = "done"
      /\ \A v \in Writers \ {w} : at'[v] = at[v]
  BY <1>0, Went DEF SwapTemplateIn, Stages
<1>2. /\ fd' \in [Writers -> FdType] /\ fd'[w] = fd[w]
      /\ \A v \in Writers \ {w} : fd'[v] \in {fd[v], "shared", "gone"} /\ (fd'[v] # fd[v] => at[v] = "put")
  BY <1>0, OtherFds DEF SwapTemplateIn
<1>3. TypeFile'
  BY <1>0, Contents, Files DEF TypeFile, SwapTemplateIn
<1>4. TypeProgress' /\ TypeMarks'
  BY <1>0, <1>1, <1>2 DEF TypeProgress, TypeMarks, SwapTemplateIn, FdType
<1>5. Within(w, "swapin", "done")
  BY <1>1, <1>2 DEF Within, Apart, SwapTemplateIn
<1>. QED
  BY <1>2, <1>3, <1>4, <1>5, ConfigTypeParts DEF SwapTemplateIn

LEMMA StopDoes ==
  ASSUME ConfigTypeOK, NEW w \in Writers, Stop(w)
  PROVE  /\ ConfigTypeOK' /\ Within(w, at[w], "stopped") /\ w \in Active
         /\ buf'[w] = Nothing
         /\ UNCHANGED <<file, kept, fd, hurt>>
PROOF
<1>0. TypeFile /\ TypeProgress /\ TypeMarks
  BY ConfigTypeParts
<1>1. /\ at' \in [Writers -> Stages] /\ at'[w] = "stopped"
      /\ \A v \in Writers \ {w} : at'[v] = at[v]
  BY <1>0 DEF Stop, TypeProgress, Stages
<1>2. /\ TypeFile' /\ buf'[w] = Nothing
      /\ \A v \in Writers \ {w} : buf'[v] = buf[v]
  BY <1>0, Contents DEF TypeFile, FileType, Stop
<1>3. TypeProgress' /\ TypeMarks' /\ \A v \in Writers \ {w} : todo'[v] = todo[v]
  BY <1>0, <1>1 DEF TypeProgress, TypeMarks, Stop
<1>4. Within(w, at[w], "stopped")
  BY <1>1, <1>2, <1>3 DEF Within, Apart, Stop
<1>. QED
  BY <1>2, <1>3, <1>4, ConfigTypeParts DEF Stop

-----------------------------------------------------------------------------
(* The inductive part about the writers alone.                             *)
LEMMA ActiveParts ==
  /\ \A v \in Writers : v \in Active <=> at[v] \notin {"idle", "done", "stopped"}
  /\ \A v \in Writers : v \in Active' <=> at'[v] \notin {"idle", "done", "stopped"}
  /\ Active \subseteq Writers /\ Active' \subseteq Writers
BY DEF Active

(* A step of one writer says nothing of another's stage.                   *)
LEMMA OtherStages ==
  ASSUME NEW w \in Writers, Apart(w), NEW v \in Writers \ {w}, StageOK(v),
         at[v] = "idle" => alone'[v]
  PROVE  StageOK(v)'
PROOF
<1>1. at'[v] = at[v] /\ task'[v] = task[v] /\ todo'[v] = todo[v] /\ buf'[v] = buf[v]
  BY DEF Apart
<1>. QED
  BY <1>1, Zenon DEF StageOK

(* A step on the way keeps the marks of an overlap; only a writer that is  *)
(* not alone comes to share its file.                                      *)
LEMMA WithinOverlap ==
  ASSUME ConfigTypeOK, Overlap, NEW w \in Writers, w \in Active, NEW to, Within(w, at[w], to),
         fd'[w] \in {"shared", "gone"} => fd[w] \in {"shared", "gone"} \/ ~alone[w]
  PROVE  Overlap'
PROOF
<1>1. alone' = alone /\ Apart(w)
  BY DEF Within
<1>2. ASSUME NEW v \in Active', NEW u \in Active', v # u
      PROVE  ~alone'[v]
  <2>1. v \in Active /\ u \in Active
    BY <1>1, ActiveParts DEF Apart
  <2>. QED
    BY <1>1, <1>2, <2>1, Zenon DEF Overlap
<1>3. ASSUME NEW v \in Writers, fd'[v] \in {"shared", "gone"}
      PROVE  ~alone'[v]
  <2>1. CASE v = w
    <3>1. ~alone[w]
      BY <1>3, <2>1, Zenon DEF Overlap
    <3>. QED
      BY <1>1, <2>1, <3>1, Zenon
  <2>2. CASE v # w /\ fd'[v] = fd[v]
    <3>1. ~alone[v]
      BY <1>3, <2>2, Zenon DEF Overlap
    <3>. QED
      BY <1>1, <3>1, Zenon
  <2>3. CASE v # w /\ fd'[v] # fd[v]
    <3>1. at[v] = "put"
      BY <1>1, <2>3 DEF Apart
    <3>2. v \in Active
      BY <3>1, ActiveParts
    <3>3. ~alone[v]
      BY <2>3, <3>2, Zenon DEF Overlap
    <3>. QED
      BY <1>1, <3>3, Zenon
  <2>. QED
    BY <2>1, <2>2, <2>3
<1>. QED
  BY <1>2, <1>3, Zenon DEF Overlap

(* A writer that begins marks those at work.                               *)
LEMMA BeginOverlap ==
  ASSUME ConfigTypeOK, Overlap, NEW w \in Writers, Apart(w), at[w] = "idle", fd' = fd, alone[w],
         alone'[w] <=> Active = {},
         \A v \in Writers \ {w} : alone'[v] <=> alone[v] /\ v \notin Active
  PROVE  Overlap'
PROOF
<1>1. ASSUME NEW v \in Active', NEW u \in Active', v # u
      PROVE  ~alone'[v]
  <2>1. CASE v = w
    <3>1. u \in Active
      BY <1>1, <2>1, ActiveParts DEF Apart
    <3>. QED
      BY <2>1, <3>1, Zenon
  <2>2. CASE v # w
    <3>1. v \in Active /\ v \in Writers
      BY <1>1, <2>2, ActiveParts DEF Apart
    <3>. QED
      BY <2>2, <3>1, Zenon
  <2>. QED
    BY <2>1, <2>2
<1>2. ASSUME NEW v \in Writers, fd'[v] \in {"shared", "gone"}
      PROVE  ~alone'[v]
  <2>1. ~alone[v]
    BY <1>2, Zenon DEF Overlap
  <2>. QED
    BY <2>1, Zenon
<1>. QED
  BY <1>1, <1>2, Zenon DEF Overlap

(* The first stage is one of the task's own.                               *)
LEMMA StartStage ==
  ASSUME NEW w \in Writers, NEW t \in Tasks, at'[w] = FirstStep(t.style), task'[w] = t, todo'[w] = t.edits
  PROVE  StageOK(w)'
PROOF
<1>1. /\ t.style \in {"edit", "set", "copy"} => t.edits # <<>>
      /\ t.style = "restore" <=> t = Restore
      /\ t.style = "upgrade" <=> t = Upgrade
      /\ t.style \in {"edit", "set", "copy", "upgrade", "restore"}
  BY TaskStyles
<1>2. /\ t.style = "restore" => at'[w] = "check"
      /\ t.style = "upgrade" => at'[w] = "look"
      /\ t.style \in {"edit", "set", "copy"} => at'[w] = "read"
  BY DEF FirstStep
<1>. QED
  BY <1>1, <1>2 DEF StageOK

(* After an edit comes the next one, if there is one.                      *)
LEMMA AfterEditStage ==
  ASSUME ConfigTypeOK, NEW w \in Writers, StageOK(w), at[w] \in {"read", "swap"}
  PROVE  /\ AfterEdit(w) = "read" => Len(todo[w]) > 1 /\ Tail(todo[w]) # <<>>
         /\ AfterEdit(w) = "done" => Len(todo[w]) = 1
         /\ AfterEdit(w) = "read" => task[w].style \notin {"set", "copy", "restore"} /\ task[w] # Restore
PROOF
<1>1. task[w] \in Tasks /\ todo[w] \in Seq(Edit) /\ todo[w] # <<>> /\ task[w] # Restore
  BY ConfigTypeParts DEF TypeProgress, StageOK
<1>2. /\ Len(todo[w]) > 1 => Tail(todo[w]) # <<>>
      /\ ~(Len(todo[w]) > 1) => Len(todo[w]) = 1
  BY <1>1, HeadTail
<1>3. /\ AfterEdit(w) = "read" => Len(todo[w]) > 1
      /\ AfterEdit(w) = "done" => ~(Len(todo[w]) > 1)
  BY DEF AfterEdit
<1>4. task[w].style # "restore" /\ Shape(task[w])
  BY <1>1, TaskStyles
<1>5. ASSUME task[w].style \in {"set", "copy"}
      PROVE  Len(todo[w]) = 1
  <2>1. task[w].style = "set" => Len(task[w].edits) = 1
    BY <1>4 DEF Shape
  <2>2. task[w].style = "copy" => task[w].edits = <<E("device_path", "new")>>
    BY <1>4 DEF Shape
  <2>3. Len(<<E("device_path", "new")>>) = 1
    OBVIOUS
  <2>4. Len(task[w].edits) = 1
    BY <1>5, <2>1, <2>2, <2>3, Zenon
  <2>5. at[w] = "read" /\ todo[w] = task[w].edits
    BY <1>5 DEF StageOK
  <2>. QED
    BY <2>4, <2>5, Zenon
<1>6. AfterEdit(w) = "read" => Len(todo[w]) # 1
  <2>1. \A n \in Nat : n > 1 => n # 1
    OBVIOUS
  <2>. QED
    BY <1>1, <1>3, <2>1, HeadTail, Zenon
<1>. QED
  BY <1>1, <1>2, <1>3, <1>4, <1>5, <1>6

(* A file that is not fine has nothing to read.                            *)
LEMMA FileStates ==
  ASSUME ConfigTypeOK, FileOK, NEW w \in Writers,
         \/ file' = file
         \/ file' = Garbled
         \/ \E c \in Content : file' = Fine(c)
  PROVE  FileOK'
BY Files, Contents DEF FileOK

(* A step on the way keeps BaseInv if it keeps the writer's own part.      *)
LEMMA WithinBase ==
  ASSUME BaseInv, NEW w \in Writers, NEW to, Within(w, at[w], to), ConfigTypeOK', StageOK(w)',
         w \in Active,
         fd'[w] \in {"shared", "gone"} => fd[w] \in {"shared", "gone"} \/ ~alone[w],
         \/ file' = file
         \/ file' = Garbled
         \/ \E c \in Content : file' = Fine(c)
  PROVE  BaseInv'
PROOF
<1>1. alone' = alone /\ Apart(w)
  BY DEF Within
<1>2. ASSUME NEW v \in Writers
      PROVE  StageOK(v)'
  <2>1. CASE v # w
    <3>1. StageOK(v)
      BY DEF BaseInv
    <3>2. at[v] = "idle" => alone'[v]
      BY <1>1, <3>1, Zenon DEF StageOK
    <3>. QED
      BY <1>1, <2>1, <3>1, <3>2, OtherStages
  <2>. QED
    BY <2>1
<1>3. Overlap'
  BY WithinOverlap DEF BaseInv
<1>4. FileOK'
  BY FileStates DEF BaseInv
<1>. QED
  BY <1>2, <1>3, <1>4 DEF BaseInv

(* The groups of actions keep BaseInv.                                     *)
LEMMA BeginBase ==
  ASSUME BaseInv, NEW w \in Writers, Begin(w)
  PROVE  BaseInv'
PROOF
<1>1. /\ ConfigTypeOK' /\ Apart(w)
      /\ \E t \in Tasks :
           /\ at[w] = "idle" /\ at'[w] = FirstStep(t.style)
           /\ task'[w] = t /\ todo'[w] = t.edits
      /\ alone'[w] <=> Active = {}
      /\ \A v \in Writers \ {w} : alone'[v] <=> alone[v] /\ v \notin Active
      /\ UNCHANGED <<file, kept, buf, fd, hurt>>
  BY BeginDoes DEF BaseInv
<1>2. StageOK(w)'
  BY <1>1, StartStage
<1>3. ASSUME NEW v \in Writers
      PROVE  StageOK(v)'
  <2>1. CASE v # w
    <3>1. StageOK(v)
      BY DEF BaseInv
    <3>2. ASSUME at[v] = "idle"
          PROVE  alone'[v]
      <4>1. alone[v]
        BY <3>1, <3>2, Zenon DEF StageOK
      <4>2. v \notin Active
        BY <3>2, ActiveParts
      <4>. QED
        BY <1>1, <2>1, <4>1, <4>2, Zenon
    <3>. QED
      BY <1>1, <2>1, <3>1, <3>2, OtherStages
  <2>. QED
    BY <1>2, <2>1
<1>4. StageOK(w)
  BY DEF BaseInv
<1>5. alone[w]
  BY <1>1, <1>4, Zenon DEF StageOK
<1>6. Overlap'
  BY <1>1, <1>5, BeginOverlap DEF BaseInv
<1>7. FileOK'
  BY <1>1, FileStates DEF BaseInv
<1>. QED
  BY <1>1, <1>3, <1>6, <1>7 DEF BaseInv

LEMMA EditBase ==
  ASSUME BaseInv, NEW w \in Writers, EditStep(w)
  PROVE  BaseInv'
PROOF
<1>0. ConfigTypeOK /\ StageOK(w) /\ task[w] \in Tasks /\ TypeFile
  BY ConfigTypeParts DEF BaseInv, TypeProgress
<1>1. CASE ReadLines(w)
  <2>1. /\ ConfigTypeOK' /\ Within(w, "read", "swap")
        /\ task[w].style \in {"edit", "upgrade"}
        /\ UNCHANGED <<file, kept, todo, fd, hurt>>
    BY <1>0, <1>1, ReadLinesDoes
  <2>2. at[w] = "read" /\ at'[w] = "swap" /\ task' = task /\ w \in Active
    BY <2>1, ActiveParts DEF Within
  <2>3. StageOK(w)'
    BY <1>0, <2>1, <2>2 DEF StageOK
  <2>. QED
    BY <2>1, <2>2, <2>3, WithinBase
<1>2. CASE Replace(w)
  <2>1. /\ ConfigTypeOK' /\ Within(w, "swap", AfterEdit(w))
        /\ file' = IF buf[w] = Nothing THEN Garbled ELSE Fine(buf[w])
        /\ todo'[w] = Tail(todo[w]) /\ fd'[w] = fd[w]
        /\ task[w].style \in {"edit", "upgrade"}
    BY <1>0, <1>2, ReplaceDoes
  <2>2. at[w] = "swap" /\ at'[w] = AfterEdit(w) /\ task' = task /\ w \in Active
    BY <2>1, ActiveParts DEF Within
  <2>3. StageOK(w)'
    BY <1>0, <2>1, <2>2, AfterEdits, AfterEditStage DEF StageOK
  <2>4. buf[w] \in Content
    BY <1>0 DEF TypeFile
  <2>5. file' = Garbled \/ \E c \in Content : file' = Fine(c)
    BY <2>1, <2>4
  <2>. QED
    BY <2>1, <2>2, <2>3, <2>5, WithinBase
<1>3. CASE EditFails(w)
  <2>1. /\ ConfigTypeOK' /\ Within(w, at[w], at'[w])
        /\ at[w] \in {"read", "swap"} /\ at'[w] \in {"stopped", AfterEdit(w)}
        /\ todo'[w] = Tail(todo[w])
        /\ UNCHANGED <<file, kept, fd>>
    BY <1>0, <1>3, EditFailsDoes
  <2>2. task' = task /\ w \in Active
    BY <2>1, ActiveParts DEF Within
  <2>3. StageOK(w)'
    BY <1>0, <2>1, <2>2, AfterEdits, AfterEditStage DEF StageOK
  <2>. QED
    BY <2>1, <2>2, <2>3, WithinBase
<1>. QED
  BY <1>1, <1>2, <1>3 DEF EditStep

LEMMA InPlaceBase ==
  ASSUME BaseInv, NEW w \in Writers, InPlaceStep(w)
  PROVE  BaseInv'
PROOF
<1>0. ConfigTypeOK /\ StageOK(w) /\ task[w] \in Tasks /\ TypeFile /\ Overlap /\ Nothing \in Content
  BY ConfigTypeParts, Contents DEF BaseInv, TypeProgress
<1>1. CASE FindLine(w)
  <2>1. /\ ConfigTypeOK' /\ Within(w, "read", at'[w]) /\ buf'[w] = file.opt
        /\ at'[w] = IF Found(Head(todo[w]).opt, file.opt) = Absent THEN "stopped" ELSE "open"
        /\ task[w].style = "set"
        /\ UNCHANGED <<file, kept, todo, fd, hurt>>
    BY <1>0, <1>1, FindLineDoes
  <2>2. at[w] = "read" /\ task' = task /\ w \in Active
    BY <2>1, ActiveParts DEF Within
  <2>3. StageOK(w)'
    BY <1>0, <2>1, <2>2 DEF StageOK
  <2>. QED
    BY <2>1, <2>2, <2>3, WithinBase
<1>2. CASE OpenInPlace(w)
  <2>1. /\ ConfigTypeOK' /\ Within(w, "open", "put")
        /\ file' = Fine(Nothing) /\ fd'[w] = "own"
        /\ task[w].style = "set"
        /\ UNCHANGED <<kept, todo, hurt>>
    BY <1>0, <1>2, OpenInPlaceDoes
  <2>2. at[w] = "open" /\ at'[w] = "put" /\ task' = task /\ w \in Active
    BY <2>1, ActiveParts DEF Within
  <2>3. StageOK(w)'
    BY <1>0, <2>1, <2>2 DEF StageOK
  <2>. QED
    BY <1>0, <2>1, <2>2, <2>3, WithinBase
<1>3. CASE LoadCopy(w)
  <2>1. /\ ConfigTypeOK' /\ Within(w, "read", "open") /\ task[w].style = "copy"
        /\ UNCHANGED <<file, kept, todo, fd, hurt>>
    BY <1>0, <1>3, LoadCopyDoes
  <2>2. at[w] = "read" /\ at'[w] = "open" /\ task' = task /\ w \in Active
    BY <2>1, ActiveParts DEF Within
  <2>3. StageOK(w)'
    BY <1>0, <2>1, <2>2 DEF StageOK
  <2>. QED
    BY <2>1, <2>2, <2>3, WithinBase
<1>4. CASE OpenCopy(w)
  <2>1. /\ ConfigTypeOK' /\ Within(w, "open", "put")
        /\ file' = Fine(Nothing) /\ fd'[w] \in {"own", "shared"}
        /\ fd'[w] = "shared" => \E v \in Writers \ {w} : at[v] = "put"
        /\ task[w].style \in {"copy", "upgrade"}
        /\ UNCHANGED <<kept, todo, hurt>>
    BY <1>0, <1>4, OpenCopyDoes
  <2>2. at[w] = "open" /\ at'[w] = "put" /\ task' = task /\ w \in Active
    BY <2>1, ActiveParts DEF Within
  <2>3. StageOK(w)'
    BY <1>0, <2>1, <2>2 DEF StageOK
  <2>4. ASSUME fd'[w] = "shared"
        PROVE  ~alone[w]
    <3>1. PICK v \in Writers \ {w} : at[v] = "put"
      BY <2>1, <2>4
    <3>2. v \in Active /\ v # w
      BY <3>1, ActiveParts
    <3>. QED
      BY <1>0, <2>2, <3>2, Zenon DEF Overlap
  <2>. QED
    BY <1>0, <2>1, <2>2, <2>3, <2>4, WithinBase
<1>5. CASE Put(w)
  <2>1. /\ ConfigTypeOK' /\ Within(w, "put", "done")
        /\ fd'[w] = fd[w]
        /\ fd[w] = "gone" => UNCHANGED <<file, kept, fd>>
        /\ fd[w] # "gone" => file' = Fine(buf[w]) \/ (fd[w] = "shared" /\ file' = Garbled)
    BY <1>0, <1>5, PutDoes
  <2>2. at[w] = "put" /\ at'[w] = "done" /\ task' = task /\ w \in Active
    BY <2>1, ActiveParts DEF Within
  <2>3. StageOK(w)'
    BY <1>0, <2>1, <2>2 DEF StageOK
  <2>4. buf[w] \in Content
    BY <1>0 DEF TypeFile
  <2>5. file' = file \/ file' = Garbled \/ \E c \in Content : file' = Fine(c)
    BY <2>1, <2>4
  <2>. QED
    BY <2>1, <2>2, <2>3, <2>5, WithinBase
<1>6. CASE LoadIgnored(w)
  <2>1. /\ ConfigTypeOK' /\ Within(w, "read", at'[w]) /\ at'[w] \in {"open", "done"}
        /\ task[w].style = "upgrade"
        /\ UNCHANGED <<file, kept, todo, fd, hurt>>
    BY <1>0, <1>6, LoadIgnoredDoes
  <2>2. at[w] = "read" /\ task' = task /\ w \in Active
    BY <2>1, ActiveParts DEF Within
  <2>3. StageOK(w)'
    BY <1>0, <2>1, <2>2 DEF StageOK
  <2>. QED
    BY <2>1, <2>2, <2>3, WithinBase
<1>. QED
  BY <1>1, <1>2, <1>3, <1>4, <1>5, <1>6 DEF InPlaceStep

LEMMA EnsureBase ==
  ASSUME BaseInv, NEW w \in Writers, EnsureStep(w) \/ Stop(w)
  PROVE  BaseInv'
PROOF
<1>0. /\ ConfigTypeOK /\ StageOK(w) /\ task[w] \in Tasks /\ TypeFile /\ Overlap
      /\ Nothing \in Content /\ Template \in Content
      /\ task[w].style = "restore" <=> task[w] = Restore
      /\ task[w].style = "upgrade" <=> task[w] = Upgrade
  <2>1. task[w] \in Tasks
    BY ConfigTypeParts DEF BaseInv, TypeProgress
  <2>. QED
    BY <2>1, ConfigTypeParts, Contents, TaskStyles DEF BaseInv
<1>1. CASE LookForConfirmations(w)
  <2>1. /\ ConfigTypeOK' /\ Within(w, "look", "read")
        /\ todo'[w] \in {<<E("confirmations", CertaintyOf(file.opt)), DropPolkit>>, <<DropPolkit>>}
        /\ task[w].style = "upgrade"
        /\ UNCHANGED <<file, kept, buf, fd, hurt>>
    BY <1>0, <1>1, LookDoes
  <2>2. at[w] = "look" /\ at'[w] = "read" /\ task' = task /\ w \in Active
    BY <2>1, ActiveParts DEF Within
  <2>3. todo'[w] # <<>>
    BY <2>1
  <2>4. StageOK(w)'
    BY <1>0, <2>1, <2>2, <2>3 DEF StageOK
  <2>. QED
    BY <2>1, <2>2, <2>4, WithinBase
<1>2. CASE CheckRestore(w)
  <2>1. /\ ConfigTypeOK' /\ Within(w, "check", at'[w])
        /\ at'[w] = IF NeedsRestore THEN "create" ELSE "done"
        /\ UNCHANGED <<file, kept, todo, buf, fd, hurt>>
    BY <1>0, <1>2, CheckDoes
  <2>2. at[w] = "check" /\ task' = task /\ w \in Active
    BY <2>1, ActiveParts DEF Within
  <2>3. StageOK(w)'
    BY <1>0, <2>1, <2>2 DEF StageOK
  <2>. QED
    BY <2>1, <2>2, <2>3, WithinBase
<1>3. CASE CreateOrRecheck(w)
  <2>1. /\ ConfigTypeOK' /\ Within(w, "create", at'[w])
        /\ at'[w] \in {"put", "swapin", "done"}
        /\ file.state = "missing" => file' = Fine(Nothing) /\ fd'[w] = "own"
        /\ file.state # "missing" => UNCHANGED <<file, buf, fd>>
        /\ UNCHANGED <<kept, todo, hurt>>
    BY <1>0, <1>3, CreateDoes
  <2>2. at[w] = "create" /\ task' = task /\ w \in Active
    BY <2>1, ActiveParts DEF Within
  <2>3. StageOK(w)'
    BY <1>0, <2>1, <2>2 DEF StageOK
  <2>4. file' = file \/ \E c \in Content : file' = Fine(c)
    BY <1>0, <2>1
  <2>5. fd'[w] \in {"shared", "gone"} => fd[w] \in {"shared", "gone"}
    BY <2>1
  <2>. QED
    BY <2>1, <2>2, <2>3, <2>4, <2>5, WithinBase
<1>4. CASE SwapTemplateIn(w)
  <2>1. /\ ConfigTypeOK' /\ Within(w, "swapin", "done")
        /\ file' = Fine(Template) /\ fd'[w] = fd[w]
    BY <1>0, <1>4, SwapInDoes
  <2>2. at[w] = "swapin" /\ at'[w] = "done" /\ task' = task /\ w \in Active
    BY <2>1, ActiveParts DEF Within
  <2>3. StageOK(w)'
    BY <2>2 DEF StageOK
  <2>. QED
    BY <1>0, <2>1, <2>2, <2>3, WithinBase
<1>5. CASE Stop(w)
  <2>1. /\ ConfigTypeOK' /\ Within(w, at[w], "stopped") /\ w \in Active
        /\ UNCHANGED <<file, kept, fd, hurt>>
    BY <1>0, <1>5, StopDoes
  <2>2. at'[w] = "stopped"
    BY <2>1 DEF Within
  <2>3. StageOK(w)'
    BY <2>2 DEF StageOK
  <2>. QED
    BY <2>1, <2>3, WithinBase
<1>. QED
  BY <1>1, <1>2, <1>3, <1>4, <1>5 DEF EnsureStep

LEMMA InitBase == ConfigInit => BaseInv
PROOF
<1>. SUFFICES ASSUME ConfigInit
              PROVE  BaseInv
  OBVIOUS
<1>1. TypeFile
  BY Contents, Files DEF ConfigInit, TypeFile
<1>2. TypeProgress /\ TypeMarks
  <2>1. Restore \in Tasks /\ <<>> \in Seq(Edit)
    BY DEF Tasks
  <2>. QED
    BY <2>1 DEF ConfigInit, TypeProgress, TypeMarks, Stages
<1>3. \A w \in Writers : StageOK(w)
  <2>1. ASSUME NEW w \in Writers
        PROVE  at[w] = "idle" /\ task[w] = Restore /\ alone[w]
    BY DEF ConfigInit
  <2>. QED
    BY <2>1 DEF StageOK
<1>4. Overlap
  BY DEF ConfigInit, Overlap, Active
<1>5. FileOK
  BY Contents, Files DEF ConfigInit, FileOK
<1>. QED
  BY <1>1, <1>2, <1>3, <1>4, <1>5, ConfigTypeParts DEF BaseInv

LEMMA StutterBase ==
  ASSUME BaseInv, UNCHANGED configVars
  PROVE  BaseInv'
BY Zenon DEF BaseInv, ConfigTypeOK, StageOK, Overlap, FileOK, Active, AfterEdit

-----------------------------------------------------------------------------
(* An empty configuration has a cause.                                     *)
AtWork(w) == EditStep(w) \/ InPlaceStep(w) \/ EnsureStep(w) \/ Stop(w)

(* Whoever takes a step is at work.                                        *)
LEMMA WorkWithin ==
  ASSUME BaseInv, NEW w \in Writers, AtWork(w)
  PROVE  Within(w, at[w], at'[w]) /\ w \in Active
PROOF
<1>0. ConfigTypeOK /\ StageOK(w)
  BY DEF BaseInv
<1>1. CASE EditStep(w)
  BY <1>0, <1>1, ReadLinesDoes, ReplaceDoes, EditFailsDoes, ActiveParts DEF EditStep, Within
<1>2. CASE InPlaceStep(w)
  BY <1>0, <1>2, FindLineDoes, OpenInPlaceDoes, LoadCopyDoes, LoadIgnoredDoes, OpenCopyDoes, PutDoes, ActiveParts
     DEF InPlaceStep, Within
<1>3. CASE EnsureStep(w)
  BY <1>0, <1>3, LookDoes, CheckDoes, CreateDoes, SwapInDoes, ActiveParts DEF EnsureStep, Within
<1>4. CASE Stop(w)
  BY <1>0, <1>4, StopDoes DEF Within
<1>. QED
  BY <1>1, <1>2, <1>3, <1>4 DEF AtWork

(* Damage done in place is not undone: its cause stays on record.          *)
LEMMA DamageStays ==
  ASSUME BaseInv, NEW w \in Writers, Begin(w) \/ AtWork(w), InPlaceDamage
  PROVE  InPlaceDamage'
PROOF
<1>1. PICK v \in Writers :
        task[v].style # "edit" /\ (at[v] = "stopped" \/ ~alone[v])
  BY Zenon DEF InPlaceDamage
<1>2. CASE AtWork(w)
  <2>1. Within(w, at[w], at'[w]) /\ at[w] # "stopped"
    BY <1>2, WorkWithin, ActiveParts
  <2>2. task'[v] = task[v] /\ (alone'[v] <=> alone[v])
    BY <2>1, Zenon DEF Within
  <2>3. at[v] = "stopped" => at'[v] = "stopped"
    BY <2>1 DEF Within, Apart
  <2>. QED
    BY <1>1, <2>2, <2>3, Zenon DEF InPlaceDamage
<1>3. CASE Begin(w)
  <2>1. /\ Apart(w) /\ at[w] = "idle"
        /\ \A u \in Writers \ {w} : alone'[u] <=> alone[u] /\ u \notin Active
    BY <1>3, BeginDoes DEF BaseInv
  <2>2. alone[w]
    BY <2>1, Zenon DEF BaseInv, StageOK
  <2>3. v # w
    BY <1>1, <2>1, <2>2
  <2>4. task'[v] = task[v] /\ at'[v] = at[v]
    BY <2>1, <2>3 DEF Apart
  <2>5. alone'[v] => alone[v]
    BY <2>1, <2>3, Zenon
  <2>. QED
    BY <1>1, <2>4, <2>5, Zenon DEF InPlaceDamage
<1>. QED
  BY <1>2, <1>3

(* A writer that has the file open is alone, or damage may be done.        *)
LEMMA PutAlone ==
  ASSUME BaseInv, ~InPlaceDamage, NEW u \in Writers, at[u] = "put"
  PROVE  /\ alone[u] /\ fd[u] \notin {"shared", "gone"}
         /\ \A v \in Active : v = u
PROOF
<1>1. task[u].style # "edit"
  BY DEF BaseInv, StageOK
<1>2. alone[u]
  BY <1>1, Zenon DEF InPlaceDamage
<1>3. fd[u] \notin {"shared", "gone"}
  BY <1>2, Zenon DEF BaseInv, Overlap
<1>4. u \in Active
  BY ActiveParts
<1>. QED
  BY <1>2, <1>3, <1>4, Zenon DEF BaseInv, Overlap

(* The configuration is not empty when a writer that is not at the writing *)
(* of it looks at it.                                                      *)
LEMMA SeenFilled ==
  ASSUME Inv, ~InPlaceDamage, NEW w \in Active, at[w] # "put", file.state # "missing"
  PROVE  file.opt # Nothing /\ file.state # "garbled"
PROOF
<1>1. ~ \E u \in Writers : at[u] = "put"
  BY PutAlone DEF Inv
<1>2. file.opt # Nothing
  BY <1>1, Zenon DEF Inv, BlankHasCause, EmptyHasCause
<1>3. file.state = "garbled" => file.opt = Nothing
  BY DEF Inv, BaseInv, FileOK
<1>. QED
  BY <1>2, <1>3

(* BlankHasCause stays if the step writes something, or is about to.       *)
LEMMA BlankStep ==
  ASSUME Inv, NEW w \in Writers, Begin(w) \/ AtWork(w), Apart(w),
         ~InPlaceDamage' =>
           /\ (file' = file /\ at[w] # "put") \/ file'.opt # Nothing \/ at'[w] = "put"
           /\ at'[w] \in {"swap", "put"} => buf'[w] # Nothing
  PROVE  BlankHasCause'
PROOF
<1>. SUFFICES ASSUME ~InPlaceDamage'
              PROVE  /\ (file'.opt = Nothing /\ file'.state # "missing") =>
                            \E v \in Writers : at'[v] = "put"
                     /\ \A v \in Writers : ~(at'[v] \in {"swap", "put"} /\ buf'[v] = Nothing)
  BY Zenon DEF BlankHasCause, EmptyHasCause
<1>1. ~InPlaceDamage
  BY DamageStays DEF Inv
<1>2. /\ (file.opt = Nothing /\ file.state # "missing") => \E v \in Writers : at[v] = "put"
      /\ \A v \in Writers : ~(at[v] \in {"swap", "put"} /\ buf[v] = Nothing)
  BY <1>1, Zenon DEF Inv, BlankHasCause, EmptyHasCause
<1>3. ASSUME file'.opt = Nothing, file'.state # "missing"
      PROVE  \E v \in Writers : at'[v] = "put"
  <2>1. CASE file' = file /\ at[w] # "put"
    BY <1>2, <1>3, <2>1 DEF Apart
  <2>2. CASE at'[w] = "put"
    BY <2>2
  <2>. QED
    BY <1>3, <2>1, <2>2
<1>4. ASSUME NEW v \in Writers
      PROVE  ~(at'[v] \in {"swap", "put"} /\ buf'[v] = Nothing)
  BY <1>2 DEF Apart
<1>. QED
  BY <1>3, <1>4

LEMMA BeginBlank ==
  ASSUME Inv, NEW w \in Writers, Begin(w)
  PROVE  BlankHasCause'
PROOF
<1>1. /\ Apart(w) /\ file' = file
      /\ \E t \in Tasks : at[w] = "idle" /\ at'[w] = FirstStep(t.style)
  BY BeginDoes DEF Inv, BaseInv
<1>2. at[w] # "put" /\ at'[w] \notin {"swap", "put"}
  BY <1>1 DEF FirstStep
<1>. QED
  BY <1>1, <1>2, BlankStep

LEMMA EditBlank ==
  ASSUME Inv, NEW w \in Writers, EditStep(w)
  PROVE  BlankHasCause'
PROOF
<1>0. ConfigTypeOK /\ StageOK(w) /\ TypeFile
  BY ConfigTypeParts DEF Inv, BaseInv
<1>1. AtWork(w) /\ Within(w, at[w], at'[w]) /\ w \in Active /\ Apart(w)
  BY WorkWithin DEF AtWork, Inv, Within
<1>2. ~InPlaceDamage' => ~InPlaceDamage
  BY <1>1, DamageStays DEF Inv
<1>3. CASE ReadLines(w)
  <2>1. /\ at[w] = "read" /\ at'[w] = "swap"
        /\ buf'[w] = IF file.state = "garbled" THEN Nothing ELSE Edited(file.opt, Head(todo[w]))
        /\ file' = file /\ file.state # "missing"
    BY <1>0, <1>3, ReadLinesDoes DEF Within
  <2>2. Edited(file.opt, Head(todo[w])) # Nothing
    <3>1. Head(todo[w]) \in Edit
      BY <1>0, <2>1, HeadTail, ConfigTypeParts DEF StageOK, TypeProgress
    <3>2. file.opt \in Content
      BY <1>0 DEF TypeFile, FileType
    <3>. QED
      BY <3>1, <3>2, EditedContent
  <2>3. ~InPlaceDamage => file.state # "garbled"
    BY <1>1, <2>1, SeenFilled
  <2>. QED
    BY <1>1, <1>2, <2>1, <2>2, <2>3, BlankStep
<1>4. CASE Replace(w)
  <2>1. /\ at[w] = "swap" /\ at'[w] \in {"read", "done"}
        /\ file' = IF buf[w] = Nothing THEN Garbled ELSE Fine(buf[w])
    BY <1>0, <1>4, ReplaceDoes, AfterEdits DEF Within
  <2>2. ~InPlaceDamage => buf[w] # Nothing
    BY <2>1, Zenon DEF Inv, BlankHasCause
  <2>3. Fine(buf[w]).opt = buf[w]
    BY DEF Fine
  <2>. QED
    BY <1>1, <1>2, <2>1, <2>2, <2>3, BlankStep
<1>5. CASE EditFails(w)
  <2>1. at[w] \in {"read", "swap"} /\ at'[w] \in {"stopped", "read", "done"} /\ file' = file
    BY <1>0, <1>5, EditFailsDoes, AfterEdits
  <2>. QED
    BY <1>1, <2>1, BlankStep
<1>. QED
  BY <1>3, <1>4, <1>5 DEF EditStep

LEMMA InPlaceBlank ==
  ASSUME Inv, NEW w \in Writers, InPlaceStep(w)
  PROVE  BlankHasCause'
PROOF
<1>0. ConfigTypeOK /\ StageOK(w) /\ TypeFile /\ BaseInv
  BY ConfigTypeParts DEF Inv, BaseInv
<1>1. AtWork(w) /\ Within(w, at[w], at'[w]) /\ w \in Active /\ Apart(w)
  BY WorkWithin DEF AtWork, Inv, Within
<1>2. ~InPlaceDamage' => ~InPlaceDamage
  BY <1>1, DamageStays DEF Inv
<1>3. CASE FindLine(w)
  <2>1. at[w] = "read" /\ at'[w] \in {"stopped", "open"} /\ file' = file
    BY <1>0, <1>3, FindLineDoes DEF Within
  <2>. QED
    BY <1>1, <2>1, BlankStep
<1>4. CASE OpenInPlace(w)
  <2>1. /\ at[w] = "open" /\ at'[w] = "put" /\ file.state # "missing"
        /\ buf'[w] = Rewritten(file.opt, Head(todo[w]), Found(Head(todo[w]).opt, buf[w]))
    BY <1>0, <1>4, OpenInPlaceDoes DEF Within
  <2>2. Head(todo[w]) \in Edit /\ file.opt \in Content
    BY <1>0, <2>1, HeadTail, ConfigTypeParts DEF StageOK, TypeProgress, TypeFile, FileType
  <2>3. ~InPlaceDamage => file.opt # Nothing
    BY <1>1, <2>1, SeenFilled
  <2>4. ~InPlaceDamage => buf'[w] # Nothing
    BY <2>1, <2>2, <2>3, RewrittenContent
  <2>. QED
    BY <1>1, <1>2, <2>1, <2>4, BlankStep
<1>5. CASE LoadCopy(w)
  <2>1. at[w] = "read" /\ at'[w] = "open" /\ file' = file
    BY <1>0, <1>5, LoadCopyDoes DEF Within
  <2>. QED
    BY <1>1, <2>1, BlankStep
<1>6. CASE OpenCopy(w)
  <2>1. /\ at[w] = "open" /\ at'[w] = "put" /\ buf'[w] = Edited(buf[w], Head(todo[w]))
    BY <1>0, <1>6, OpenCopyDoes DEF Within
  <2>2. Head(todo[w]) \in Edit /\ buf[w] \in Content
    BY <1>0, <2>1, HeadTail, ConfigTypeParts DEF StageOK, TypeProgress, TypeFile
  <2>. QED
    BY <1>1, <2>1, <2>2, EditedContent, BlankStep
<1>7. CASE Put(w)
  <2>1. /\ at[w] = "put" /\ at'[w] = "done"
        /\ fd[w] # "gone" => file' = Fine(buf[w]) \/ (fd[w] = "shared" /\ file' = Garbled)
    BY <1>0, <1>7, PutDoes DEF Within
  <2>2. ~InPlaceDamage => fd[w] \notin {"shared", "gone"}
    BY <1>0, <2>1, PutAlone
  <2>3. ~InPlaceDamage => buf[w] # Nothing
    BY <2>1, Zenon DEF Inv, BlankHasCause
  <2>4. Fine(buf[w]).opt = buf[w]
    BY DEF Fine
  <2>. QED
    BY <1>1, <1>2, <2>1, <2>2, <2>3, <2>4, BlankStep
<1>8. CASE LoadIgnored(w)
  <2>1. at[w] = "read" /\ at'[w] \in {"open", "done"} /\ file' = file
    BY <1>0, <1>8, LoadIgnoredDoes DEF Within
  <2>. QED
    BY <1>1, <2>1, BlankStep
<1>. QED
  BY <1>3, <1>4, <1>5, <1>6, <1>7, <1>8 DEF InPlaceStep

LEMMA EnsureBlank ==
  ASSUME Inv, NEW w \in Writers, EnsureStep(w) \/ Stop(w)
  PROVE  BlankHasCause'
PROOF
<1>0. ConfigTypeOK /\ StageOK(w) /\ BaseInv
  BY DEF Inv, BaseInv
<1>1. AtWork(w) /\ Within(w, at[w], at'[w]) /\ w \in Active /\ Apart(w)
  BY WorkWithin DEF AtWork, Inv, Within
<1>2. CASE LookForConfirmations(w)
  <2>1. at[w] = "look" /\ at'[w] = "read" /\ file' = file
    BY <1>0, <1>2, LookDoes DEF Within
  <2>. QED
    BY <1>1, <2>1, BlankStep
<1>3. CASE CheckRestore(w)
  <2>1. at[w] = "check" /\ at'[w] \in {"create", "done"} /\ file' = file
    BY <1>0, <1>3, CheckDoes DEF Within
  <2>. QED
    BY <1>1, <2>1, BlankStep
<1>4. CASE CreateOrRecheck(w)
  <2>1. /\ at[w] = "create" /\ at'[w] \in {"put", "swapin", "done"}
        /\ at'[w] = "put" <=> file.state = "missing"
        /\ file.state = "missing" => buf'[w] = Template
        /\ file.state # "missing" => file' = file
    BY <1>0, <1>4, CreateDoes DEF Within
  <2>. QED
    BY <1>1, <2>1, Contents, BlankStep
<1>5. CASE SwapTemplateIn(w)
  <2>1. at'[w] = "done" /\ file' = Fine(Template)
    BY <1>0, <1>5, SwapInDoes DEF Within
  <2>2. file'.opt # Nothing
    BY <2>1, Contents DEF Fine
  <2>. QED
    BY <1>1, <2>1, <2>2, BlankStep
<1>6. CASE Stop(w)
  <2>1. at'[w] = "stopped" /\ file' = file /\ task' = task
    BY <1>0, <1>6, StopDoes DEF Within
  <2>2. ASSUME at[w] = "put"
        PROVE  InPlaceDamage'
    <3>1. task[w].style # "edit"
      BY <1>0, <2>2 DEF StageOK
    <3>. QED
      BY <2>1, <3>1, Zenon DEF InPlaceDamage
  <2>. QED
    BY <1>1, <2>1, <2>2, BlankStep
<1>. QED
  BY <1>2, <1>3, <1>4, <1>5, <1>6 DEF EnsureStep

LEMMA InitBlank == ConfigInit => BlankHasCause
PROOF
<1>. SUFFICES ASSUME ConfigInit
              PROVE  BlankHasCause
  OBVIOUS
<1>1. file \in {Missing, Fine(Template), Fine(Older)} /\ \A w \in Writers : at[w] = "idle"
  BY DEF ConfigInit
<1>2. file.opt = Nothing => file.state = "missing"
  BY <1>1, Contents, Files
<1>. QED
  BY <1>1, <1>2 DEF BlankHasCause, EmptyHasCause

(* BaseInv and BlankHasCause hold always.                                  *)
LEMMA InvInvariant == ConfigSpec => []Inv
PROOF
<1>1. ConfigInit => Inv
  BY InitBase, InitBlank DEF Inv
<1>2. Inv /\ [ConfigNext]_configVars => Inv'
  <2>. SUFFICES ASSUME Inv, [ConfigNext]_configVars
                PROVE  Inv'
    OBVIOUS
  <2>1. ASSUME NEW w \in Writers, Begin(w) \/ EditStep(w) \/ InPlaceStep(w) \/ EnsureStep(w) \/ Stop(w)
        PROVE  Inv'
    <3>1. BaseInv'
      BY <2>1, BeginBase, EditBase, InPlaceBase, EnsureBase DEF Inv
    <3>2. BlankHasCause'
      BY <2>1, BeginBlank, EditBlank, InPlaceBlank, EnsureBlank
    <3>. QED
      BY <3>1, <3>2 DEF Inv
  <2>2. CASE UNCHANGED configVars
    <3>1. BaseInv'
      BY <2>2, StutterBase DEF Inv
    <3>2. BlankHasCause'
      BY <2>2, Zenon DEF Inv, BlankHasCause, EmptyHasCause, InPlaceDamage
    <3>. QED
      BY <3>1, <3>2 DEF Inv
  <2>. QED
    BY <2>1, <2>2 DEF ConfigNext
<1>. QED
  BY <1>1, <1>2, PTL DEF ConfigSpec

(* What a writer is about to write of the options it has not missed stays  *)
(* right while another steps.                                              *)
LEMMA LookSees ==
  ASSUME NEW w \in Writers, Look(w)
  PROVE  /\ missed'[w] = {o \in Options : file.opt[o] # kept[o]}
         /\ \A v \in Writers \ {w} : missed'[v] = missed[v]
         /\ HistoryOK => HistoryOK'
BY DEF Look, HistoryOK

LEMMA OvertakeAdds ==
  ASSUME NEW w \in Writers, Overtake(w)
  PROVE  /\ \A v \in Writers \ {w} :
              at[v] \in {"swap", "open", "put", "create", "swapin"} =>
                missed[v] \subseteq missed'[v] /\ \A o \in Options \ missed'[v] : kept'[o] = kept[o]
         /\ HistoryOK => HistoryOK'
BY DEF Overtake, HistoryOK

LEMMA KnownOthers ==
  ASSUME ConfigTypeOK, ConfigTypeOK', NEW w \in Writers, Apart(w), NEW v \in Writers \ {w}, Known(v),
         \/ kept' = kept /\ missed'[v] = missed[v]
         \/ Overtake(w)
  PROVE  Known(v)'
PROOF
<1>1. at'[v] = at[v] /\ task'[v] = task[v] /\ todo'[v] = todo[v] /\ buf'[v] = buf[v]
  BY DEF Apart
<1>2. CASE kept' = kept /\ missed'[v] = missed[v]
  BY <1>1, <1>2, Zenon DEF Known, Edited
<1>3. CASE Overtake(w)
  <2>1. CASE at[v] \notin {"swap", "open", "put", "swapin"}
    BY <1>1, <2>1 DEF Known
  <2>2. CASE at[v] \in {"swap", "open", "put", "swapin"}
    <3>1. \A o \in Options \ missed'[v] : o \in Options \ missed[v] /\ kept'[o] = kept[o]
      BY <1>3, <2>2, OvertakeAdds
    <3>2. kept \in [Options -> Settings \union {Absent}] /\ kept' \in [Options -> Settings \union {Absent}]
      BY ConfigTypeParts, SettingValues DEF TypeFile
    <3>3. \A o \in Options \ missed'[v] : Edited(kept', Head(todo[v]))[o] = Edited(kept, Head(todo[v]))[o]
      BY <3>1, <3>2 DEF Edited
    <3>4. at[v] = "swap" /\ buf[v] # Nothing =>
            \A o \in Options \ missed'[v] : buf[v][o] = Edited(kept', Head(todo[v]))[o]
      BY <3>1, <3>3, Zenon DEF Known
    <3>5. at[v] = "open" /\ task[v].style # "set" => \A o \in Options \ missed'[v] : buf[v][o] = kept'[o]
      BY <3>1, Zenon DEF Known
    <3>6. at[v] = "put" /\ task[v].style \in {"copy", "upgrade"} =>
            \A o \in Options \ missed'[v] : buf[v][o] = Edited(kept', Head(todo[v]))[o]
      BY <3>1, <3>3, Zenon DEF Known
    <3>7. at[v] = "put" /\ task[v].style = "set" =>
            \A o \in Options \ missed'[v] :
               buf[v][o] # kept'[o] => o \in Namesakes(Head(todo[v]).opt) /\ buf[v][o] = Head(todo[v]).val
      BY <3>1, Zenon DEF Known
    <3>8. at[v] = "swapin" \/ (at[v] = "put" /\ task[v] = Restore) =>
            \A o \in Options \ missed'[v] : kept'[o] = Absent
      BY <3>1, Zenon DEF Known
    <3>. QED
      BY <1>1, <3>4, <3>5, <3>6, <3>7, <3>8, Zenon DEF Known
  <2>. QED
    BY <2>1, <2>2
<1>. QED
  BY <1>2, <1>3

(* What a step does to what the others have missed.                        *)
LEMMA MissedSteps ==
  ASSUME NEW w \in Writers, Begin(w) \/ AtWork(w)
  PROVE  /\ Overtake(w) \/ (kept' = kept /\ \A v \in Writers \ {w} : missed'[v] = missed[v])
         /\ HistoryOK => HistoryOK'
PROOF
<1>1. Look(w) \/ Overtake(w) \/ missed' = missed
  BY DEF Begin, AtWork, EditStep, InPlaceStep, EnsureStep, ReadLines, Replace, EditFails, FindLine,
         OpenInPlace, LoadCopy, LoadIgnored, OpenCopy, Put, LookForConfirmations, CheckRestore,
         CreateOrRecheck, SwapTemplateIn, Stop
<1>2. Overtake(w) \/ kept' = kept
  BY DEF Begin, AtWork, EditStep, InPlaceStep, EnsureStep, ReadLines, Replace, EditFails, FindLine,
         OpenInPlace, LoadCopy, LoadIgnored, OpenCopy, Put, LookForConfirmations, CheckRestore,
         CreateOrRecheck, SwapTemplateIn, Stop
<1>3. HistoryOK /\ missed' = missed => HistoryOK'
  BY DEF HistoryOK
<1>. QED
  BY <1>1, <1>2, <1>3, LookSees, OvertakeAdds

(* The writer that steps knows what it has read.                           *)
LEMMA KnownEdit ==
  ASSUME Inv, NEW w \in Writers, Known(w), EditStep(w)
  PROVE  Known(w)'
PROOF
<1>0. ConfigTypeOK /\ StageOK(w) /\ TypeFile
  BY ConfigTypeParts DEF Inv, BaseInv
<1>1. CASE ReadLines(w)
  <2>1. /\ at'[w] = "swap" /\ UNCHANGED <<kept, todo>>
        /\ buf'[w] = IF file.state = "garbled" THEN Nothing ELSE Edited(file.opt, Head(todo[w]))
    BY <1>0, <1>1, ReadLinesDoes DEF Within
  <2>2. \A o \in Options \ missed'[w] : file.opt[o] = kept[o]
    BY <1>1, LookSees DEF ReadLines
  <2>3. file.opt \in Content /\ kept \in Content
    BY <1>0 DEF TypeFile, FileType
  <2>4. \A o \in Options \ missed'[w] : Edited(file.opt, Head(todo[w]))[o] = Edited(kept, Head(todo[w]))[o]
    BY <2>2, <2>3, SettingValues DEF Edited
  <2>. QED
    BY <2>1, <2>4 DEF Known
<1>2. CASE Replace(w) \/ EditFails(w)
  <2>1. at'[w] \in {"stopped", "read", "done"}
    BY <1>0, <1>2, ReplaceDoes, EditFailsDoes, AfterEdits DEF Within
  <2>. QED
    BY <2>1 DEF Known
<1>. QED
  BY <1>1, <1>2 DEF EditStep

LEMMA KnownInPlace ==
  ASSUME Inv, NEW w \in Writers, Known(w), InPlaceStep(w)
  PROVE  Known(w)'
PROOF
<1>0. ConfigTypeOK /\ StageOK(w) /\ TypeFile /\ kept \in Content /\ file.opt \in Content /\ buf[w] \in Content
  BY ConfigTypeParts DEF Inv, BaseInv, TypeFile, FileType
<1>1. CASE FindLine(w)
  <2>1. at'[w] \in {"stopped", "open"} /\ task'[w] = task[w] /\ task[w].style = "set"
    BY <1>0, <1>1, FindLineDoes DEF Within
  <2>. QED
    BY <2>1 DEF Known
<1>2. CASE OpenInPlace(w)
  <2>1. /\ at[w] = "open" /\ at'[w] = "put" /\ task' = task /\ UNCHANGED <<kept, todo>> /\ task[w].style = "set"
        /\ buf'[w] = Rewritten(file.opt, Head(todo[w]), Found(Head(todo[w]).opt, buf[w]))
    BY <1>0, <1>2, OpenInPlaceDoes DEF Within
  <2>2. \A o \in Options \ missed'[w] : file.opt[o] = kept[o]
    BY <1>2, LookSees DEF OpenInPlace
  <2>3. Head(todo[w]) \in Edit
    BY <1>0, <2>1, HeadTail, ConfigTypeParts DEF StageOK, TypeProgress
  <2>4. \A o \in Options \ missed'[w] :
           buf'[w][o] # kept[o] => o \in Namesakes(Head(todo[w]).opt) /\ buf'[w][o] = Head(todo[w]).val
    BY <1>0, <2>1, <2>2, <2>3, RewrittenContent
  <2>5. task[w] # Restore
    BY <2>1 DEF Restore, Work
  <2>. QED
    BY <2>1, <2>4, <2>5 DEF Known
<1>3. CASE LoadCopy(w) \/ LoadIgnored(w)
  <2>1. /\ at'[w] \in {"open", "done"} /\ UNCHANGED <<kept, todo>> /\ buf'[w] = file.opt
    BY <1>0, <1>3, LoadCopyDoes, LoadIgnoredDoes DEF Within
  <2>2. \A o \in Options \ missed'[w] : file.opt[o] = kept[o]
    BY <1>3, LookSees DEF LoadCopy, LoadIgnored
  <2>. QED
    BY <2>1, <2>2 DEF Known
<1>4. CASE OpenCopy(w)
  <2>1. /\ at[w] = "open" /\ at'[w] = "put" /\ task' = task /\ UNCHANGED <<kept, todo>>
        /\ buf'[w] = Edited(buf[w], Head(todo[w])) /\ task[w].style \in {"copy", "upgrade"}
    BY <1>0, <1>4, OpenCopyDoes DEF Within
  <2>2. missed' = missed /\ \A o \in Options \ missed[w] : buf[w][o] = kept[o]
    BY <1>4, <2>1 DEF OpenCopy, Known
  <2>3. \A o \in Options \ missed'[w] : buf'[w][o] = Edited(kept, Head(todo[w]))[o]
    BY <1>0, <2>1, <2>2, SettingValues DEF Edited
  <2>4. task[w] # Restore
    BY <2>1 DEF Restore, Work
  <2>. QED
    BY <2>1, <2>3, <2>4 DEF Known
<1>5. CASE Put(w)
  <2>1. at'[w] = "done"
    BY <1>0, <1>5, PutDoes DEF Within
  <2>. QED
    BY <2>1 DEF Known
<1>. QED
  BY <1>1, <1>2, <1>3, <1>4, <1>5 DEF InPlaceStep

LEMMA KnownEnsure ==
  ASSUME Inv, NEW w \in Writers, Known(w), EnsureStep(w) \/ Stop(w) \/ Begin(w)
  PROVE  Known(w)'
PROOF
<1>0. ConfigTypeOK /\ StageOK(w) /\ FileOK
  BY DEF Inv, BaseInv
<1>1. CASE LookForConfirmations(w) \/ CheckRestore(w) \/ SwapTemplateIn(w) \/ Stop(w) \/ Begin(w)
  <2>1. at'[w] \in {"read", "create", "check", "look", "done", "stopped"}
    BY <1>0, <1>1, LookDoes, CheckDoes, SwapInDoes, StopDoes, BeginDoes DEF Within, FirstStep
  <2>. QED
    BY <2>1 DEF Known
<1>2. CASE CreateOrRecheck(w)
  <2>1. /\ at[w] = "create" /\ at'[w] \in {"put", "swapin", "done"} /\ task' = task /\ kept' = kept
        /\ at'[w] = "put" => file.state = "missing"
        /\ at'[w] = "swapin" => NeedsRestore
    BY <1>0, <1>2, CreateDoes DEF Within
  <2>2. \A o \in Options \ missed'[w] : file.opt[o] = kept[o]
    BY <1>2, LookSees DEF CreateOrRecheck
  <2>3. at'[w] \in {"put", "swapin"} => file.opt = Nothing
    BY <1>0, <2>1 DEF NeedsRestore, FileOK
  <2>4. at'[w] \in {"put", "swapin"} => \A o \in Options \ missed'[w] : kept'[o] = Absent
    BY <2>1, <2>2, <2>3, Contents
  <2>5. task'[w].style = "restore"
    BY <1>0, <2>1 DEF StageOK, Restore, Work
  <2>. QED
    BY <2>1, <2>4, <2>5 DEF Known
<1>. QED
  BY <1>1, <1>2 DEF EnsureStep

LEMMA InitKnown == ConfigInit => KnownInv
BY DEF ConfigInit, KnownInv, HistoryOK, Known

LEMMA KnownInvariant == ConfigSpec => [](Inv /\ KnownInv)
PROOF
<1>1. Inv /\ Inv' /\ KnownInv /\ [ConfigNext]_configVars => KnownInv'
  <2>. SUFFICES ASSUME Inv, Inv', KnownInv, [ConfigNext]_configVars
                PROVE  KnownInv'
    OBVIOUS
  <2>1. ASSUME NEW w \in Writers, Begin(w) \/ AtWork(w)
        PROVE  KnownInv'
    <3>1. Apart(w) /\ ConfigTypeOK /\ ConfigTypeOK'
      BY <2>1, BeginDoes, WorkWithin DEF Inv, BaseInv, Within
    <3>2. Known(w)'
      BY <2>1, KnownEdit, KnownInPlace, KnownEnsure DEF AtWork, KnownInv
    <3>3. \A v \in Writers \ {w} : Known(v)'
      BY <2>1, <3>1, MissedSteps, KnownOthers DEF KnownInv
    <3>. QED
      BY <2>1, <3>2, <3>3, MissedSteps DEF KnownInv
  <2>2. CASE UNCHANGED configVars
    BY <2>2, Zenon DEF KnownInv, HistoryOK, Known
  <2>. QED
    BY <2>1, <2>2 DEF ConfigNext, AtWork
<1>. QED
  BY <1>1, InitKnown, InvInvariant, PTL DEF ConfigSpec

(* The configuration is empty or unreadable only while a writer that works *)
(* in place has it open, or after one was stopped or overlapped another.   *)
THEOREM WriterInvHolds == ConfigSpec => []WriterInv
PROOF
<1>1. Inv /\ KnownInv => WriterInv
  BY DEF Inv, BaseInv, BlankHasCause, KnownInv, WriterInv
<1>. QED
  BY <1>1, KnownInvariant, PTL

-----------------------------------------------------------------------------
(* Who changes an option, and why.                                         *)
Cause(w, o) ==
  \/ todo[w] # <<>> /\ Head(todo[w]) = E(o, kept'[o])
  \/ task[w].style = "set" /\ Head(todo[w]).val = kept'[o]
       /\ o \in Namesakes(Head(todo[w]).opt)
  \/ task[w] = Restore /\ kept[o] = Absent
  \/ o \in missed[w]

(* An edit changes its own option only.                                    *)
LEMMA EditedCause ==
  ASSUME ConfigTypeOK, NEW w \in Writers, todo[w] # <<>>, NEW o \in Options, kept'[o] # kept[o],
         kept'[o] = Edited(kept, Head(todo[w]))[o]
  PROVE  Cause(w, o)
PROOF
<1>1. Head(todo[w]) \in Edit /\ kept \in Content
  BY HeadTail, ConfigTypeParts DEF TypeProgress, TypeFile
<1>2. o = Head(todo[w]).opt /\ kept'[o] = Head(todo[w]).val
  BY <1>1, EditedContent
<1>3. Head(todo[w]) = E(o, kept'[o])
  BY <1>1, <1>2, EditParts
<1>. QED
  BY <1>3 DEF Cause

LEMMA ReplaceCause ==
  ASSUME Inv, NEW w \in Writers, Known(w), Replace(w), NEW o \in Options, kept'[o] # kept[o]
  PROVE  Cause(w, o)
PROOF
<1>0. ConfigTypeOK /\ StageOK(w)
  BY DEF Inv, BaseInv
<1>1. at[w] = "swap" /\ todo[w] # <<>> /\ kept' = IF buf[w] = Nothing THEN kept ELSE buf[w]
  BY <1>0, ReplaceDoes DEF Within
<1>2. buf[w] # Nothing /\ kept' = buf[w]
  BY <1>1
<1>3. CASE o \in missed[w]
  BY <1>3 DEF Cause
<1>4. CASE o \notin missed[w]
  <2>1. kept'[o] = Edited(kept, Head(todo[w]))[o]
    BY <1>1, <1>2, <1>4, Zenon DEF Known
  <2>. QED
    BY <1>0, <1>1, <2>1, EditedCause
<1>. QED
  BY <1>3, <1>4

LEMMA PutCause ==
  ASSUME Inv, NEW w \in Writers, Known(w), Put(w), NEW o \in Options, kept'[o] # kept[o]
  PROVE  Cause(w, o)
PROOF
<1>0. ConfigTypeOK /\ StageOK(w) /\ task[w] \in Tasks
  BY ConfigTypeParts DEF Inv, BaseInv, TypeProgress
<1>1. at[w] = "put" /\ kept' = buf[w]
  BY <1>0, PutDoes DEF Within
<1>2. /\ task[w].style \in {"set", "copy", "upgrade", "restore"}
      /\ task[w].style # "restore" => todo[w] # <<>>
      /\ task[w].style = "restore" <=> task[w] = Restore
  BY <1>0, <1>1, TaskStyles DEF StageOK
<1>3. CASE o \in missed[w]
  BY <1>3 DEF Cause
<1>4. CASE o \notin missed[w] /\ task[w].style \in {"copy", "upgrade"}
  <2>1. kept'[o] = Edited(kept, Head(todo[w]))[o]
    BY <1>1, <1>4, Zenon DEF Known
  <2>. QED
    BY <1>0, <1>2, <1>4, <2>1, EditedCause
<1>5. CASE o \notin missed[w] /\ task[w].style = "set"
  BY <1>1, <1>5, Zenon DEF Known, Cause
<1>6. CASE o \notin missed[w] /\ task[w].style = "restore"
  BY <1>1, <1>2, <1>6, Zenon DEF Known, Cause
<1>. QED
  BY <1>2, <1>3, <1>4, <1>5, <1>6

(* Whatever overlaps, fails or is killed, an option changes only to what   *)
(* the edit at hand asks for, to what the template says where nobody had   *)
(* it, or where the writer could not see what had become of it.            *)
THEOREM ChangedByIntent == ConfigSpec => ChangedByIntentOrStale
PROOF
<1>1. ASSUME Inv, KnownInv, [ConfigNext]_configVars, NEW o \in Options, kept'[o] # kept[o]
      PROVE  \E w \in Active : at'[w] # at[w] /\ Cause(w, o)
  <2>1. CASE UNCHANGED configVars
    BY <1>1, <2>1
  <2>2. ASSUME NEW w \in Writers, Begin(w) \/ EditStep(w) \/ InPlaceStep(w) \/ EnsureStep(w) \/ Stop(w)
        PROVE  w \in Active /\ at'[w] # at[w] /\ Cause(w, o)
    <3>0. ConfigTypeOK /\ StageOK(w) /\ Known(w)
      BY <1>1 DEF Inv, BaseInv, KnownInv
    <3>1. kept' # kept
      BY <1>1
    <3>2. Replace(w) \/ Put(w) \/ SwapTemplateIn(w)
      BY <2>2, <3>1 DEF Begin, EditStep, InPlaceStep, EnsureStep, Stop, ReadLines, EditFails, FindLine,
                        OpenInPlace, LoadCopy, LoadIgnored, OpenCopy, LookForConfirmations, CheckRestore,
                        CreateOrRecheck
    <3>3. CASE Replace(w)
      <4>1. at[w] = "swap" /\ at'[w] \in {"read", "done"}
        BY <3>0, <3>3, ReplaceDoes, AfterEdits DEF Within
      <4>. QED
        BY <1>1, <3>0, <3>3, <4>1, ReplaceCause, ActiveParts
    <3>4. CASE Put(w)
      <4>1. at[w] = "put" /\ at'[w] = "done"
        BY <3>0, <3>4, PutDoes DEF Within
      <4>. QED
        BY <1>1, <3>0, <3>4, <4>1, PutCause, ActiveParts
    <3>5. CASE SwapTemplateIn(w)
      <4>1. at[w] = "swapin" /\ at'[w] = "done"
        BY <3>0, <3>5, SwapInDoes DEF Within
      <4>2. task[w] = Restore
        BY <3>0, <4>1 DEF StageOK
      <4>3. o \notin missed[w] => kept[o] = Absent
        BY <3>0, <4>1, Zenon DEF Known
      <4>4. Cause(w, o)
        BY <4>2, <4>3, Zenon DEF Cause
      <4>. QED
        BY <4>1, <4>4, ActiveParts
    <3>. QED
      BY <3>2, <3>3, <3>4, <3>5
  <2>. QED
    BY <1>1, <2>1, <2>2 DEF ConfigNext
<1>2. Inv /\ KnownInv /\ [ConfigNext]_configVars =>
        [\A o \in Options : kept'[o] # kept[o] =>
           \E w \in Active :
             /\ at'[w] # at[w]
             /\ \/ todo[w] # <<>> /\ Head(todo[w]) = E(o, kept'[o])
                \/ task[w].style = "set" /\ Head(todo[w]).val = kept'[o]
                     /\ o \in Namesakes(Head(todo[w]).opt)
                \/ task[w] = Restore /\ kept[o] = Absent
                \/ o \in missed[w]]_configVars
  BY <1>1, Zenon DEF Cause
<1>. QED
  BY <1>2, KnownInvariant, PTL DEF ConfigSpec, ChangedByIntentOrStale

-----------------------------------------------------------------------------
(* Levels and the nod, by one edit after the other.                        *)
LEMMA OneEdit ==
  ASSUME NEW c \in Content, NEW e \in Edit, Nod(c),
         e.opt = "stamp_rules" => e.val = "closed",
         e = E("stamps", "true") => c["stamp_rules"] = "closed"
  PROVE  /\ Nod(Edited(c, e))
         /\ e.opt = "certainty" => CertaintyOf(Edited(c, e)) = e.val
         /\ e.opt = "confirmations" /\ CertaintyOf(c) = e.val => Agree(Edited(c, e))
         /\ e.opt \notin {"certainty", "confirmations"} /\ Agree(c) => Agree(Edited(c, e))
PROOF
<1>1. /\ Edited(c, e)[e.opt] = e.val
      /\ \A o \in Options : o # e.opt => Edited(c, e)[o] = c[o]
  BY EditedContent
<1>2. {"certainty", "confirmations", "stamps", "stamp_rules"} \subseteq Options
  BY DEF Options
<1>3. e.val # Absent /\ e = E(e.opt, e.val)
  BY EditParts, SettingValues
<1>4. Nod(Edited(c, e))
  <2>1. CASE e.opt = "stamps"
    <3>1. e.val = "true" => c["stamp_rules"] = "closed"
      BY <1>3, <2>1
    <3>. QED
      BY <1>1, <1>2, <2>1, <3>1 DEF Nod
  <2>2. CASE e.opt # "stamps"
    BY <1>1, <1>2, <2>2 DEF Nod
  <2>. QED
    BY <2>1, <2>2
<1>5. e.opt = "certainty" => CertaintyOf(Edited(c, e)) = e.val
  BY <1>1, <1>3 DEF CertaintyOf
<1>6. e.opt # "certainty" => CertaintyOf(Edited(c, e)) = CertaintyOf(c)
  BY <1>1, <1>2 DEF CertaintyOf
<1>7. e.opt = "confirmations" /\ CertaintyOf(c) = e.val => Agree(Edited(c, e))
  BY <1>1, <1>6 DEF Agree
<1>8. e.opt \notin {"certainty", "confirmations"} /\ Agree(c) => Agree(Edited(c, e))
  BY <1>1, <1>2, <1>6 DEF Agree
<1>. QED
  BY <1>4, <1>5, <1>7, <1>8

(* What is known of the first of the edits that are left.                  *)
LEMMA FirstEdit ==
  ASSUME NEW c, NEW td, Ready(c, td)
  PROVE  /\ td \in Seq(Edit) /\ Head(td) \in Edit /\ Head(td) = td[1] /\ 1 \in 1..Len(td) /\ Nod(c)
         /\ Head(td).opt = "stamp_rules" => Head(td).val = "closed"
         /\ Head(td) = E("stamps", "true") => c["stamp_rules"] = "closed"
         /\ Head(td).opt = "certainty" => 1 < Len(td) /\ td[2] = E("confirmations", Head(td).val)
         /\ Head(td).opt = "confirmations" => CertaintyOf(c) = Head(td).val
         /\ Head(td).opt # "confirmations" => Agree(c)
PROOF
<1>1. td \in Seq(Edit) /\ td # <<>>
  BY DEF Ready, WellFormed
<1>2. Head(td) \in Edit /\ Head(td) = td[1] /\ Len(td) \in Nat /\ Len(td) > 0
  BY <1>1, HeadTail
<1>3. \A n \in Nat : n > 0 => 1 \in 1..n
  OBVIOUS
<1>4. 1 \in 1..Len(td)
  BY <1>2, <1>3, Zenon
<1>5. /\ td[1].opt = "stamp_rules" => td[1].val = "closed"
      /\ td[1].opt = "certainty" => 1 < Len(td) /\ td[1 + 1] = E("confirmations", td[1].val)
  BY <1>4, Zenon DEF Ready, WellFormed
<1>6. 1 + 1 = 2
  OBVIOUS
<1>. QED
  BY <1>1, <1>2, <1>4, <1>5, <1>6 DEF Ready

(* The last edit leaves levels that agree.                                 *)
LEMMA LastEdit ==
  ASSUME NEW c \in Content, NEW td, Ready(c, td)
  PROVE  /\ Nod(Edited(c, Head(td)))
         /\ Len(td) = 1 => Agree(Edited(c, Head(td)))
PROOF
<1>1. Nod(Edited(c, Head(td)))
  BY FirstEdit, OneEdit
<1>2. ASSUME Len(td) = 1
      PROVE  Agree(Edited(c, Head(td)))
  <2>1. Head(td).opt # "certainty"
    <3>1. ~(1 < 1)
      OBVIOUS
    <3>. QED
      BY <1>2, <3>1, FirstEdit, Zenon
  <2>. QED
    BY <2>1, FirstEdit, OneEdit
<1>. QED
  BY <1>1, <1>2

(* The rest of a well-formed list is well-formed.                          *)
LEMMA TailWellFormed ==
  ASSUME NEW td, WellFormed(td), Len(td) > 1
  PROVE  WellFormed(Tail(td))
PROOF
<1>1. td \in Seq(Edit)
  BY DEF WellFormed
<1>2. /\ Len(td) \in Nat /\ Tail(td) \in Seq(Edit) /\ Len(Tail(td)) = Len(td) - 1
      /\ \A i \in 1..Len(Tail(td)) : Tail(td)[i] = td[i + 1]
  BY <1>1, HeadTail
<1>3. ASSUME NEW i \in 1..Len(Tail(td))
      PROVE  /\ Tail(td)[i].opt = "stamp_rules" => Tail(td)[i].val = "closed"
             /\ Tail(td)[i].opt = "stamps" /\ Tail(td)[i].val = "true" =>
                  i = 1 \/ Tail(td)[i - 1] = E("stamp_rules", "closed")
             /\ Tail(td)[i].opt = "confirmations" =>
                  i = 1 \/ Tail(td)[i - 1] = E("certainty", Tail(td)[i].val)
             /\ Tail(td)[i].opt = "certainty" =>
                  i < Len(Tail(td)) /\ Tail(td)[i + 1] = E("confirmations", Tail(td)[i].val)
  <2>1. i + 1 \in 1..Len(td) /\ i \in Nat /\ (i + 1) - 1 = i /\ i + 1 # 1
    BY <1>2
  <2>2. /\ td[i + 1].opt = "stamp_rules" => td[i + 1].val = "closed"
        /\ td[i + 1].opt = "stamps" /\ td[i + 1].val = "true" =>
             i + 1 = 1 \/ td[(i + 1) - 1] = E("stamp_rules", "closed")
        /\ td[i + 1].opt = "confirmations" =>
             i + 1 = 1 \/ td[(i + 1) - 1] = E("certainty", td[i + 1].val)
        /\ td[i + 1].opt = "certainty" =>
             i + 1 < Len(td) /\ td[(i + 1) + 1] = E("confirmations", td[i + 1].val)
    BY <2>1, Zenon DEF WellFormed
  <2>3. Tail(td)[i] = td[i + 1]
    BY <1>2
  <2>4. i # 1 => Tail(td)[i - 1] = td[i]
    <3>1. ASSUME i # 1
          PROVE  i - 1 \in 1..Len(Tail(td)) /\ (i - 1) + 1 = i
      BY <1>2, <3>1
    <3>. QED
      BY <1>2, <3>1, Zenon
  <2>5. i + 1 < Len(td) => i < Len(Tail(td)) /\ Tail(td)[i + 1] = td[(i + 1) + 1]
    <3>1. ASSUME i + 1 < Len(td)
          PROVE  i < Len(Tail(td)) /\ i + 1 \in 1..Len(Tail(td))
      BY <1>2, <3>1
    <3>. QED
      BY <1>2, <3>1, Zenon
  <2>6. /\ td[i + 1].opt = "stamps" /\ td[i + 1].val = "true" =>
             i = 1 \/ Tail(td)[i - 1] = E("stamp_rules", "closed")
        /\ td[i + 1].opt = "confirmations" =>
             i = 1 \/ Tail(td)[i - 1] = E("certainty", td[i + 1].val)
    BY <2>1, <2>2, <2>4, Zenon
  <2>7. td[i + 1].opt = "certainty" =>
          i < Len(Tail(td)) /\ Tail(td)[i + 1] = E("confirmations", td[i + 1].val)
    BY <2>2, <2>5, Zenon
  <2>. QED
    BY <2>2, <2>3, <2>6, <2>7, Zenon
<1>. QED
  BY <1>2, <1>3, Zenon DEF WellFormed

(* An edit makes the file ready for the next one.                          *)
LEMMA NextEdit ==
  ASSUME NEW c \in Content, NEW td, Ready(c, td), Len(td) > 1
  PROVE  Ready(Edited(c, Head(td)), Tail(td))
PROOF
<1>0. /\ td \in Seq(Edit) /\ Head(td) \in Edit /\ Head(td) = td[1]
      /\ Head(td).opt = "certainty" => td[2] = E("confirmations", Head(td).val)
      /\ Head(td).opt = "confirmations" => CertaintyOf(c) = Head(td).val
      /\ Head(td).opt # "confirmations" => Agree(c)
  BY FirstEdit
<1>1. WellFormed(Tail(td)) /\ Tail(td) # <<>>
  BY <1>0, TailWellFormed, HeadTail DEF Ready
<1>2. Head(Tail(td)) = td[2] /\ td[2] \in Edit
  <2>1. Head(Tail(td)) = Tail(td)[1] /\ Head(Tail(td)) \in Edit /\ Len(Tail(td)) \in Nat /\ Len(Tail(td)) > 0
    BY <1>1, HeadTail DEF WellFormed
  <2>2. \A n \in Nat : n > 0 => 1 \in 1..n
    OBVIOUS
  <2>3. 1 \in 1..Len(Tail(td)) /\ td # <<>>
    BY <2>1, <2>2, Zenon DEF Ready
  <2>4. Tail(td)[1] = td[1 + 1]
    BY <1>0, <2>3, HeadTail, Zenon
  <2>5. 1 + 1 = 2
    OBVIOUS
  <2>. QED
    BY <2>1, <2>4, <2>5
<1>3. /\ td[2].opt = "stamps" /\ td[2].val = "true" => td[1] = E("stamp_rules", "closed")
      /\ td[2].opt = "confirmations" => td[1] = E("certainty", td[2].val)
  <2>1. \A n \in Nat : n > 1 => 2 \in 1..n
    OBVIOUS
  <2>2. 2 \in 1..Len(td)
    BY <1>0, <2>1, HeadTail, Zenon
  <2>3. /\ td[2].opt = "stamps" /\ td[2].val = "true" => 2 = 1 \/ td[2 - 1] = E("stamp_rules", "closed")
        /\ td[2].opt = "confirmations" => 2 = 1 \/ td[2 - 1] = E("certainty", td[2].val)
    BY <2>2, Zenon DEF Ready, WellFormed
  <2>4. 2 # 1 /\ 2 - 1 = 1
    OBVIOUS
  <2>. QED
    BY <2>3, <2>4
<1>4. /\ Nod(Edited(c, Head(td)))
      /\ Head(td).opt = "certainty" => CertaintyOf(Edited(c, Head(td))) = Head(td).val
      /\ Head(td).opt = "confirmations" => Agree(Edited(c, Head(td)))
      /\ Head(td).opt \notin {"certainty", "confirmations"} => Agree(Edited(c, Head(td)))
  BY <1>0, FirstEdit, OneEdit
<1>5. ASSUME td[2].opt = "confirmations"
      PROVE  CertaintyOf(Edited(c, Head(td))) = td[2].val
  <2>1. Head(td) = E("certainty", td[2].val)
    BY <1>0, <1>3, <1>5
  <2>2. Head(td).opt = "certainty" /\ Head(td).val = td[2].val
    BY <2>1 DEF E
  <2>. QED
    BY <1>4, <2>2
<1>6. ASSUME td[2].opt # "confirmations"
      PROVE  Agree(Edited(c, Head(td)))
  <2>1. Head(td).opt # "certainty"
    <3>1. E("confirmations", Head(td).val).opt = "confirmations"
      BY DEF E
    <3>. QED
      BY <1>0, <1>6, <3>1, Zenon
  <2>. QED
    BY <1>4, <2>1
<1>7. ASSUME td[2] = E("stamps", "true")
      PROVE  Edited(c, Head(td))["stamp_rules"] = "closed"
  <2>1. td[2].opt = "stamps" /\ td[2].val = "true"
    BY <1>7 DEF E
  <2>2. Head(td) = E("stamp_rules", "closed")
    BY <1>0, <1>3, <2>1
  <2>3. Head(td).opt = "stamp_rules" /\ Head(td).val = "closed"
    BY <2>2 DEF E
  <2>. QED
    BY <1>0, <2>3, EditedContent
<1>. QED
  BY <1>1, <1>2, <1>4, <1>5, <1>6, <1>7 DEF Ready

-----------------------------------------------------------------------------
(* Only the writer that steps is at work.                                  *)
Quiet(v) == at[v] = "idle" \/ (alone[v] /\ ~hurt[v] /\ at[v] # "stopped" /\ task[v].style # "set")

LEMMA QuietParts ==
  /\ Undisturbed <=> \A v \in Writers : Quiet(v)
  /\ Undisturbed' <=> \A v \in Writers : Quiet(v)'
BY DEF Undisturbed, Quiet

(* Nobody begins twice.                                                    *)
LEMMA NeverIdle ==
  ASSUME Inv, NEW w \in Writers, Begin(w) \/ AtWork(w)
  PROVE  at'[w] # "idle"
PROOF
<1>1. ConfigTypeOK /\ StageOK(w)
  BY DEF Inv, BaseInv
<1>2. CASE EditStep(w)
  BY <1>1, <1>2, ReadLinesDoes, ReplaceDoes, EditFailsDoes, AfterEdits DEF EditStep, Within
<1>3. CASE InPlaceStep(w)
  BY <1>1, <1>3, FindLineDoes, OpenInPlaceDoes, LoadCopyDoes, LoadIgnoredDoes, OpenCopyDoes, PutDoes
     DEF InPlaceStep, Within
<1>4. CASE EnsureStep(w)
  BY <1>1, <1>4, LookDoes, CheckDoes, CreateDoes, SwapInDoes DEF EnsureStep, Within
<1>5. CASE Stop(w)
  BY <1>1, <1>5, StopDoes DEF Within
<1>6. CASE Begin(w)
  <2>1. \E t \in Tasks : at'[w] = FirstStep(t.style)
    BY <1>1, <1>6, BeginDoes
  <2>. QED
    BY <2>1 DEF FirstStep
<1>. QED
  BY <1>2, <1>3, <1>4, <1>5, <1>6 DEF AtWork

(* A failed edit is not forgotten.                                         *)
LEMMA HurtStays ==
  ASSUME Inv, NEW w \in Writers, AtWork(w), hurt[w]
  PROVE  hurt'[w]
PROOF
<1>1. ConfigTypeOK /\ StageOK(w)
  BY DEF Inv, BaseInv
<1>2. EditFails(w) \/ hurt' = hurt
  <2>1. CASE EditStep(w)
    BY <1>1, <2>1, ReadLinesDoes, ReplaceDoes, Zenon DEF EditStep
  <2>2. CASE InPlaceStep(w)
    BY <1>1, <2>2, FindLineDoes, OpenInPlaceDoes, LoadCopyDoes, LoadIgnoredDoes, OpenCopyDoes, PutDoes DEF InPlaceStep
  <2>3. CASE EnsureStep(w)
    BY <1>1, <2>3, LookDoes, CheckDoes, CreateDoes, SwapInDoes DEF EnsureStep
  <2>4. CASE Stop(w)
    BY <1>1, <2>4, StopDoes
  <2>. QED
    BY <2>1, <2>2, <2>3, <2>4 DEF AtWork
<1>3. EditFails(w) => hurt'[w]
  BY <1>1, EditFailsDoes, Zenon
<1>. QED
  BY <1>2, <1>3, Zenon

(* If nothing is disturbed after a step, nothing was before it, and nobody *)
(* else is at work.                                                        *)
LEMMA UndisturbedBefore ==
  ASSUME Inv, NEW w \in Writers, Begin(w) \/ AtWork(w), Undisturbed'
  PROVE  Undisturbed /\ ~InPlaceDamage /\ \A v \in Active : v = w
PROOF
<1>0. \A v \in Writers : Quiet(v)'
  BY QuietParts
<1>1. Apart(w)
  BY BeginDoes, WorkWithin DEF Inv, BaseInv, Within
<1>2. \A v \in Writers : alone'[v] => alone[v]
  <2>1. CASE AtWork(w)
    BY <2>1, WorkWithin, Zenon DEF Inv, Within
  <2>2. ASSUME Begin(w), NEW v \in Writers, alone'[v]
        PROVE  alone[v]
    <3>1. CASE v # w
      BY <2>2, <3>1, BeginDoes, Zenon DEF Inv, BaseInv
    <3>2. CASE v = w
      <4>1. at[w] = "idle"
        BY <2>2, BeginDoes DEF Inv, BaseInv
      <4>. QED
        BY <3>2, <4>1, Zenon DEF Inv, BaseInv, StageOK
    <3>. QED
      BY <3>1, <3>2
  <2>. QED
    BY <2>1, <2>2
<1>3. ASSUME NEW v \in Active
      PROVE  v = w
  <2>1. SUFFICES ASSUME v # w
                 PROVE  FALSE
    OBVIOUS
  <2>2. v \in Writers /\ at[v] # "idle" /\ at'[v] = at[v]
    BY <1>1, <2>1, ActiveParts DEF Apart
  <2>3. alone'[v]
    BY <1>0, <2>2, Zenon DEF Quiet
  <2>4. CASE AtWork(w)
    <3>1. w \in Active
      BY <2>4, WorkWithin DEF Inv
    <3>2. ~alone[v]
      BY <2>1, <3>1, Zenon DEF Inv, BaseInv, Overlap
    <3>. QED
      BY <1>2, <2>2, <2>3, <3>2
  <2>5. CASE Begin(w)
    BY <2>1, <2>2, <2>3, <2>5, BeginDoes, Zenon DEF Inv, BaseInv
  <2>. QED
    BY <2>4, <2>5
<1>4. \A v \in Writers \ {w} : Quiet(v)
  <2>1. ASSUME NEW v \in Writers \ {w}
        PROVE  Quiet(v)
    <3>1. at'[v] = at[v] /\ task'[v] = task[v] /\ hurt'[v] = hurt[v]
      BY <1>1 DEF Apart
    <3>2. Quiet(v)'
      BY <1>0
    <3>. QED
      BY <1>2, <3>1, <3>2, Zenon DEF Quiet
  <2>. QED
    BY <2>1
<1>5. Quiet(w)
  <2>1. CASE Begin(w)
    BY <2>1, BeginDoes DEF Inv, BaseInv, Quiet
  <2>2. CASE AtWork(w)
    <3>1. at[w] \notin {"idle", "stopped"} /\ task' = task /\ Within(w, at[w], at'[w])
      BY <2>2, WorkWithin, ActiveParts DEF Inv, Within
    <3>2. at'[w] # "idle"
      BY NeverIdle
    <3>3. hurt[w] => hurt'[w]
      BY <2>2, HurtStays
    <3>4. Quiet(w)'
      BY <1>0
    <3>. QED
      BY <1>2, <3>1, <3>2, <3>3, <3>4, Zenon DEF Quiet
  <2>. QED
    BY <2>1, <2>2
<1>6. \A v \in Writers : Quiet(v)
  BY <1>4, <1>5
<1>7. ~InPlaceDamage
  <2>1. ASSUME NEW v \in Writers
        PROVE  at[v] # "stopped" /\ alone[v]
    <3>1. Quiet(v) /\ StageOK(v)
      BY <1>6 DEF Inv, BaseInv
    <3>2. at[v] = "idle" => alone[v]
      BY <3>1, Zenon DEF StageOK
    <3>. QED
      BY <3>1, <3>2, Zenon DEF Quiet
  <2>. QED
    BY <2>1, Zenon DEF InPlaceDamage
<1>. QED
  BY <1>3, <1>6, <1>7, QuietParts

(* LevelsInv stays if the step keeps the file and its own writer on        *)
(* course.                                                                 *)
LEMMA LevelsStep ==
  ASSUME Inv, NEW w \in Writers, Begin(w) \/ AtWork(w),
         Undisturbed' =>
           /\ Nod(file'.opt)
           /\ at'[w] = "done" => Agree(file'.opt)
           /\ at'[w] \in {"idle", "done"} \/ OnCourse(w)'
  PROVE  LevelsInv'
PROOF
<1>. SUFFICES ASSUME Undisturbed'
              PROVE  /\ Nod(file'.opt)
                     /\ Active' = {} => Agree(file'.opt)
                     /\ \A v \in Active' : OnCourse(v)'
  BY Zenon DEF LevelsInv, Nod, Agree, CertaintyOf
<1>1. Apart(w) /\ \A v \in Active : v = w
  BY BeginDoes, WorkWithin, UndisturbedBefore DEF Inv, BaseInv, Within
<1>2. \A v \in Active' : v = w
  BY <1>1, ActiveParts DEF Apart
<1>3. \A v \in Active' : OnCourse(v)'
  <2>1. \A v \in Active' : v = w /\ at'[v] \notin {"idle", "done"}
    BY <1>2, ActiveParts
  <2>. QED
    BY <2>1, Zenon
<1>4. ASSUME Active' = {}
      PROVE  at'[w] = "done"
  <2>1. at'[w] \in {"idle", "done", "stopped"}
    BY <1>4, ActiveParts
  <2>2. Quiet(w)'
    BY QuietParts
  <2>. QED
    BY <2>1, <2>2, NeverIdle DEF Quiet
<1>. QED
  BY <1>3, <1>4

LEMMA CameraEdit ==
  /\ <<E("device_path", "new")>> # <<>>
  /\ Head(<<E("device_path", "new")>>) = E("device_path", "new")
  /\ E("device_path", "new") # E("stamps", "true") /\ E("device_path", "new").opt # "confirmations"
  /\ Opens(<<E("device_path", "new")>>)
BY AllEdits DEF Opens, WellFormed

(* The given files have their levels right.                                *)
LEMMA FilesAgree ==
  /\ Nod(Nothing) /\ Agree(Nothing) /\ Nod(Template) /\ Agree(Template) /\ Nod(Older) /\ Agree(Older)
PROOF
<1>1. {"certainty", "confirmations", "stamps", "stamp_rules"} \subseteq Options
  BY DEF Options
<1>2. Nothing["stamps"] = Absent /\ Nothing["confirmations"] = Absent
  BY <1>1, Contents
<1>. QED
  BY <1>2, Contents DEF Nod, Agree, CertaintyOf, Absent

LEMMA BeginLevels ==
  ASSUME Inv, LevelsInv, NEW w \in Writers, Begin(w)
  PROVE  LevelsInv'
PROOF
<1>1. PICK t \in Tasks : /\ at[w] = "idle" /\ at'[w] = FirstStep(t.style)
                         /\ task'[w] = t /\ todo'[w] = t.edits
  BY BeginDoes DEF Inv, BaseInv
<1>2. file' = file /\ (alone'[w] <=> Active = {})
  BY BeginDoes DEF Inv, BaseInv
<1>3. ASSUME Undisturbed'
      PROVE  Nod(file.opt) /\ Agree(file.opt) /\ t.style # "set"
  <2>1. Quiet(w)'
    BY <1>3, QuietParts
  <2>2. at'[w] # "idle"
    BY NeverIdle
  <2>3. Active = {} /\ t.style # "set"
    BY <1>1, <1>2, <2>1, <2>2, Zenon DEF Quiet
  <2>4. Undisturbed
    BY <1>3, UndisturbedBefore
  <2>. QED
    BY <2>3, <2>4, Zenon DEF LevelsInv
<1>4. /\ t.style = "restore" => at'[w] = "check"
      /\ t.style = "upgrade" => at'[w] = "look"
      /\ t.style \in {"edit", "set", "copy"} => at'[w] = "read"
      /\ t.style \in {"edit", "set", "copy", "upgrade", "restore"}
      /\ at'[w] \in {"check", "look", "read"}
  BY <1>1, TaskStyles DEF FirstStep
<1>5. t.style \in {"edit", "copy"} => Opens(t.edits)
  <2>1. Shape(t)
    BY TaskStyles
  <2>2. t.style = "edit" => Opens(t.edits)
    BY <2>1 DEF Shape
  <2>3. t.style = "copy" => t.edits = <<E("device_path", "new")>>
    BY <2>1 DEF Shape
  <2>. QED
    BY <2>2, <2>3, CameraEdit
<1>6. ASSUME Undisturbed'
      PROVE  OnCourse(w)'
  <2>1. at'[w] = "read" => Opens(todo'[w])
    BY <1>1, <1>3, <1>4, <1>5, <1>6
  <2>2. at'[w] = "read" => Ready(file.opt, todo'[w])
    BY <1>3, <1>6, <2>1, Zenon DEF Opens, Ready
  <2>. QED
    BY <1>2, <1>3, <1>4, <1>6, <2>2 DEF OnCourse
<1>. QED
  BY <1>2, <1>3, <1>4, <1>6, LevelsStep

(* What LevelsInv says of the writer that steps.                           *)
LEMMA WorkLevels ==
  ASSUME Inv, LevelsInv, NEW w \in Writers, AtWork(w), Undisturbed'
  PROVE  /\ ~InPlaceDamage /\ Nod(file.opt) /\ OnCourse(w) /\ task[w].style # "set"
         /\ ~hurt'[w] /\ at'[w] # "stopped"
PROOF
<1>1. Within(w, at[w], at'[w]) /\ w \in Active
  BY WorkWithin DEF Inv
<1>2. ~InPlaceDamage /\ Undisturbed
  BY UndisturbedBefore
<1>3. Quiet(w)' /\ at'[w] # "idle" /\ task' = task
  BY <1>1, QuietParts, NeverIdle DEF Within
<1>. QED
  BY <1>1, <1>2, <1>3, Zenon DEF LevelsInv, Quiet

LEMMA EditLevels ==
  ASSUME Inv, LevelsInv, NEW w \in Writers, EditStep(w)
  PROVE  LevelsInv'
PROOF
<1>0. ConfigTypeOK /\ StageOK(w) /\ TypeFile /\ AtWork(w)
  BY ConfigTypeParts DEF Inv, BaseInv, AtWork
<1>1. w \in Active
  BY <1>0, WorkWithin DEF Inv
<1>. SUFFICES ASSUME Undisturbed'
              PROVE  /\ Nod(file'.opt)
                     /\ at'[w] = "done" => Agree(file'.opt)
                     /\ at'[w] \in {"idle", "done"} \/ OnCourse(w)'
  BY <1>0, LevelsStep
<1>2. ~InPlaceDamage /\ Nod(file.opt) /\ OnCourse(w) /\ ~hurt'[w]
  BY <1>0, WorkLevels
<1>3. CASE ReadLines(w)
  <2>1. /\ at[w] = "read" /\ at'[w] = "swap"
        /\ buf'[w] = IF file.state = "garbled" THEN Nothing ELSE Edited(file.opt, Head(todo[w]))
        /\ UNCHANGED <<file, kept, todo>> /\ file.state # "missing"
    BY <1>0, <1>3, ReadLinesDoes DEF Within
  <2>2. file.state # "garbled"
    BY <1>1, <1>2, <2>1, SeenFilled
  <2>3. Ready(file.opt, todo[w])
    BY <1>2, <2>1 DEF OnCourse
  <2>4. /\ at'[w] = "swap" /\ Ready(file'.opt, todo'[w]) /\ buf'[w] = Edited(file'.opt, Head(todo'[w]))
    BY <2>1, <2>2, <2>3
  <2>5. OnCourse(w)'
    BY <2>4 DEF OnCourse
  <2>. QED
    BY <1>2, <2>1, <2>5
<1>4. CASE Replace(w)
  <2>1. /\ at[w] = "swap" /\ at'[w] = AfterEdit(w)
        /\ file' = IF buf[w] = Nothing THEN Garbled ELSE Fine(buf[w])
        /\ todo'[w] = Tail(todo[w])
    BY <1>0, <1>4, ReplaceDoes DEF Within
  <2>2. buf[w] # Nothing
    BY <1>2, <2>1, Zenon DEF Inv, BlankHasCause
  <2>3. file'.opt = buf[w] /\ file.opt \in Content
    BY <1>0, <2>1, <2>2 DEF Fine, TypeFile, FileType
  <2>4. Ready(file.opt, todo[w]) /\ buf[w] = Edited(file.opt, Head(todo[w]))
    BY <1>2, <2>1 DEF OnCourse
  <2>5. /\ Nod(file'.opt)
        /\ Len(todo[w]) = 1 => Agree(file'.opt)
        /\ Len(todo[w]) > 1 => Ready(file'.opt, todo'[w])
    BY <2>1, <2>3, <2>4, LastEdit, NextEdit
  <2>6. CASE at'[w] = "done"
    BY <1>0, <2>1, <2>5, <2>6, AfterEditStage
  <2>7. CASE at'[w] = "read"
    <3>1. Ready(file'.opt, todo'[w])
      BY <1>0, <2>1, <2>5, <2>7, AfterEditStage
    <3>2. OnCourse(w)'
      BY <2>7, <3>1 DEF OnCourse
    <3>. QED
      BY <2>5, <2>7, <3>2
  <2>. QED
    BY <2>1, <2>6, <2>7, AfterEdits
<1>5. CASE EditFails(w)
  BY <1>0, <1>2, <1>5, EditFailsDoes, Zenon
<1>. QED
  BY <1>3, <1>4, <1>5 DEF EditStep

LEMMA InPlaceLevels ==
  ASSUME Inv, LevelsInv, NEW w \in Writers, InPlaceStep(w)
  PROVE  LevelsInv'
PROOF
<1>0. ConfigTypeOK /\ StageOK(w) /\ TypeFile /\ AtWork(w) /\ BaseInv
  BY ConfigTypeParts DEF Inv, BaseInv, AtWork
<1>. SUFFICES ASSUME Undisturbed'
              PROVE  /\ Nod(file'.opt)
                     /\ at'[w] = "done" => Agree(file'.opt)
                     /\ at'[w] \in {"idle", "done"} \/ OnCourse(w)'
  BY <1>0, LevelsStep
<1>2. ~InPlaceDamage /\ Nod(file.opt) /\ OnCourse(w) /\ task[w].style # "set"
  BY <1>0, WorkLevels
<1>3. CASE FindLine(w) \/ OpenInPlace(w)
  BY <1>0, <1>2, <1>3, FindLineDoes, OpenInPlaceDoes
<1>4. CASE LoadCopy(w)
  <2>1. /\ at[w] = "read" /\ at'[w] = "open" /\ UNCHANGED <<file, todo>> /\ buf'[w] = file.opt
        /\ task[w].style = "copy"
    BY <1>0, <1>4, LoadCopyDoes DEF Within
  <2>2. todo[w] = <<E("device_path", "new")>>
    <3>1. Shape(task[w])
      BY <1>0, TaskStyles, ConfigTypeParts DEF TypeProgress
    <3>2. task[w].edits = <<E("device_path", "new")>>
      BY <2>1, <3>1 DEF Shape
    <3>. QED
      BY <1>0, <2>1, <3>2 DEF StageOK
  <2>3. Head(todo[w]) = E("device_path", "new") /\ Head(todo[w]).opt # "confirmations"
    BY <2>2, CameraEdit
  <2>4. Agree(file.opt)
    BY <1>2, <2>1, <2>3 DEF OnCourse, Ready
  <2>5. /\ at'[w] = "open" /\ Nod(buf'[w]) /\ Agree(buf'[w]) /\ Head(todo'[w]) = E("device_path", "new")
    BY <1>2, <2>1, <2>3, <2>4
  <2>6. OnCourse(w)'
    BY <2>5 DEF OnCourse
  <2>. QED
    BY <1>2, <2>1, <2>6
<1>5. CASE OpenCopy(w)
  <2>1. /\ at[w] = "open" /\ at'[w] = "put" /\ buf'[w] = Edited(buf[w], Head(todo[w]))
        /\ file' = Fine(Nothing)
    BY <1>0, <1>5, OpenCopyDoes DEF Within
  <2>2. /\ Nod(buf[w]) /\ Agree(buf[w]) /\ Head(todo[w]) \in {E("device_path", "new"), DropPolkit}
    BY <1>2, <2>1 DEF OnCourse
  <2>3. /\ buf[w] \in Content /\ Head(todo[w]) \in Edit
        /\ Head(todo[w]).opt \in {"device_path", "ignore_services"}
        /\ Head(todo[w]) # E("stamps", "true")
    BY <1>0, <2>2, AllEdits, CameraEdit DEF TypeFile
  <2>4. /\ Nod(buf'[w]) /\ Agree(buf'[w])
    BY <2>1, <2>2, <2>3, OneEdit
  <2>5. OnCourse(w)'
    BY <2>1, <2>4 DEF OnCourse
  <2>6. Nod(file'.opt)
    BY <2>1, FilesAgree DEF Fine
  <2>. QED
    BY <2>1, <2>5, <2>6
<1>6. CASE Put(w)
  <2>1. /\ at[w] = "put" /\ at'[w] = "done"
        /\ fd[w] # "gone" => file' = Fine(buf[w]) \/ (fd[w] = "shared" /\ file' = Garbled)
    BY <1>0, <1>6, PutDoes DEF Within
  <2>2. fd[w] \notin {"shared", "gone"}
    BY <1>0, <1>2, <2>1, PutAlone
  <2>3. file'.opt = buf[w]
    BY <2>1, <2>2 DEF Fine
  <2>4. Nod(buf[w]) /\ Agree(buf[w])
    BY <1>2, <2>1 DEF OnCourse
  <2>. QED
    BY <2>1, <2>3, <2>4
<1>7. CASE LoadIgnored(w)
  <2>1. /\ at[w] = "read" /\ at'[w] \in {"open", "done"} /\ UNCHANGED <<file, todo>> /\ buf'[w] = file.opt
        /\ Head(todo[w]) = DropPolkit
    BY <1>0, <1>7, LoadIgnoredDoes DEF Within
  <2>2. Agree(file.opt)
    BY <1>2, <2>1, AllEdits DEF OnCourse, Ready
  <2>3. at'[w] = "open" => OnCourse(w)'
    <3>1. Nod(buf'[w]) /\ Agree(buf'[w]) /\ Head(todo'[w]) = DropPolkit
      BY <1>2, <2>1, <2>2
    <3>. QED
      BY <3>1 DEF OnCourse
  <2>. QED
    BY <1>2, <2>1, <2>2, <2>3
<1>. QED
  BY <1>3, <1>4, <1>5, <1>6, <1>7 DEF InPlaceStep

LEMMA EnsureLevels ==
  ASSUME Inv, LevelsInv, NEW w \in Writers, EnsureStep(w) \/ Stop(w)
  PROVE  LevelsInv'
PROOF
<1>0. ConfigTypeOK /\ StageOK(w) /\ TypeFile /\ AtWork(w)
  BY ConfigTypeParts DEF Inv, BaseInv, AtWork
<1>. SUFFICES ASSUME Undisturbed'
              PROVE  /\ Nod(file'.opt)
                     /\ at'[w] = "done" => Agree(file'.opt)
                     /\ at'[w] \in {"idle", "done"} \/ OnCourse(w)'
  BY <1>0, LevelsStep
<1>2. ~InPlaceDamage /\ Nod(file.opt) /\ OnCourse(w) /\ at'[w] # "stopped"
  BY <1>0, WorkLevels
<1>3. CASE LookForConfirmations(w)
  <2>1. /\ at[w] = "look" /\ at'[w] = "read" /\ file' = file
        /\ todo'[w] \in {<<E("confirmations", CertaintyOf(file.opt)), DropPolkit>>, <<DropPolkit>>}
    BY <1>0, <1>3, LookDoes DEF Within
  <2>2. Agree(file.opt)
    BY <1>2, <2>1 DEF OnCourse
  <2>3. Ready(file.opt, <<E("confirmations", CertaintyOf(file.opt)), DropPolkit>>)
    <3>1. CertaintyOf(file.opt) \in Settings
      BY <1>0, CertaintyKnown DEF TypeFile, FileType
    <3>2. PICK e \in Edit : /\ e = E("confirmations", CertaintyOf(file.opt))
                            /\ e.opt = "confirmations" /\ e.val = CertaintyOf(file.opt)
      BY <3>1, EditParts DEF Options
    <3>3. WellFormed(<<e, DropPolkit>>) /\ <<e, DropPolkit>> # <<>> /\ Head(<<e, DropPolkit>>) = e
      BY <3>2, AllEdits DEF WellFormed
    <3>4. e # E("stamps", "true")
      BY <3>2 DEF E
    <3>. QED
      BY <1>2, <3>2, <3>3, <3>4 DEF Ready
  <2>4. Ready(file.opt, <<DropPolkit>>)
    <3>1. WellFormed(<<DropPolkit>>) /\ <<DropPolkit>> # <<>> /\ Head(<<DropPolkit>>) = DropPolkit
      BY AllEdits DEF WellFormed
    <3>2. DropPolkit # E("stamps", "true")
      BY DEF DropPolkit, E
    <3>. QED
      BY <1>2, <2>2, <3>1, <3>2, AllEdits DEF Ready
  <2>5. OnCourse(w)'
    <3>1. Ready(file'.opt, todo'[w])
      BY <2>1, <2>3, <2>4, Zenon
    <3>. QED
      BY <2>1, <3>1 DEF OnCourse
  <2>. QED
    BY <1>2, <2>1, <2>5
<1>4. CASE CheckRestore(w)
  <2>1. at[w] = "check" /\ at'[w] \in {"create", "done"} /\ file' = file
    BY <1>0, <1>4, CheckDoes DEF Within
  <2>2. Agree(file.opt)
    BY <1>2, <2>1 DEF OnCourse
  <2>3. at'[w] = "done" \/ OnCourse(w)'
    BY <2>1, <2>2 DEF OnCourse
  <2>. QED
    BY <1>2, <2>1, <2>2, <2>3
<1>5. CASE CreateOrRecheck(w)
  <2>1. /\ at[w] = "create" /\ at'[w] \in {"put", "swapin", "done"}
        /\ at'[w] = "put" <=> file.state = "missing"
        /\ file.state = "missing" => file' = Fine(Nothing) /\ buf'[w] = Template
        /\ file.state # "missing" => file' = file
    BY <1>0, <1>5, CreateDoes DEF Within
  <2>2. Agree(file.opt)
    BY <1>2, <2>1 DEF OnCourse
  <2>3. Nod(file'.opt)
    BY <1>2, <2>1, FilesAgree DEF Fine
  <2>4. at'[w] = "done" \/ OnCourse(w)'
    BY <2>1, <2>2, FilesAgree DEF OnCourse
  <2>. QED
    BY <2>1, <2>2, <2>3, <2>4
<1>6. CASE SwapTemplateIn(w)
  <2>1. at'[w] = "done" /\ file' = Fine(Template)
    BY <1>0, <1>6, SwapInDoes DEF Within
  <2>. QED
    BY <2>1, FilesAgree DEF Fine
<1>7. CASE Stop(w)
  BY <1>0, <1>2, <1>7, StopDoes DEF Within
<1>. QED
  BY <1>3, <1>4, <1>5, <1>6, <1>7 DEF EnsureStep

LEMMA InitLevels == ConfigInit => LevelsInv
PROOF
<1>. SUFFICES ASSUME ConfigInit
              PROVE  LevelsInv
  OBVIOUS
<1>1. file \in {Missing, Fine(Template), Fine(Older)} /\ Active = {}
  BY DEF ConfigInit, Active
<1>2. file.opt \in {Nothing, Template, Older}
  BY <1>1, Contents, Files
<1>. QED
  BY <1>1, <1>2, FilesAgree DEF LevelsInv

(* Pages, wizard, upgrade and restore keep the levels and the nod together,*)
(* for any number of writers and any choice of tasks.                      *)
THEOREM LevelsAgree == ConfigSpec => []LevelsAndNodAgree
PROOF
<1>1. ConfigInit => LevelsInv
  BY InitLevels
<1>2. Inv /\ LevelsInv /\ [ConfigNext]_configVars => LevelsInv'
  <2>. SUFFICES ASSUME Inv, LevelsInv, [ConfigNext]_configVars
                PROVE  LevelsInv'
    OBVIOUS
  <2>1. ASSUME NEW w \in Writers, Begin(w) \/ EditStep(w) \/ InPlaceStep(w) \/ EnsureStep(w) \/ Stop(w)
        PROVE  LevelsInv'
    BY <2>1, BeginLevels, EditLevels, InPlaceLevels, EnsureLevels
  <2>2. CASE UNCHANGED configVars
    BY <2>2, Zenon DEF LevelsInv, Undisturbed, Active, OnCourse
  <2>. QED
    BY <2>1, <2>2 DEF ConfigNext
<1>3. LevelsInv => LevelsAndNodAgree
  BY DEF LevelsInv, LevelsAndNodAgree, Nod, Agree, CertaintyOf, Certainty
<1>. QED
  BY <1>1, <1>2, <1>3, InvInvariant, PTL DEF ConfigSpec

-----------------------------------------------------------------------------
(* The editor by itself.                                                   *)
GivenTasks == \A w \in Writers : at[w] # "idle" => task[w] \in Chosen

(* A writer works on a task it was given.                                  *)
LEMMA GivenInvariant == ConfigSpec => []GivenTasks
PROOF
<1>1. ConfigInit => GivenTasks
  BY DEF ConfigInit, GivenTasks
<1>2. Inv /\ GivenTasks /\ [ConfigNext]_configVars => GivenTasks'
  <2>. SUFFICES ASSUME Inv, GivenTasks, [ConfigNext]_configVars
                PROVE  GivenTasks'
    OBVIOUS
  <2>1. ASSUME NEW w \in Writers, AtWork(w)
        PROVE  GivenTasks'
    <3>1. Within(w, at[w], at'[w]) /\ w \in Active
      BY <2>1, WorkWithin DEF Inv
    <3>2. task' = task /\ at[w] # "idle" /\ \A v \in Writers \ {w} : at'[v] = at[v]
      BY <3>1, ActiveParts DEF Within, Apart
    <3>. QED
      BY <3>2, Zenon DEF GivenTasks
  <2>2. ASSUME NEW w \in Writers, Begin(w)
        PROVE  GivenTasks'
    <3>1. \E t \in Chosen : task' = [task EXCEPT ![w] = t]
      BY <2>2, Zenon DEF Begin
    <3>2. task \in [Writers -> Tasks] /\ Apart(w)
      BY <2>2, BeginDoes, ConfigTypeParts DEF Inv, BaseInv, TypeProgress
    <3>3. task'[w] \in Chosen /\ \A v \in Writers \ {w} : task'[v] = task[v] /\ at'[v] = at[v]
      BY <3>1, <3>2 DEF Apart
    <3>. QED
      BY <3>3, Zenon DEF GivenTasks
  <2>3. CASE UNCHANGED configVars
    BY <2>3, Zenon DEF GivenTasks
  <2>. QED
    BY <2>1, <2>2, <2>3 DEF ConfigNext, AtWork
<1>. QED
  BY <1>1, <1>2, InvInvariant, PTL DEF ConfigSpec

(* set_option keeps its promise alone: where every writer is config_edit's,*)
(* however many of them overlap, fail or are killed, the configuration is  *)
(* never left empty or unreadable, nor is it so while they run.            *)
THEOREM EditorNeverEmpties ==
  ASSUME \A t \in Chosen : t.style = "edit"
  PROVE  ConfigSpec => [](file.state # "missing" => file.state = "fine" /\ file.opt # Nothing)
PROOF
<1>1. Inv /\ GivenTasks => (file.state # "missing" => file.state = "fine" /\ file.opt # Nothing)
  <2>. SUFFICES ASSUME Inv, GivenTasks, file.state # "missing"
                PROVE  file.state = "fine" /\ file.opt # Nothing
    OBVIOUS
  <2>1. ASSUME NEW w \in Writers
        PROVE  /\ at[w] # "put"
               /\ ~(task[w].style # "edit" /\ (at[w] = "stopped" \/ ~alone[w]))
    <3>1. StageOK(w)
      BY DEF Inv, BaseInv
    <3>2. CASE at[w] = "idle"
      <4>1. alone[w]
        BY <3>1, <3>2, Zenon DEF StageOK
      <4>. QED
        BY <3>2, <4>1
    <3>3. CASE at[w] # "idle"
      <4>1. task[w].style = "edit"
        BY <3>3 DEF GivenTasks
      <4>. QED
        BY <3>1, <4>1 DEF StageOK
    <3>. QED
      BY <3>2, <3>3
  <2>2. ~InPlaceDamage /\ ~ \E w \in Writers : at[w] = "put"
    BY <2>1, Zenon DEF InPlaceDamage
  <2>3. file.opt # Nothing
    BY <2>2, Zenon DEF Inv, BlankHasCause, EmptyHasCause
  <2>4. file.state \in {"missing", "fine", "garbled"}
    BY ConfigTypeParts DEF Inv, BaseInv, TypeFile, FileType
  <2>. QED
    BY <2>3, <2>4 DEF Inv, BaseInv, FileOK
<1>. QED
  BY <1>1, InvInvariant, GivenInvariant, PTL

-----------------------------------------------------------------------------
(* Wizard.                                                                 *)
USE DEF downloadVars, cameraVars, enrolVars, ghosts, vars

-----------------------------------------------------------------------------
(* Together the running commands can fill up the models, no more.  One at  *)
(* a time runs, while the face scan page is shown with its buttons off,    *)
(* until the user leaves that page.                                        *)
ModelsBounded == enrol.models + Cardinality(Adding) <= MaxModels

OneAdd ==
  ~leftScan =>
    /\ Adding # {} => page = 4 /\ ~enrol.scan
    /\ \A a, b \in Adding : a = b

AdvanceIn(s) == \E i \in 1..Len(s) : s[i] = "advance"

(* What holds until a callback of an earlier page comes.                   *)
FirstInv ==
  /\ AdvanceIn(timers) => enrol.models > 0
  /\ strays \intersect {"download", "slide2"} = {} =>
       /\ page = 4 /\ next => enrol.models > 0
       /\ page > 4 => enrol.models > 0
       /\ \A t \in Scanners : scan[t].current => page = 2

(* Next is turned on, the list cleared or the page turned by none of them. *)
Settled == strays \intersect {"download", "slide2", "advance"} = {}

CameraInv ==
  Settled =>
    /\ page > 2 \/ (page = 2 /\ next) => list # "none"
    /\ ended # "no_selection"

NoFailure == \A i \in Installs : install[i].at # "failed"

Fresh ==
  /\ page <= 1 /\ timers = <<>> /\ queue = 0 /\ proc # "set"
  /\ page = 1 => ~next
  /\ \A t \in Scanners : scan[t].at = "idle"
  /\ \A a \in Adds : adds[a] = "idle"
  /\ \A i \in Installs : install[i].at # "unused" => proc = i /\ Running(i)

DownloadInv ==
  NoFailure =>
    /\ ~data => Fresh
    /\ \A i, j \in Installs : install[i].at # "unused" /\ install[j].at # "unused" => i = j
    /\ proc \in Installs => install[proc].at # "unused"
    /\ queue > 0 => \E i \in Installs : install[i].at = "ok"
    /\ ended = "download" => proc = "set" /\ \E i \in Installs : install[i].at = "ok"
-----------------------------------------------------------------------------
(* Type correctness.                                                       *)

(* Finitely many commands run.                                             *)
LEMMA AddingCount == IsFiniteSet(Adding) /\ Cardinality(Adding) \in Nat
BY AddsAssumption, FS_Subset, FS_CardinalityType DEF Adding

InstallType == [at : {"unused", "running", "ok", "failed"}, told : BOOLEAN]
ScanType == [at : {"idle", "start", "probe", "posted"}, current : BOOLEAN]
EnrolType == [pass : {1, 2}, models : 0 .. MaxModels, scan : BOOLEAN, skip : BOOLEAN]

(* The type invariant by kind of value.                                    *)
TypeBooleans == next \in BOOLEAN /\ data \in BOOLEAN /\ leftScan \in BOOLEAN

TypeNumbers ==
  page \in 0 .. 7 /\ queue \in Nat /\ watchers \in Nat /\ backs \in 0 .. MaxBacks
    /\ timers \in Seq({"slide2", "advance"})

TypeNames ==
  /\ ended \in {"no", "closed", "finished", "download", "no_camera", "no_selection",
               "cannot_open", "scan_failed"}
  /\ proc \in Installs \union {"none", "set"}
  /\ list \in {"none", "infrared", "plain"}
  /\ strays \subseteq {"download", "slide2", "list", "scan", "advance"}

TypeTables ==
  /\ install \in [Installs -> InstallType]
  /\ scan \in [Scanners -> ScanType]
  /\ asked \in [shown : BOOLEAN, buttons : BOOLEAN]
  /\ enrol \in EnrolType
  /\ adds \in [Adds -> {"idle", "starting", "running", "saved", "failed"}]

(* The type invariant in four parts, of kinds the provers take one by one. *)
LEMMA TypeParts ==
  /\ TypeOK <=> TypeBooleans /\ TypeNumbers /\ TypeNames /\ TypeTables
  /\ TypeOK' <=> TypeBooleans' /\ TypeNumbers' /\ TypeNames' /\ TypeTables'
BY DEF TypeOK, TypeBooleans, TypeNumbers, TypeNames, TypeTables, InstallType, ScanType, EnrolType

(* The entry of page 1 keeps the types of the download.                    *)
LEMMA Slide1Types ==
  ASSUME TypeOK, NEW on \in BOOLEAN, ExecuteSlide1(on)
  PROVE  /\ next' \in BOOLEAN /\ data' \in BOOLEAN
         /\ proc' \in Installs \union {"none", "set"}
         /\ install' \in [Installs -> InstallType]
         /\ queue' \in Nat /\ watchers' \in Nat
PROOF
<1>1. next' \in BOOLEAN /\ data' \in BOOLEAN
  BY Zenon DEF TypeOK, ExecuteSlide1
<1>2. proc' \in Installs \union {"none", "set"}
  BY Zenon DEF TypeOK, ExecuteSlide1
<1>3. queue' \in Nat /\ watchers' \in Nat
  <2>1. queue' \in {queue, 0} /\ watchers' \in {watchers, watchers + 1}
    BY Zenon DEF ExecuteSlide1
  <2>. QED
    BY <2>1, TypeParts DEF TypeNumbers
<1>4. install \in [Installs -> InstallType]
  BY DEF TypeOK, InstallType
<1>5. install' = install \/ \E i \in Installs : install' = [install EXCEPT ![i].at = "running"]
  BY Zenon DEF ExecuteSlide1
<1>6. install' \in [Installs -> InstallType]
  BY <1>4, <1>5 DEF InstallType
<1>. QED
  BY <1>1, <1>2, <1>3, <1>6

(* The entry of page 4 keeps the types, and the number of models.          *)
LEMMA PassTypes ==
  ASSUME NEW m \in 0 .. MaxModels
  PROVE  /\ FirstPass(m) \in EnrolType /\ FirstPass(m).models = m
         /\ SecondPass(m) \in EnrolType /\ SecondPass(m).models = m
BY DEF FirstPass, SecondPass, EnrolType

(* What the entry of a page can change.                                    *)
LEMMA Slide4Types ==
  ASSUME TypeOK, ExecuteSlide4
  PROVE  /\ proc' \in Installs \union {"none", "set"} /\ proc' \in {proc, "set"}
         /\ enrol' \in EnrolType
         /\ enrol'.models = enrol.models
         /\ ended' \in {ended, "no_selection"}
PROOF
<1>1. enrol \in EnrolType /\ enrol.models \in 0 .. MaxModels
  BY DEF TypeOK, EnrolType
<1>2. proc' \in {proc, "set"} /\ ended' \in {ended, "no_selection"}
  BY Zenon DEF ExecuteSlide4
<1>3. proc' \in Installs \union {"none", "set"}
  BY <1>2 DEF TypeOK
<1>4. \/ enrol' = enrol
      \/ enrol.models >= 1 /\ enrol' = SecondPass(enrol.models)
      \/ ~(enrol.models >= 1) /\ enrol' = FirstPass(0)
  BY Zenon DEF ExecuteSlide4
<1>5. enrol' \in EnrolType /\ enrol'.models = enrol.models
  <2>1. ~(enrol.models >= 1) => enrol.models = 0
    BY <1>1, BoundsAssumption
  <2>. QED
    BY <1>1, <1>4, <2>1, PassTypes
<1>. QED
  BY <1>2, <1>3, <1>5

LEMMA Slide3Types ==
  ASSUME TypeOK, ExecuteSlide3
  PROVE  /\ asked' \in [shown : BOOLEAN, buttons : BOOLEAN]
         /\ ended' \in {ended, "no_selection", "cannot_open"}
BY DEF TypeOK, ExecuteSlide3

(* Leaving the camera page makes every scan a stale one.                   *)
LEMMA NoGeneration ==
  ASSUME NEW s \in [Scanners -> ScanType]
  PROVE  /\ NewGeneration(s) \in [Scanners -> ScanType]
         /\ \A t \in Scanners : ~NewGeneration(s)[t].current /\ NewGeneration(s)[t].at = s[t].at
BY DEF ScanType, NewGeneration

(* What a change of page leaves alone, and what it may do.                 *)
NewPageTypes ==
  /\ TypeBooleans'
  /\ page' \in 0 .. 7 /\ queue' \in Nat /\ watchers' \in Nat
  /\ timers' \in Seq({"slide2", "advance"})
  /\ ended' \in {ended, "no_selection", "cannot_open"}
  /\ proc' \in Installs \union {"none", "set"}
  /\ list' = list /\ adds' = adds
  /\ TypeTables'
  /\ enrol'.models = enrol.models

(* A page forward keeps the types.                                         *)
LEMMA GoNextTypes ==
  ASSUME TypeOK, NEW rest \in Seq({"slide2", "advance"}), GoNext(rest)
  PROVE  NewPageTypes
PROOF
<1>0. TypeBooleans /\ TypeNumbers /\ TypeNames /\ TypeTables
  BY TypeParts
<1>1. leftScan' \in BOOLEAN
  BY <1>0, Zenon DEF TypeBooleans, GoNext, LeavePage
<1>2. CASE page = 0 /\ page' = 1 /\ timers' = rest /\ ExecuteSlide1(FALSE)
           /\ UNCHANGED <<ended, cameraVars, enrolVars>>
  <2>1. UNCHANGED <<ended, scan, list, asked, enrol, adds>> /\ page' = 1 /\ timers' = rest
    BY <1>2
  <2>2. /\ next' \in BOOLEAN /\ data' \in BOOLEAN /\ proc' \in Installs \union {"none", "set"}
        /\ install' \in [Installs -> InstallType] /\ queue' \in Nat /\ watchers' \in Nat
    BY <1>2, Slide1Types
  <2>3. TypeBooleans'
    BY <1>1, <2>2, Zenon DEF TypeBooleans
  <2>4. TypeTables'
    BY <1>0, <2>1, <2>2 DEF TypeTables
  <2>. QED
    BY <2>1, <2>2, <2>3, <2>4 DEF NewPageTypes
<1>3. CASE page = 1 /\ page' = 2 /\ next' = FALSE /\ timers' = Append(rest, "slide2")
           /\ UNCHANGED <<ended, Skipped>>
  <2>1. UNCHANGED <<ended, data, proc, install, queue, watchers, scan, list, asked, enrol, adds>>
    BY <1>3 DEF Skipped
  <2>2. page' \in 0 .. 7 /\ timers' \in Seq({"slide2", "advance"})
    BY <1>3
  <2>3. TypeBooleans'
    BY <1>0, <1>1, <1>3, <2>1, Zenon DEF TypeBooleans
  <2>4. TypeTables'
    BY <1>0, <2>1 DEF TypeTables
  <2>. QED
    BY <1>0, <2>1, <2>2, <2>3, <2>4 DEF NewPageTypes, TypeNumbers, TypeNames
<1>4. CASE /\ page = 2 /\ CancelCameraScan /\ next' = FALSE /\ timers' = rest
           /\ IF list = "plain"
              THEN /\ page' = 4
                   /\ asked' = [asked EXCEPT !.shown = FALSE]
                   /\ ExecuteSlide4
              ELSE /\ page' = 3
                   /\ ExecuteSlide3
                   /\ UNCHANGED <<proc, enrol>>
           /\ UNCHANGED <<data, install, queue, watchers, list, adds>>
  <2>1. UNCHANGED <<install, queue, watchers, list, adds>> /\ timers' = rest
        /\ scan' = NewGeneration(scan)
    BY <1>4 DEF CancelCameraScan
  <2>2. scan' \in [Scanners -> ScanType]
    BY <1>0, <2>1, NoGeneration DEF TypeTables
  <2>3. TypeBooleans'
    BY <1>0, <1>1, <1>4, Zenon DEF TypeBooleans
  <2>4. CASE list = "plain"
    <3>1. page' = 4 /\ asked' = [asked EXCEPT !.shown = FALSE] /\ ExecuteSlide4
      BY <1>4, <2>4
    <3>2. asked' \in [shown : BOOLEAN, buttons : BOOLEAN]
      BY <1>0, <3>1 DEF TypeTables
    <3>3. TypeTables'
      BY <1>0, <2>1, <2>2, <3>1, <3>2, Slide4Types DEF TypeTables
    <3>4. page' \in 0 .. 7
      BY <3>1
    <3>. QED
      BY <1>0, <2>1, <2>3, <3>1, <3>3, <3>4, Slide4Types DEF NewPageTypes, TypeNumbers
  <2>5. CASE list # "plain"
    <3>1. page' = 3 /\ ExecuteSlide3 /\ UNCHANGED <<proc, enrol>>
      BY <1>4, <2>5
    <3>3. TypeTables'
      BY <1>0, <2>1, <2>2, <3>1, Slide3Types DEF TypeTables
    <3>4. page' \in 0 .. 7
      BY <3>1
    <3>. QED
      BY <1>0, <2>1, <2>3, <3>1, <3>3, <3>4, Slide3Types DEF NewPageTypes, TypeNumbers, TypeNames
  <2>. QED
    BY <2>4, <2>5
<1>5. CASE page = 3 /\ page' = 4 /\ next' = FALSE /\ timers' = rest /\ ExecuteSlide4
           /\ UNCHANGED <<data, install, queue, watchers, cameraVars, adds>>
  <2>1. UNCHANGED <<install, queue, watchers, scan, list, asked, adds>> /\ timers' = rest
        /\ page' = 4 /\ ExecuteSlide4
    BY <1>5
  <2>3. TypeBooleans'
    BY <1>0, <1>1, <1>5, Zenon DEF TypeBooleans
  <2>4. TypeTables'
    BY <1>0, <2>1, Slide4Types DEF TypeTables
  <2>5. page' \in 0 .. 7
    BY <2>1
  <2>. QED
    BY <1>0, <2>1, <2>3, <2>4, <2>5, Slide4Types DEF NewPageTypes, TypeNumbers
<1>6. CASE /\ page \in 4 .. 7 /\ page' \in {page, page + 1} /\ page' <= 7 /\ timers' = rest
           /\ next' \in BOOLEAN /\ UNCHANGED <<ended, Skipped>>
  <2>1. UNCHANGED <<ended, data, proc, install, queue, watchers, scan, list, asked, enrol, adds>>
    BY <1>6 DEF Skipped
  <2>2. page' \in 0 .. 7 /\ timers' \in Seq({"slide2", "advance"})
    BY <1>6
  <2>3. TypeBooleans'
    BY <1>0, <1>1, <1>6, <2>1, Zenon DEF TypeBooleans
  <2>4. TypeTables'
    BY <1>0, <2>1 DEF TypeTables
  <2>. QED
    BY <1>0, <2>1, <2>2, <2>3, <2>4 DEF NewPageTypes, TypeNumbers, TypeNames
<1>7. CASE /\ page \in {4, 5} /\ page' = page + 1 /\ next' = TRUE /\ timers' = rest
           /\ UNCHANGED <<ended, Skipped>>
  <2>1. next' \in BOOLEAN
    BY <1>7, Zenon
  <2>2. page \in 4 .. 7 /\ page' \in {page, page + 1} /\ page' <= 7
    BY <1>7
  <2>. QED
    BY <1>6, <1>7, <2>1, <2>2
<1>8. CASE page = 6 /\ SaveKeyring /\ timers' = rest /\ UNCHANGED <<ended, Skipped>>
  <2>1. next' \in BOOLEAN
    BY <1>8, Zenon DEF SaveKeyring
  <2>2. page \in 4 .. 7 /\ page' \in {page, page + 1} /\ page' <= 7
    BY <1>8 DEF SaveKeyring
  <2>. QED
    BY <1>6, <1>8, <2>1, <2>2
<1>9. CASE page = 7 /\ next' = FALSE /\ timers' = rest /\ UNCHANGED <<page, ended, Skipped>>
  <2>1. next' \in BOOLEAN
    BY <1>9, Zenon
  <2>2. page \in 4 .. 7 /\ page' \in {page, page + 1} /\ page' <= 7
    BY <1>9
  <2>. QED
    BY <1>6, <1>9, <2>1, <2>2
<1>. QED
  BY <1>2, <1>3, <1>4, <1>5, <1>7, <1>8, <1>9, Zenon DEF GoNext

(* The steps of the download, the scan threads and `add`.                  *)
LEMMA TypeDownload ==
  ASSUME TypeOK, UpdateDownloadGui \/ \E i \in Installs : Download(i)
  PROVE  TypeOK'
PROOF
<1>0. TypeBooleans /\ TypeNumbers /\ TypeNames /\ TypeTables
  BY TypeParts
<1>1. CASE UpdateDownloadGui
  <2>1. TypeBooleans'
    BY <1>0, <1>1, Zenon DEF TypeBooleans, UpdateDownloadGui
  <2>2. TypeNumbers'
    BY <1>0, <1>1 DEF TypeNumbers, UpdateDownloadGui
  <2>3. TypeNames'
    BY <1>0, <1>1 DEF TypeNames, UpdateDownloadGui, Stray
  <2>4. TypeTables'
    BY <1>0, <1>1 DEF TypeTables, UpdateDownloadGui
  <2>. QED
    BY <2>1, <2>2, <2>3, <2>4, TypeParts
<1>2. ASSUME NEW i \in Installs, Download(i)
      PROVE  TypeOK'
  <2>1. TypeBooleans'
    BY <1>0, <1>2, Zenon DEF TypeBooleans, Download, LandmarkAppears, InstallEnds, ReaderEnds
  <2>2. TypeNumbers'
    BY <1>0, <1>2 DEF TypeNumbers, Download, LandmarkAppears, InstallEnds, ReaderEnds
  <2>3. TypeNames'
    BY <1>0, <1>2 DEF TypeNames, Download, LandmarkAppears, InstallEnds, ReaderEnds
  <2>4. install' \in [Installs -> InstallType]
    <3>1. install \in [Installs -> InstallType]
      BY <1>0 DEF TypeTables
    <3>2. CASE LandmarkAppears(i)
      BY <3>1, <3>2 DEF LandmarkAppears
    <3>3. CASE \E status \in {"ok", "failed"} : InstallEnds(i, status)
      BY <3>1, <3>3 DEF InstallEnds, InstallType
    <3>4. CASE ReaderEnds(i)
      BY <3>1, <3>4 DEF ReaderEnds, InstallType
    <3>. QED
      BY <1>2, <3>2, <3>3, <3>4 DEF Download
  <2>5. UNCHANGED <<scan, asked, enrol, adds>>
    BY <1>2 DEF Download, LandmarkAppears, InstallEnds, ReaderEnds
  <2>6. TypeTables'
    BY <1>0, <2>4, <2>5 DEF TypeTables
  <2>. QED
    BY <2>1, <2>2, <2>3, <2>6, TypeParts
<1>. QED
  BY <1>1, <1>2

LEMMA TypeScan ==
  ASSUME TypeOK, NEW t \in Scanners, Scan(t)
  PROVE  TypeOK'
PROOF
<1>0. TypeBooleans /\ TypeNumbers /\ TypeNames /\ TypeTables
  BY TypeParts
<1>1. TypeBooleans'
  BY <1>0, Zenon DEF TypeBooleans, Scan, NoCamera, ScanCamerasThread, UpdateCameraListGui
<1>2. TypeNumbers'
  BY <1>0 DEF TypeNumbers, Scan, NoCamera, ScanCamerasThread, UpdateCameraListGui
<1>3. TypeNames'
  BY <1>0 DEF TypeNames, Scan, NoCamera, ScanCamerasThread, UpdateCameraListGui, Stray
<1>4. scan' \in [Scanners -> ScanType]
  <2>1. scan \in [Scanners -> ScanType]
    BY <1>0 DEF TypeTables
  <2>2. CASE NoCamera(t)
    BY <2>1, <2>2 DEF NoCamera
  <2>3. CASE ScanCamerasThread(t)
    <3>1. ScanNext(t) \in {"idle", "probe", "posted"}
      BY DEF ScanNext
    <3>. QED
      BY <2>1, <2>3, <3>1 DEF ScanCamerasThread, ScanType
  <2>4. CASE UpdateCameraListGui(t)
    BY <2>1, <2>4 DEF UpdateCameraListGui, ScanType
  <2>. QED
    BY <2>2, <2>3, <2>4 DEF Scan
<1>5. UNCHANGED <<install, asked, enrol, adds>>
  BY DEF Scan, NoCamera, ScanCamerasThread, UpdateCameraListGui
<1>. QED
  BY <1>0, <1>1, <1>2, <1>3, <1>4, <1>5, TypeParts DEF TypeTables

(* The commands: a model that is saved was announced by its command.       *)
LEMMA AddLeaves ==
  ASSUME TypeOK, NEW a \in Adding, adds' = [adds EXCEPT ![a] = "idle"]
  PROVE  Adding' = Adding \ {a} /\ Cardinality(Adding') = Cardinality(Adding) - 1
                                /\ Cardinality(Adding) \in Nat \ {0}
PROOF
<1>1. Adding' = Adding \ {a}
  BY DEF TypeOK, Adding
<1>2. Cardinality(Adding \ {a}) = Cardinality(Adding) - 1
  BY AddingCount, FS_RemoveElement
<1>3. Cardinality(Adding) # 0
  BY AddingCount, FS_EmptySet
<1>. QED
  BY <1>1, <1>2, <1>3, AddingCount

(* A command counts from its click until its end has been told.            *)
LEMMA AddGoesOn ==
  ASSUME TypeOK, NEW a \in Adding, NEW to \in {"running", "saved", "failed"},
         adds' = [adds EXCEPT ![a] = to]
  PROVE  Adding' = Adding
BY DEF TypeOK, Adding

LEMMA AddBegins ==
  ASSUME TypeOK, NEW a \in Adds, adds[a] = "idle", adds' = [adds EXCEPT ![a] = "starting"]
  PROVE  /\ Adding' = Adding \union {a}
         /\ Cardinality(Adding') = Cardinality(Adding) + 1
PROOF
<1>0. adds \in [Adds -> {"idle", "starting", "running", "saved", "failed"}]
  BY DEF TypeOK
<1>1. a \notin Adding /\ \A b \in Adds : adds'[b] = IF b = a THEN "starting" ELSE adds[b]
  BY <1>0 DEF Adding
<1>2. Adding' = Adding \union {a}
  BY <1>1 DEF Adding
<1>. QED
  BY <1>1, <1>2, AddingCount, FS_AddElement

(* A model is counted when its command no longer is.                       *)
LEMMA TypeAdd ==
  ASSUME TypeOK, ModelsBounded, NEW a \in Adds, Add(a)
  PROVE  TypeOK' /\ ModelsBounded'
PROOF
<1>0. TypeBooleans /\ TypeNumbers /\ TypeNames /\ TypeTables
  BY TypeParts
<1>1. CASE RunAdd(a) \/ \E status \in {"saved", "failed"} : AddEnds(a, status)
  <2>1. UNCHANGED <<page, next, ended, timers, downloadVars, cameraVars, enrol, ghosts>>
    BY <1>1 DEF RunAdd, AddEnds
  <2>2. PICK to \in {"running", "saved", "failed"} : adds' = [adds EXCEPT ![a] = to]
    BY <1>1 DEF RunAdd, AddEnds
  <2>3. a \in Adding
    BY <1>1 DEF RunAdd, AddEnds, Adding
  <2>4. Adding' = Adding
    BY <2>2, <2>3, AddGoesOn
  <2>5. TypeTables'
    BY <1>0, <2>1, <2>2 DEF TypeTables
  <2>6. TypeBooleans'
    BY <1>0, <2>1, Zenon DEF TypeBooleans
  <2>7. TypeNumbers' /\ TypeNames'
    BY <1>0, <2>1 DEF TypeNumbers, TypeNames
  <2>8. ModelsBounded'
    BY <2>1, <2>4 DEF ModelsBounded
  <2>. QED
    BY <2>5, <2>6, <2>7, <2>8, TypeParts
<1>2. CASE OnAddFinished(a)
  <2>0. adds[a] \in {"saved", "failed"} /\ adds' = [adds EXCEPT ![a] = "idle"] /\ a \in Adding
    BY <1>2 DEF OnAddFinished, Adding
  <2>1. UNCHANGED <<page, next, data, proc, install, queue, watchers, scan, list, asked, backs, leftScan>>
    BY <1>2 DEF OnAddFinished
  <2>2. /\ timers' \in {timers, Append(timers, "advance")} /\ ended' \in {ended, "scan_failed"}
        /\ strays' \subseteq strays \union {"scan"}
    BY <1>2, Zenon DEF OnAddFinished, Stray
  <2>3. TypeBooleans'
    BY <1>0, <2>1, Zenon DEF TypeBooleans
  <2>11. timers' \in Seq({"slide2", "advance"})
    <3>1. timers \in Seq({"slide2", "advance"})
      BY <1>0 DEF TypeNumbers
    <3>2. timers' = timers \/ timers' = Append(timers, "advance")
      BY <2>2
    <3>. QED
      BY <3>1, <3>2
  <2>4. TypeNumbers'
    BY <1>0, <2>1, <2>11 DEF TypeNumbers
  <2>5. TypeNames'
    BY <1>0, <2>1, <2>2 DEF TypeNames
  <2>6. /\ Cardinality(Adding') = Cardinality(Adding) - 1
        /\ Cardinality(Adding) \in Nat \ {0}
    BY <2>0, AddLeaves
  <2>7. enrol \in EnrolType /\ enrol.models \in 0 .. MaxModels /\ enrol.models + 1 \in 0 .. MaxModels
    BY <1>0, <2>6, BoundsAssumption DEF TypeTables, EnrolType, ModelsBounded
  <2>8. enrol' \in EnrolType /\ enrol'.models \in {enrol.models, enrol.models + 1}
    <3>1. CASE enrol' = [enrol EXCEPT !.scan = TRUE, !.skip = enrol.pass = 2]
      BY <3>1, <2>7 DEF EnrolType
    <3>2. CASE enrol' = SecondPass(enrol.models + 1)
      BY <3>2, <2>7, PassTypes
    <3>3. CASE enrol' = [enrol EXCEPT !.models = @ + 1]
      BY <3>3, <2>7 DEF EnrolType
    <3>. QED
      BY <1>2, <3>1, <3>2, <3>3 DEF OnAddFinished
  <2>9. TypeTables'
    BY <1>0, <2>0, <2>1, <2>8 DEF TypeTables
  <2>10. ModelsBounded'
    BY <2>6, <2>7, <2>8, BoundsAssumption DEF ModelsBounded
  <2>. QED
    BY <2>3, <2>4, <2>5, <2>9, <2>10, TypeParts
<1>. QED
  BY <1>1, <1>2 DEF Add

(* The timers: a page is set up, or turned.                                *)
LEMMA TypeTimer ==
  ASSUME TypeOK, RunTimer
  PROVE  TypeOK' /\ enrol'.models = enrol.models /\ adds' = adds
PROOF
<1>0. TypeBooleans /\ TypeNumbers /\ TypeNames /\ TypeTables
  BY TypeParts
<1>1. Tail(timers) \in Seq({"slide2", "advance"})
  BY <1>0 DEF RunTimer, TypeNumbers
<1>2. CASE ExecuteSlide2(Tail(timers))
  <2>1. TypeBooleans'
    BY <1>0, <1>2, Zenon DEF TypeBooleans, ExecuteSlide2
  <2>2. TypeNumbers'
    BY <1>0, <1>1, <1>2 DEF TypeNumbers, ExecuteSlide2
  <2>3. TypeNames'
    BY <1>0, <1>2 DEF TypeNames, ExecuteSlide2, Stray
  <2>4. PICK t \in Scanners :
           scan' = [NewGeneration(scan) EXCEPT ![t] = [at |-> "start", current |-> TRUE]]
    BY <1>2 DEF ExecuteSlide2
  <2>5. scan' \in [Scanners -> ScanType]
    <3>1. NewGeneration(scan) \in [Scanners -> ScanType]
      BY <1>0, NoGeneration DEF TypeTables
    <3>2. [at |-> "start", current |-> TRUE] \in ScanType
      BY DEF ScanType
    <3>. QED
      BY <2>4, <3>1, <3>2
  <2>6. UNCHANGED <<install, asked, enrol, adds>>
    BY <1>2 DEF ExecuteSlide2
  <2>. QED
    BY <1>0, <2>1, <2>2, <2>3, <2>5, <2>6, TypeParts DEF TypeTables
<1>3. CASE GoNext(Tail(timers)) /\ Stray("advance", 4) /\ UNCHANGED backs
  <2>1. NewPageTypes
    BY <1>1, <1>3, GoNextTypes
  <2>2. strays' \subseteq strays \union {"advance"}
    BY <1>3, Zenon DEF Stray
  <2>3. TypeNames'
    BY <1>0, <2>1, <2>2 DEF NewPageTypes, TypeNames
  <2>4. TypeNumbers'
    BY <1>0, <1>3, <2>1 DEF NewPageTypes, TypeNumbers
  <2>. QED
    BY <2>1, <2>3, <2>4, TypeParts DEF NewPageTypes
<1>. QED
  BY <1>2, <1>3 DEF RunTimer

(* A page back keeps the types and touches no command.                     *)
LEMMA TypePrev ==
  ASSUME TypeOK, GoPrev
  PROVE  TypeOK' /\ enrol'.models = enrol.models /\ adds' = adds
PROOF
<1>0. TypeBooleans /\ TypeNumbers /\ TypeNames /\ TypeTables
  BY TypeParts
<1>1. page' \in 0 .. 7 /\ backs' \in 0 .. MaxBacks
  BY <1>0, BoundsAssumption DEF TypeNumbers, GoPrev, PageBefore
<1>2. UNCHANGED <<list, asked, adds, strays>>
  BY DEF GoPrev
<1>3. scan' \in [Scanners -> ScanType]
  <2>1. scan' = NewGeneration(scan) \/ scan' = scan
    BY Zenon DEF GoPrev, CancelCameraScan
  <2>. QED
    BY <1>0, <2>1, NoGeneration DEF TypeTables
<1>4. leftScan' \in BOOLEAN
  BY <1>0, Zenon DEF TypeBooleans, GoPrev, LeavePage
<1>5. CASE ExecuteSlide1(TRUE) /\ UNCHANGED <<timers, ended, enrol>>
  <2>1. /\ next' \in BOOLEAN /\ data' \in BOOLEAN /\ proc' \in Installs \union {"none", "set"}
        /\ install' \in [Installs -> InstallType] /\ queue' \in Nat /\ watchers' \in Nat
    <3>1. TRUE \in BOOLEAN
      OBVIOUS
    <3>. QED
      BY <1>5, <3>1, Slide1Types
  <2>2. TypeBooleans'
    BY <1>4, <2>1, Zenon DEF TypeBooleans
  <2>3. UNCHANGED <<timers, ended, enrol>>
    BY <1>5
  <2>4. TypeTables'
    BY <1>0, <1>2, <1>3, <2>1, <2>3 DEF TypeTables
  <2>5. TypeNumbers' /\ TypeNames'
    BY <1>0, <1>1, <1>2, <2>1, <2>3 DEF TypeNumbers, TypeNames
  <2>. QED
    BY <1>2, <2>2, <2>3, <2>4, <2>5, TypeParts
<1>6. CASE /\ timers' \in {timers, Append(timers, "slide2")} /\ next' = TRUE
           /\ UNCHANGED <<downloadVars, ended, enrol>>
  <2>1. UNCHANGED <<data, proc, install, queue, watchers, ended, enrol>>
        /\ timers' \in {timers, Append(timers, "slide2")}
    BY <1>6
  <2>2. TypeBooleans'
    BY <1>0, <1>4, <1>6, <2>1, Zenon DEF TypeBooleans
  <2>4. TypeTables'
    BY <1>0, <1>2, <1>3, <2>1 DEF TypeTables
  <2>3. timers' \in Seq({"slide2", "advance"})
    BY <1>0, <2>1 DEF TypeNumbers
  <2>5. TypeNumbers' /\ TypeNames'
    BY <1>0, <1>1, <1>2, <2>1, <2>3 DEF TypeNumbers, TypeNames
  <2>. QED
    BY <1>2, <2>1, <2>2, <2>4, <2>5, TypeParts
<1>7. CASE /\ ExecuteSlide4 /\ next' = TRUE
           /\ UNCHANGED <<data, install, queue, watchers, timers>>
  <2>1. UNCHANGED <<install, queue, watchers, timers>> /\ ExecuteSlide4
    BY <1>7
  <2>2. TypeBooleans'
    BY <1>0, <1>4, <1>7, Zenon DEF TypeBooleans
  <2>4. TypeTables' /\ enrol'.models = enrol.models
    BY <1>0, <1>2, <1>3, <2>1, Slide4Types DEF TypeTables
  <2>5. TypeNumbers' /\ TypeNames'
    BY <1>0, <1>1, <1>2, <2>1, Slide4Types DEF TypeNumbers, TypeNames
  <2>. QED
    BY <1>2, <2>2, <2>4, <2>5, TypeParts
<1>. QED
  BY <1>5, <1>6, <1>7, Zenon DEF GoPrev

LEMMA TypeUser ==
  ASSUME TypeOK, ModelsBounded, User
  PROVE  TypeOK' /\ ModelsBounded'
PROOF
<1>0. TypeBooleans /\ TypeNumbers /\ TypeNames /\ TypeTables
  BY TypeParts
<1>1. ASSUME GoNext(timers), UNCHANGED <<backs, strays>>
      PROVE  TypeOK' /\ ModelsBounded'
  <2>1. NewPageTypes
    BY <1>0, <1>1, GoNextTypes DEF TypeNumbers
  <2>2. TypeNames' /\ TypeNumbers'
    BY <1>0, <1>1, <2>1 DEF NewPageTypes, TypeNames, TypeNumbers
  <2>3. Adding' = Adding
    BY <2>1 DEF NewPageTypes, Adding
  <2>. QED
    BY <2>1, <2>2, <2>3, TypeParts DEF NewPageTypes, ModelsBounded
<1>2. CASE GoPrev
  <2>1. Adding' = Adding
    BY <1>2, TypePrev DEF Adding
  <2>. QED
    BY <1>2, <2>1, TypePrev DEF ModelsBounded
<1>3. CASE SelectCamera \/ Slide3ButtonNo \/ Finish \/ Close \/ OnSkipButtonClick
  <2>0. UNCHANGED <<page, next, data, proc, install, queue, watchers, scan, enrol, adds,
                    backs, strays, leftScan>>
    BY <1>3 DEF SelectCamera, Slide3ButtonNo, Finish, Close, OnSkipButtonClick
  <2>1. TypeBooleans'
    BY <1>0, <2>0, Zenon DEF TypeBooleans
  <2>2. timers' \in {timers, Append(timers, "advance")} /\ list' \in {list, "infrared", "plain"}
        /\ ended' \in {ended, "finished", "closed"}
    BY <1>3 DEF SelectCamera, Slide3ButtonNo, Finish, Close, OnSkipButtonClick
  <2>3. asked' \in [shown : BOOLEAN, buttons : BOOLEAN]
    BY <1>0, <1>3 DEF TypeTables, SelectCamera, Slide3ButtonNo, Finish, Close, OnSkipButtonClick
  <2>7. timers' \in Seq({"slide2", "advance"})
    BY <1>0, <2>2 DEF TypeNumbers
  <2>4. TypeNumbers' /\ TypeNames'
    BY <1>0, <2>0, <2>2, <2>7 DEF TypeNumbers, TypeNames
  <2>5. TypeTables'
    BY <1>0, <2>0, <2>3 DEF TypeTables
  <2>6. ModelsBounded'
    BY <2>0 DEF ModelsBounded, Adding
  <2>. QED
    BY <2>1, <2>4, <2>5, <2>6, TypeParts
<1>4. ASSUME Bounded, NEW a \in Adds, OnScanButtonClick(a)
      PROVE  TypeOK' /\ ModelsBounded'
  <2>0. UNCHANGED <<page, next, ended, timers, data, proc, install, queue, watchers, scan, list, asked,
                    backs, strays, leftScan>>
    BY <1>4 DEF OnScanButtonClick
  <2>1. TypeBooleans'
    BY <1>0, <2>0, Zenon DEF TypeBooleans
  <2>2. TypeNumbers' /\ TypeNames'
    BY <1>0, <2>0 DEF TypeNumbers, TypeNames
  <2>3. enrol' \in EnrolType /\ enrol'.models = enrol.models
    BY <1>0, <1>4 DEF TypeTables, OnScanButtonClick, EnrolType
  <2>4. adds[a] = "idle" /\ adds' = [adds EXCEPT ![a] = "starting"]
    BY <1>4 DEF OnScanButtonClick
  <2>5. Cardinality(Adding') = Cardinality(Adding) + 1
    BY <2>4, AddBegins
  <2>6. TypeTables'
    BY <1>0, <2>0, <2>3, <2>4 DEF TypeTables
  <2>7. ModelsBounded'
    <3>1. enrol.models \in Nat /\ Cardinality(Adding) \in Nat
      BY <1>0, AddingCount, BoundsAssumption DEF TypeTables, EnrolType
    <3>. QED
      BY <1>4, <2>3, <2>5, <3>1, BoundsAssumption DEF Bounded, ModelsBounded
  <2>. QED
    BY <2>1, <2>2, <2>6, <2>7, TypeParts
<1>. QED
  BY <1>1, <1>2, <1>3, <1>4 DEF User, ClickNext, Slide3ButtonYes

(* Types and the bound on the models, for every step.                      *)
LEMMA TypeStep ==
  ASSUME TypeOK, ModelsBounded, [Next]_vars
  PROVE  TypeOK' /\ ModelsBounded'
PROOF
<1>1. CASE User
  BY <1>1, TypeUser
<1>2. CASE RunTimer
  BY <1>2, TypeTimer DEF ModelsBounded, Adding
<1>3. CASE UpdateDownloadGui \/ \E i \in Installs : Download(i)
  <2>1. UNCHANGED <<enrol, adds>>
    BY <1>3 DEF UpdateDownloadGui, Download, LandmarkAppears, InstallEnds, ReaderEnds
  <2>. QED
    BY <1>3, <2>1, TypeDownload DEF ModelsBounded, Adding
<1>4. ASSUME NEW t \in Scanners, Scan(t)
      PROVE  TypeOK' /\ ModelsBounded'
  <2>1. UNCHANGED <<enrol, adds>>
    BY <1>4 DEF Scan, NoCamera, ScanCamerasThread, UpdateCameraListGui
  <2>. QED
    BY <1>4, <2>1, TypeScan DEF ModelsBounded, Adding
<1>5. ASSUME NEW a \in Adds, Add(a)
      PROVE  TypeOK' /\ ModelsBounded'
  BY <1>5, TypeAdd
<1>6. CASE UNCHANGED vars
  <2>1. TypeBooleans' <=> TypeBooleans
    BY <1>6, Zenon DEF TypeBooleans
  <2>2. TypeNumbers' <=> TypeNumbers
    BY <1>6, Zenon DEF TypeNumbers
  <2>3. TypeNames' <=> TypeNames
    BY <1>6, Zenon DEF TypeNames
  <2>4. TypeTables' <=> TypeTables
    BY <1>6, Zenon DEF TypeTables
  <2>5. ModelsBounded'
    BY <1>6 DEF ModelsBounded, Adding
  <2>. QED
    BY <2>1, <2>2, <2>3, <2>4, <2>5, TypeParts
<1>. QED
  BY <1>1, <1>2, <1>3, <1>4, <1>5, <1>6 DEF Next, Background

-----------------------------------------------------------------------------
(* One command at a time.                                                  *)
LEMMA AddsStay ==
  ASSUME OneAdd, UNCHANGED <<page, adds, leftScan>>, enrol'.scan = enrol.scan
  PROVE  OneAdd'
BY DEF OneAdd, Adding

(* Who leaves the page while a command runs is remembered.                 *)
LEMMA AddsLeave ==
  ASSUME OneAdd, LeavePage, adds' = adds
  PROVE  OneAdd'
BY DEF OneAdd, Adding, LeavePage

(* OneAdd is inductive with the types.                                     *)
LEMMA OneAddStep ==
  ASSUME TypeOK, OneAdd, [Next]_vars
  PROVE  OneAdd'
PROOF
<1>1. CASE ClickNext \/ Slide3ButtonYes
  <2>1. GoNext(timers)
    BY <1>1 DEF ClickNext, Slide3ButtonYes
  <2>2. NewPageTypes
    BY <2>1, GoNextTypes, TypeParts DEF TypeNumbers
  <2>. QED
    BY <2>1, <2>2, AddsLeave DEF GoNext, NewPageTypes
<1>2. CASE GoPrev
  BY <1>2, AddsLeave DEF GoPrev
<1>3. CASE SelectCamera \/ Slide3ButtonNo \/ Finish \/ Close \/ OnSkipButtonClick
  BY <1>3, AddsStay DEF SelectCamera, Slide3ButtonNo, Finish, Close, OnSkipButtonClick
<1>4. ASSUME NEW a \in Adds, OnScanButtonClick(a)
      PROVE  OneAdd'
  <2>1. page' = 4 /\ leftScan' = leftScan /\ enrol.scan
        /\ adds[a] = "idle" /\ adds' = [adds EXCEPT ![a] = "starting"]
    BY <1>4 DEF OnScanButtonClick
  <2>2. ~enrol'.scan
    <3>1. enrol \in EnrolType
      BY TypeParts DEF TypeTables
    <3>. QED
      BY <1>4, <3>1 DEF OnScanButtonClick, EnrolType
  <2>3. Adding' = Adding \union {a}
    BY <2>1, AddBegins
  <2>. QED
    BY <2>1, <2>2, <2>3 DEF OneAdd
<1>5. CASE RunTimer
  <2>1. CASE ExecuteSlide2(Tail(timers))
    BY <2>1, AddsStay DEF ExecuteSlide2
  <2>2. CASE GoNext(Tail(timers))
    BY <1>5, <2>2, TypeTimer, AddsLeave DEF GoNext
  <2>. QED
    BY <1>5, <2>1, <2>2 DEF RunTimer
<1>6. CASE UpdateDownloadGui \/ \E i \in Installs : Download(i)
  BY <1>6, AddsStay DEF UpdateDownloadGui, Download, LandmarkAppears, InstallEnds, ReaderEnds
<1>7. CASE \E t \in Scanners : Scan(t)
  BY <1>7, AddsStay DEF Scan, NoCamera, ScanCamerasThread, UpdateCameraListGui
<1>8. ASSUME NEW a \in Adds, Add(a)
      PROVE  OneAdd'
  <2>1. CASE RunAdd(a) \/ \E status \in {"saved", "failed"} : AddEnds(a, status)
    <3>1. UNCHANGED <<page, enrol, leftScan>>
      BY <2>1 DEF RunAdd, AddEnds
    <3>2. \E to \in {"running", "saved", "failed"} : adds' = [adds EXCEPT ![a] = to]
      BY <2>1 DEF RunAdd, AddEnds
    <3>3. a \in Adding
      BY <2>1 DEF RunAdd, AddEnds, Adding
    <3>4. Adding' = Adding
      BY <3>2, <3>3, AddGoesOn
    <3>. QED
      BY <3>1, <3>4 DEF OneAdd
  <2>2. CASE OnAddFinished(a)
    <3>1. a \in Adding /\ adds' = [adds EXCEPT ![a] = "idle"] /\ UNCHANGED leftScan
      BY <2>2 DEF OnAddFinished, Adding
    <3>2. Adding' = Adding \ {a}
      BY <3>1, AddLeaves
    <3>. QED
      BY <3>1, <3>2 DEF OneAdd
  <2>. QED
    BY <1>8, <2>1, <2>2 DEF Add
<1>9. CASE UNCHANGED vars
  BY <1>9, AddsStay
<1>. QED
  BY <1>1, <1>2, <1>3, <1>4, <1>5, <1>6, <1>7, <1>8, <1>9
     DEF Next, User, Background

(* At most one element is at most one in number.                           *)
LEMMA OneAddMeansOne ==
  ASSUME OneAdd
  PROVE  OneAddAtATime
PROOF
<1>. SUFFICES ASSUME ~leftScan
              PROVE  Cardinality(Adding) <= 1
  BY AddingCount DEF OneAddAtATime
<1>1. CASE Adding = {}
  BY <1>1, FS_EmptySet
<1>2. CASE Adding # {}
  <2>1. PICK a : Adding = {a}
    BY <1>2 DEF OneAdd
  <2>. QED
    <3>1. Cardinality(Adding) = 1
      BY <2>1, FS_Singleton, Zenon
    <3>. QED
      BY <3>1
<1>. QED
  BY <1>1, <1>2

-----------------------------------------------------------------------------
(* The pages.                                                              *)

(* Where the wizard goes on from each page.                                *)
Forward ==
  /\ page' # page => page' > page /\ page # 7
  /\ page = 4 => page' = 5
  /\ page < 4 => page' <= 4
  /\ page < 2 => page' = page + 1
  /\ page' \in {2, 4} => ~next'
  /\ scan' = IF page = 2 THEN NewGeneration(scan) ELSE scan
  /\ ended' = "no_selection" => ended = "no_selection" \/ (page \in {2, 3} /\ list = "none")

(* A page forward goes as Forward says.                                    *)
LEMMA GoNextForward ==
  ASSUME TypeOK, NEW rest \in Seq({"slide2", "advance"}), GoNext(rest)
  PROVE  Forward /\ timers' \in {rest, Append(rest, "slide2")}
PROOF
<1>0. page \in 0 .. 7
  BY TypeParts DEF TypeNumbers
<1>1. timers' \in {rest, Append(rest, "slide2")}
  BY Zenon DEF GoNext
<1>2. CASE page = 0
  <2>1. page' = 1 /\ UNCHANGED <<ended, scan>>
    BY <1>2 DEF GoNext
  <2>. QED
    BY <1>1, <1>2, <2>1 DEF Forward
<1>3. CASE page = 1
  <2>1. page' = 2 /\ ~next' /\ UNCHANGED <<ended, scan>>
    BY <1>3 DEF GoNext, Skipped
  <2>. QED
    BY <1>1, <1>3, <2>1 DEF Forward
<1>4. CASE page = 2
  <2>1. /\ CancelCameraScan /\ next' = FALSE
        /\ \/ page' = 3 /\ ExecuteSlide3
           \/ page' = 4 /\ ExecuteSlide4
    BY <1>4 DEF GoNext
  <2>2. scan' = NewGeneration(scan) /\ page' \in {3, 4}
    BY <2>1 DEF CancelCameraScan
  <2>3. ~next'
    BY <2>1, Zenon
  <2>4. ended' = "no_selection" => ended = "no_selection" \/ list = "none"
    BY <2>1 DEF ExecuteSlide3, ExecuteSlide4
  <2>. QED
    BY <1>1, <1>4, <2>2, <2>3, <2>4 DEF Forward
<1>5. CASE page = 3
  <2>1. page' = 4 /\ next' = FALSE /\ scan' = scan /\ ExecuteSlide4
    BY <1>5 DEF GoNext
  <2>2. ~next'
    BY <2>1, Zenon
  <2>3. ended' = "no_selection" => ended = "no_selection" \/ list = "none"
    BY <2>1 DEF ExecuteSlide4
  <2>. QED
    BY <1>1, <1>5, <2>1, <2>2, <2>3 DEF Forward
<1>6. CASE page \in {4, 5}
  <2>1. page' = page + 1 /\ UNCHANGED <<ended, scan>>
    <3>1. page \notin {0, 1, 2, 3, 6, 7}
      BY <1>6
    <3>. QED
      BY <1>6, <3>1 DEF GoNext, Skipped
  <2>. QED
    BY <1>1, <1>6, <2>1 DEF Forward
<1>7. CASE page \in {6, 7}
  <2>0. page \notin {0, 1, 2, 3, 4, 5}
    BY <1>7
  <2>1. page' \in {page, 7} /\ UNCHANGED <<ended, scan>>
    BY <1>7, <2>0 DEF GoNext, Skipped, SaveKeyring
  <2>. QED
    BY <1>1, <1>7, <2>1 DEF Forward
<1>. QED
  BY <1>0, <1>1, <1>2, <1>3, <1>4, <1>5, <1>6, <1>7

(* And where Back leads.                                                   *)
Backward ==
  /\ page > 0 /\ page' < page
  /\ page = 4 => page' \in {2, 3}
  /\ page # 4 => page' = page - 1
  /\ scan' = IF page = 2 THEN NewGeneration(scan) ELSE scan
  /\ ended' = "no_selection" => ended = "no_selection" \/ (page = 5 /\ list = "none")
  /\ ended' \in {ended, "no_selection"}
  /\ timers' \in {timers, Append(timers, "slide2")}
  /\ UNCHANGED <<list, strays>>

(* A page back goes as Backward says, and leaves models alone.             *)
LEMMA GoPrevBackward ==
  ASSUME TypeOK, GoPrev
  PROVE  Backward
PROOF
<1>0. page \in 1 .. 7 /\ page' = PageBefore
  BY TypeParts DEF TypeNumbers, GoPrev
<1>1. PageBefore \in {2, page - 1} /\ (page # 4 => PageBefore = page - 1)
  BY DEF PageBefore
<1>2. scan' = IF page = 2 THEN NewGeneration(scan) ELSE scan
  BY DEF GoPrev, CancelCameraScan
<1>3. timers' \in {timers, Append(timers, "slide2")} /\ UNCHANGED <<list, strays>>
  BY Zenon DEF GoPrev
<1>4. ended' \in {ended, "no_selection"}
      /\ (ended' = "no_selection" => ended = "no_selection" \/ (PageBefore = 4 /\ list = "none"))
  BY Zenon DEF GoPrev, ExecuteSlide4
<1>5. PageBefore = 4 => page = 5
  BY <1>0, <1>1
<1>6. page > 0 /\ page' < page /\ (page = 4 => page' \in {2, 3}) /\ (page # 4 => page' = page - 1)
  BY <1>0, <1>1 DEF PageBefore
<1>. QED
  BY <1>2, <1>3, <1>4, <1>5, <1>6 DEF Backward

(* Timers that wait, in order.                                             *)
LEMMA AdvanceAppend ==
  ASSUME NEW s \in Seq({"slide2", "advance"}), NEW x \in {"slide2", "advance"},
         AdvanceIn(Append(s, x)), x # "advance"
  PROVE  AdvanceIn(s)
BY DEF AdvanceIn

(* A timer that fires leaves the others.                                   *)
LEMMA AdvanceTail ==
  ASSUME NEW s \in Seq({"slide2", "advance"}), s # <<>>
  PROVE  /\ Tail(s) \in Seq({"slide2", "advance"})
         /\ AdvanceIn(Tail(s)) => AdvanceIn(s)
         /\ Head(s) = "advance" => AdvanceIn(s)
PROOF
<1>1. Tail(s) \in Seq({"slide2", "advance"}) /\ Len(s) \in Nat \ {0}
  OBVIOUS
<1>2. ASSUME AdvanceIn(Tail(s))
      PROVE  AdvanceIn(s)
  <2>1. PICK i \in 1..Len(Tail(s)) : Tail(s)[i] = "advance"
    BY <1>2 DEF AdvanceIn
  <2>2. Len(Tail(s)) = Len(s) - 1 /\ Tail(s)[i] = s[i + 1] /\ i + 1 \in 1..Len(s)
    BY <1>1, <2>1
  <2>. QED
    BY <2>1, <2>2 DEF AdvanceIn
<1>3. Head(s) = s[1] /\ 1 \in 1..Len(s)
  BY <1>1
<1>. QED
  BY <1>1, <1>2, <1>3 DEF AdvanceIn

(* A callback that came on its own page leaves no trace.                   *)
LEMMA StrayHome ==
  ASSUME NEW callback, NEW home, Stray(callback, home)
  PROVE  /\ strays \subseteq strays'
         /\ callback \notin strays' => page = home
BY DEF Stray

ScansHome == \A t \in Scanners : scan[t].current => page = 2

(* Only the camera page has scans of its own.                              *)
LEMMA LeaveScans ==
  ASSUME TypeOK, ScansHome, scan' = IF page = 2 THEN NewGeneration(scan) ELSE scan
  PROVE  ScansHome'
PROOF
<1>1. scan \in [Scanners -> ScanType]
  BY TypeParts DEF TypeTables
<1>. QED
  BY <1>1, NoGeneration DEF ScansHome

Clean == strays \intersect {"download", "slide2"} = {}

LEMMA FirstInvParts ==
  /\ FirstInv <=> /\ AdvanceIn(timers) => enrol.models > 0
                  /\ Clean => /\ page = 4 /\ next => enrol.models > 0
                              /\ page > 4 => enrol.models > 0
                              /\ ScansHome
  /\ FirstInv' <=> /\ AdvanceIn(timers') => enrol'.models > 0
                   /\ Clean' => /\ page' = 4 /\ next' => enrol'.models > 0
                                /\ page' > 4 => enrol'.models > 0
                                /\ ScansHome'
BY DEF FirstInv, Clean, ScansHome, AdvanceIn

(* FirstInv is inductive with the types.                                   *)
LEMMA FirstScanStep ==
  ASSUME TypeOK, FirstInv, [Next]_vars
  PROVE  FirstInv'
PROOF
<1>0. timers \in Seq({"slide2", "advance"}) /\ page \in 0 .. 7
  BY TypeParts DEF TypeNumbers
<1>1. CASE ClickNext \/ Slide3ButtonYes
  <2>1. GoNext(timers) /\ strays' = strays /\ (page = 3 \/ next)
    BY <1>1 DEF ClickNext, Slide3ButtonYes
  <2>2. NewPageTypes /\ Forward /\ timers' \in {timers, Append(timers, "slide2")}
    BY <1>0, <2>1, GoNextTypes, GoNextForward
  <2>3. page' \in 0 .. 7 /\ enrol'.models = enrol.models
    BY <2>2 DEF NewPageTypes
  <2>4. AdvanceIn(timers') => AdvanceIn(timers)
    BY <1>0, <2>2, AdvanceAppend
  <2>5. Clean' <=> Clean
    BY <2>1 DEF Clean
  <2>6. ScansHome => ScansHome'
    BY <2>2, LeaveScans DEF Forward
  <2>7. ~(page' = 4 /\ next' /\ page # 4)
    BY <2>2 DEF Forward
  <2>8. page = 4 => page' = 5
    BY <2>2 DEF Forward
  <2>9. page' > 4 => page >= 4
    BY <1>0, <2>2, <2>3 DEF Forward
  <2>. QED
    BY <1>0, <2>1, <2>3, <2>4, <2>5, <2>6, <2>7, <2>8, <2>9, FirstInvParts
<1>2. CASE GoPrev
  <2>1. Backward /\ enrol'.models = enrol.models
    BY <1>2, GoPrevBackward, TypePrev
  <2>2. AdvanceIn(timers') => AdvanceIn(timers)
    BY <1>0, <2>1, AdvanceAppend DEF Backward
  <2>3. Clean' <=> Clean
    BY <2>1 DEF Clean, Backward
  <2>4. ScansHome => ScansHome'
    BY <2>1, LeaveScans DEF Backward
  <2>5. page' >= 4 => page > 4
    BY <1>0, <2>1 DEF Backward
  <2>6. page' \in 0 .. 7
    BY <1>2, TypePrev, TypeParts DEF TypeNumbers
  <2>. QED
    BY <2>1, <2>2, <2>3, <2>4, <2>5, <2>6, FirstInvParts
<1>3. CASE SelectCamera \/ Slide3ButtonNo \/ Finish \/ Close
  <2>1. UNCHANGED <<page, next, timers, scan, enrol, strays>>
    BY <1>3 DEF SelectCamera, Slide3ButtonNo, Finish, Close
  <2>. QED
    BY <2>1, FirstInvParts DEF Clean, ScansHome
<1>4. CASE OnSkipButtonClick
  <2>1. UNCHANGED <<page, next, scan, enrol, strays>> /\ enrol.models > 0
    BY <1>4 DEF OnSkipButtonClick
  <2>. QED
    BY <2>1, FirstInvParts DEF Clean, ScansHome
<1>5. ASSUME NEW a \in Adds, OnScanButtonClick(a)
      PROVE  FirstInv'
  <2>1. UNCHANGED <<page, next, timers, scan, strays>>
    BY <1>5 DEF OnScanButtonClick
  <2>2. enrol'.models = enrol.models
    <3>1. enrol \in EnrolType
      BY TypeParts DEF TypeTables
    <3>. QED
      BY <1>5, <3>1 DEF OnScanButtonClick, EnrolType
  <2>. QED
    BY <2>1, <2>2, FirstInvParts DEF Clean, ScansHome
<1>6. CASE RunTimer /\ ExecuteSlide2(Tail(timers))
  <2>1. UNCHANGED <<page, enrol>> /\ timers' = Tail(timers) /\ Stray("slide2", 2) /\ ~next'
    BY <1>6 DEF ExecuteSlide2
  <2>2. AdvanceIn(timers') => AdvanceIn(timers)
    BY <1>0, <1>6, <2>1, AdvanceTail DEF RunTimer
  <2>3. Clean' => Clean /\ page = 2
    BY <2>1, StrayHome DEF Clean
  <2>4. Clean' => ScansHome'
    BY <2>1, <2>3 DEF ScansHome
  <2>. QED
    BY <1>0, <2>1, <2>2, <2>3, <2>4, FirstInvParts
<1>7. CASE RunTimer /\ Head(timers) = "advance" /\ GoNext(Tail(timers)) /\ Stray("advance", 4)
  <2>0. timers # <<>>
    BY <1>7 DEF RunTimer
  <2>1. Tail(timers) \in Seq({"slide2", "advance"}) /\ AdvanceIn(timers)
    BY <1>0, <1>7, <2>0, AdvanceTail
  <2>2. NewPageTypes /\ Forward
    BY <1>7, <2>1, GoNextTypes, GoNextForward
  <2>3. enrol'.models > 0
    BY <2>1, <2>2, FirstInvParts DEF NewPageTypes
  <2>4. Clean' => Clean
    BY <1>7, StrayHome DEF Clean
  <2>5. ScansHome => ScansHome'
    BY <2>2, LeaveScans DEF Forward
  <2>. QED
    BY <2>3, <2>4, <2>5, FirstInvParts
<1>8. CASE UpdateDownloadGui
  <2>1. UNCHANGED <<page, timers, scan, enrol>> /\ Stray("download", 1)
    BY <1>8 DEF UpdateDownloadGui
  <2>2. Clean' => Clean /\ page = 1
    BY <2>1, StrayHome DEF Clean
  <2>. QED
    BY <2>1, <2>2, FirstInvParts DEF ScansHome
<1>9. CASE \E i \in Installs : Download(i)
  <2>1. UNCHANGED <<page, next, timers, scan, enrol, strays>>
    BY <1>9 DEF Download, LandmarkAppears, InstallEnds, ReaderEnds
  <2>. QED
    BY <2>1, FirstInvParts DEF Clean, ScansHome
<1>10. ASSUME NEW t \in Scanners, Scan(t)
       PROVE  FirstInv'
  <2>0. scan \in [Scanners -> ScanType]
    BY TypeParts DEF TypeTables
  <2>1. UNCHANGED <<page, timers, enrol>>
    BY <1>10 DEF Scan, NoCamera, ScanCamerasThread, UpdateCameraListGui
  <2>2. \A u \in Scanners : scan'[u].current = scan[u].current
    BY <1>10, <2>0 DEF Scan, NoCamera, ScanCamerasThread, UpdateCameraListGui, ScanType
  <2>3. strays \subseteq strays' /\ (next' => next \/ scan[t].current)
    BY <1>10, StrayHome DEF Scan, NoCamera, ScanCamerasThread, UpdateCameraListGui
  <2>4. Clean' => Clean
    BY <2>3 DEF Clean
  <2>5. ScansHome => ScansHome' /\ (page = 4 => ~scan[t].current)
    BY <2>1, <2>2 DEF ScansHome
  <2>. QED
    BY <2>1, <2>3, <2>4, <2>5, FirstInvParts
<1>11. ASSUME NEW a \in Adds, Add(a)
       PROVE  FirstInv'
  <2>0. enrol \in EnrolType /\ enrol.models \in Nat
    BY TypeParts DEF TypeTables, EnrolType
  <2>1. UNCHANGED <<page, next, scan>>
    BY <1>11 DEF Add, RunAdd, AddEnds, OnAddFinished
  <2>2. CASE RunAdd(a) \/ \E status \in {"saved", "failed"} : AddEnds(a, status)
    <3>1. UNCHANGED <<timers, enrol, strays>>
      BY <2>2 DEF RunAdd, AddEnds
    <3>. QED
      BY <2>1, <3>1, FirstInvParts DEF Clean, ScansHome
  <2>3. CASE OnAddFinished(a)
    <3>1. \/ timers' = timers /\ enrol'.models = enrol.models
          \/ timers' = timers /\ enrol'.models = enrol.models + 1
          \/ timers' = Append(timers, "advance") /\ enrol'.models = enrol.models + 1
      <4>1. CASE /\ enrol' = [enrol EXCEPT !.scan = TRUE, !.skip = enrol.pass = 2]
                 /\ timers' = timers
        BY <2>0, <4>1 DEF EnrolType
      <4>2. CASE enrol' = SecondPass(enrol.models + 1) /\ timers' = timers
        BY <4>2 DEF SecondPass
      <4>3. CASE enrol' = [enrol EXCEPT !.models = @ + 1] /\ timers' = Append(timers, "advance")
        BY <2>0, <4>3 DEF EnrolType
      <4>. QED
        BY <2>3, <4>1, <4>2, <4>3, Zenon DEF OnAddFinished
    <3>2. strays \subseteq strays'
      BY <2>3, StrayHome DEF OnAddFinished
    <3>3. Clean' => Clean
      BY <3>2 DEF Clean
    <3>. QED
      BY <2>0, <2>1, <3>1, <3>3, FirstInvParts DEF ScansHome
  <2>. QED
    BY <1>11, <2>2, <2>3 DEF Add
<1>12. CASE UNCHANGED vars
  BY <1>12, FirstInvParts DEF Clean, ScansHome
<1>. QED
  BY <1>1, <1>2, <1>3, <1>4, <1>5, <1>6, <1>7, <1>8, <1>9, <1>10, <1>11, <1>12
     DEF Next, User, Background, RunTimer

-----------------------------------------------------------------------------
(* The errors.                                                             *)
LEMMA CameraStep ==
  ASSUME TypeOK, CameraInv, [Next]_vars
  PROVE  CameraInv'
PROOF
<1>0. timers \in Seq({"slide2", "advance"}) /\ page \in 0 .. 7
  BY TypeParts DEF TypeNumbers
<1>1. CASE ClickNext \/ Slide3ButtonYes
  <2>1. GoNext(timers) /\ strays' = strays /\ (page = 3 \/ next)
    BY <1>1 DEF ClickNext, Slide3ButtonYes
  <2>2. NewPageTypes /\ Forward
    BY <1>0, <2>1, GoNextTypes, GoNextForward
  <2>3. page' \in 0 .. 7 /\ list' = list
    BY <2>2 DEF NewPageTypes
  <2>4. ~(page' = 2 /\ next')
    BY <2>2 DEF Forward
  <2>5. page' > 2 => page >= 2
    BY <1>0, <2>2, <2>3 DEF Forward
  <2>6. ended' = "no_selection" => ended = "no_selection" \/ (page \in {2, 3} /\ list = "none")
    BY <2>2 DEF Forward
  <2>. QED
    BY <1>0, <2>1, <2>3, <2>4, <2>5, <2>6 DEF CameraInv, Settled
<1>2. CASE GoPrev
  <2>1. Backward
    BY <1>2, GoPrevBackward
  <2>2. page' >= 2 => page > 2
    BY <1>0, <2>1 DEF Backward
  <2>3. /\ UNCHANGED <<list, strays>>
        /\ ended' = "no_selection" => ended = "no_selection" \/ (page = 5 /\ list = "none")
    BY <2>1 DEF Backward
  <2>4. page' \in 0 .. 7
    BY <1>2, TypePrev, TypeParts DEF TypeNumbers
  <2>. QED
    BY <1>0, <2>2, <2>3, <2>4 DEF CameraInv, Settled
<1>3. CASE SelectCamera \/ Slide3ButtonNo \/ Finish \/ Close \/ OnSkipButtonClick
  <2>1. /\ UNCHANGED <<page, next, strays>> /\ ended' \in {ended, "finished", "closed"}
        /\ list' \in {list, "infrared", "plain"}
    BY <1>3 DEF SelectCamera, Slide3ButtonNo, Finish, Close, OnSkipButtonClick
  <2>. QED
    BY <2>1 DEF CameraInv, Settled
<1>4. CASE \E a \in Adds : OnScanButtonClick(a)
  BY <1>4 DEF OnScanButtonClick, CameraInv, Settled
<1>5. CASE ExecuteSlide2(Tail(timers))
  <2>1. UNCHANGED <<page, ended>> /\ ~next' /\ Stray("slide2", 2)
    BY <1>5 DEF ExecuteSlide2
  <2>2. Settled' => Settled /\ page = 2
    BY <2>1, StrayHome DEF Settled
  <2>. QED
    BY <2>1, <2>2 DEF CameraInv, Settled
<1>6. CASE RunTimer /\ Head(timers) = "advance" /\ GoNext(Tail(timers)) /\ Stray("advance", 4)
  <2>0. timers # <<>>
    BY <1>6 DEF RunTimer
  <2>1. Tail(timers) \in Seq({"slide2", "advance"})
    BY <1>0, <2>0, AdvanceTail
  <2>2. NewPageTypes /\ Forward
    BY <1>6, <2>1, GoNextTypes, GoNextForward
  <2>3. Settled' => Settled /\ page = 4
    BY <1>6, StrayHome DEF Settled
  <2>4. list' = list
    BY <2>2 DEF NewPageTypes
  <2>5. page = 4 => page' = 5 /\ (ended' = "no_selection" => ended = "no_selection")
    BY <2>2 DEF Forward
  <2>. QED
    BY <2>3, <2>4, <2>5 DEF CameraInv, Settled
<1>7. CASE UpdateDownloadGui
  <2>1. UNCHANGED <<page, list>> /\ Stray("download", 1) /\ ended' \in {ended, "download"}
    BY <1>7 DEF UpdateDownloadGui
  <2>2. Settled' => Settled /\ page = 1
    BY <2>1, StrayHome DEF Settled
  <2>. QED
    BY <2>1, <2>2 DEF CameraInv, Settled
<1>8. CASE \E i \in Installs : Download(i)
  <2>1. UNCHANGED <<page, next, ended, list, strays>>
    BY <1>8 DEF Download, LandmarkAppears, InstallEnds, ReaderEnds
  <2>. QED
    BY <2>1 DEF CameraInv, Settled
<1>9. ASSUME NEW t \in Scanners, Scan(t)
      PROVE  CameraInv'
  <2>1. CASE NoCamera(t) \/ ScanCamerasThread(t)
    <3>1. UNCHANGED <<page, next, list, strays>> /\ ended' \in {ended, "no_camera"}
      BY <2>1 DEF NoCamera, ScanCamerasThread
    <3>. QED
      BY <3>1 DEF CameraInv, Settled
  <2>2. CASE UpdateCameraListGui(t)
    <3>1. UNCHANGED <<page, ended>>
          /\ (list' # "none" \/ UNCHANGED <<list, next>>)
      BY <2>2 DEF UpdateCameraListGui
    <3>2. strays \subseteq strays'
      BY <2>2, StrayHome DEF UpdateCameraListGui
    <3>. QED
      BY <3>1, <3>2 DEF CameraInv, Settled
  <2>. QED
    BY <1>9, <2>1, <2>2 DEF Scan
<1>10. ASSUME NEW a \in Adds, Add(a)
       PROVE  CameraInv'
  <2>1. UNCHANGED <<page, next, list>> /\ ended' \in {ended, "scan_failed"}
    BY <1>10, Zenon DEF Add, RunAdd, AddEnds, OnAddFinished
  <2>2. strays \subseteq strays'
    BY <1>10, StrayHome DEF Add, RunAdd, AddEnds, OnAddFinished
  <2>. QED
    BY <2>1, <2>2 DEF CameraInv, Settled
<1>11. CASE UNCHANGED vars
  BY <1>11 DEF CameraInv, Settled
<1>. QED
  BY <1>1, <1>2, <1>3, <1>4, <1>5, <1>6, <1>7, <1>8, <1>9, <1>10, <1>11
     DEF Next, User, Background, RunTimer

(* The scans of the page that is shown, unless a late start opened one.    *)
HomeInv == "slide2" \notin strays => ScansHome

LEMMA HomeStep ==
  ASSUME TypeOK, HomeInv, [Next]_vars
  PROVE  HomeInv'
PROOF
<1>0. timers \in Seq({"slide2", "advance"}) /\ page \in 0 .. 7
  BY TypeParts DEF TypeNumbers
<1>1. CASE ClickNext \/ Slide3ButtonYes
  <2>1. GoNext(timers) /\ strays' = strays
    BY <1>1 DEF ClickNext, Slide3ButtonYes
  <2>2. Forward
    BY <1>0, <2>1, GoNextForward
  <2>3. ScansHome => ScansHome'
    BY <2>2, LeaveScans DEF Forward
  <2>. QED
    BY <2>1, <2>3 DEF HomeInv
<1>2. CASE GoPrev
  <2>1. Backward
    BY <1>2, GoPrevBackward
  <2>2. ScansHome => ScansHome'
    BY <2>1, LeaveScans DEF Backward
  <2>. QED
    BY <2>1, <2>2 DEF HomeInv, Backward
<1>3. CASE \/ SelectCamera \/ Slide3ButtonNo \/ Finish \/ Close \/ OnSkipButtonClick
           \/ \E a \in Adds : OnScanButtonClick(a)
  <2>1. UNCHANGED <<page, scan, strays>>
    BY <1>3 DEF SelectCamera, Slide3ButtonNo, Finish, Close, OnSkipButtonClick,
         OnScanButtonClick
  <2>. QED
    BY <2>1 DEF HomeInv, ScansHome
<1>4. CASE ExecuteSlide2(Tail(timers))
  <2>1. page' = page /\ Stray("slide2", 2)
    BY <1>4 DEF ExecuteSlide2
  <2>2. "slide2" \notin strays' => page = 2
    BY <2>1, StrayHome
  <2>. QED
    BY <2>1, <2>2 DEF HomeInv, ScansHome
<1>5. CASE RunTimer /\ GoNext(Tail(timers)) /\ Stray("advance", 4)
  <2>0. timers # <<>>
    BY <1>5 DEF RunTimer
  <2>1. Tail(timers) \in Seq({"slide2", "advance"})
    BY <1>0, <2>0, AdvanceTail
  <2>2. Forward
    BY <1>5, <2>1, GoNextForward
  <2>3. ScansHome => ScansHome'
    BY <2>2, LeaveScans DEF Forward
  <2>4. strays \subseteq strays'
    BY <1>5, StrayHome
  <2>. QED
    BY <2>3, <2>4 DEF HomeInv
<1>6. CASE UpdateDownloadGui
  <2>1. UNCHANGED <<page, scan>> /\ strays \subseteq strays'
    BY <1>6, StrayHome DEF UpdateDownloadGui
  <2>. QED
    BY <2>1 DEF HomeInv, ScansHome
<1>7. CASE \E i \in Installs : Download(i)
  <2>1. UNCHANGED <<page, scan, strays>>
    BY <1>7 DEF Download, LandmarkAppears, InstallEnds, ReaderEnds
  <2>. QED
    BY <2>1 DEF HomeInv, ScansHome
<1>8. ASSUME NEW t \in Scanners, Scan(t)
      PROVE  HomeInv'
  <2>0. scan \in [Scanners -> ScanType]
    BY TypeParts DEF TypeTables
  <2>1. page' = page /\ \A u \in Scanners : scan'[u].current = scan[u].current
    BY <1>8, <2>0 DEF Scan, NoCamera, ScanCamerasThread, UpdateCameraListGui, ScanType
  <2>2. strays \subseteq strays'
    BY <1>8, StrayHome DEF Scan, NoCamera, ScanCamerasThread, UpdateCameraListGui
  <2>. QED
    BY <2>1, <2>2 DEF HomeInv, ScansHome
<1>9. ASSUME NEW a \in Adds, Add(a)
      PROVE  HomeInv'
  <2>1. UNCHANGED <<page, scan>> /\ strays \subseteq strays'
    BY <1>9, StrayHome DEF Add, RunAdd, AddEnds, OnAddFinished
  <2>. QED
    BY <2>1 DEF HomeInv, ScansHome
<1>10. CASE UNCHANGED vars
  BY <1>10 DEF HomeInv, ScansHome
<1>. QED
  BY <1>1, <1>2, <1>3, <1>4, <1>5, <1>6, <1>7, <1>8, <1>9, <1>10
     DEF Next, User, Background, RunTimer

(* The error without cameras: only a thread says it, and a wizard that has *)
(* ended stays as it is.                                                   *)
NoCameraInv ==
  ended = "no_camera" /\ page # 2 =>
    \/ "slide2" \in strays
    \/ \E t \in Scanners : scan[t].at = "start" /\ ~scan[t].current

LEMMA NoCameraOnlyByScan ==
  ASSUME [Next]_vars, ended' = "no_camera"
  PROVE  UNCHANGED vars \/ \E t \in Scanners : NoCamera(t)
PROOF
<1>. SUFFICES ASSUME Next, \A t \in Scanners : ~NoCamera(t)
              PROVE  FALSE
  OBVIOUS
<1>1. Open
  BY DEF Next, User, ClickNext, GoPrev, SelectCamera, Slide3ButtonYes, Slide3ButtonNo,
     OnScanButtonClick, OnSkipButtonClick, Finish, Close
<1>2. ended # "no_camera"
  BY <1>1 DEF Open
<1>3. ASSUME NEW rest, GoNext(rest)
      PROVE  ended' # "no_camera"
  <2>1. ended' \in {ended, "no_selection", "cannot_open"}
    BY <1>3, Zenon DEF GoNext, ExecuteSlide3, ExecuteSlide4
  <2>. QED
    BY <1>2, <2>1
<1>4. CASE ClickNext \/ Slide3ButtonYes
  BY <1>3, <1>4 DEF ClickNext, Slide3ButtonYes
<1>5. CASE GoPrev
  <2>1. ended' \in {ended, "no_selection"}
    BY <1>5, Zenon DEF GoPrev, ExecuteSlide4
  <2>. QED
    BY <1>2, <2>1
<1>6. CASE \/ SelectCamera \/ Slide3ButtonNo \/ Finish \/ Close \/ OnSkipButtonClick
           \/ \E a \in Adds : OnScanButtonClick(a)
  BY <1>2, <1>6 DEF SelectCamera, Slide3ButtonNo, Finish, Close, OnSkipButtonClick,
     OnScanButtonClick
<1>7. CASE RunTimer
  BY <1>2, <1>3, <1>7 DEF RunTimer, ExecuteSlide2
<1>8. CASE UpdateDownloadGui
  BY <1>2, <1>8, Zenon DEF UpdateDownloadGui
<1>9. CASE \E i \in Installs : Download(i)
  BY <1>2, <1>9 DEF Download, LandmarkAppears, InstallEnds, ReaderEnds
<1>10. CASE \E t \in Scanners : Scan(t)
  BY <1>2, <1>10 DEF Scan, ScanCamerasThread, UpdateCameraListGui
<1>11. ASSUME NEW a \in Adds, Add(a)
       PROVE  FALSE
  <2>1. ended' \in {ended, "scan_failed"}
    BY <1>11, Zenon DEF Add, RunAdd, AddEnds, OnAddFinished
  <2>. QED
    BY <1>2, <2>1
<1>. QED
  BY <1>4, <1>5, <1>6, <1>7, <1>8, <1>9, <1>10, <1>11 DEF Next, User, Background

LEMMA NoCameraStep ==
  ASSUME HomeInv, NoCameraInv, [Next]_vars
  PROVE  NoCameraInv'
PROOF
<1>. SUFFICES ASSUME ended' = "no_camera"
              PROVE  NoCameraInv'
  BY DEF NoCameraInv
<1>1. CASE UNCHANGED vars
  BY <1>1 DEF NoCameraInv
<1>2. ASSUME NEW t \in Scanners, NoCamera(t)
      PROVE  NoCameraInv'
  BY <1>2 DEF NoCamera, NoCameraInv, HomeInv, ScansHome
<1>. QED
  BY <1>1, <1>2, NoCameraOnlyByScan

(* With the data there, only the page goes on.                             *)
LEMMA DownloadStays ==
  ASSUME DownloadInv, data, UNCHANGED <<data, install, queue>>, proc' \in {proc, "set"},
         ended' = "download" => ended = "download"
  PROVE  DownloadInv'
BY InstallsAssumption, SMTT(30) DEF DownloadInv, NoFailure

(* Entering the download page keeps DownloadInv.                           *)
LEMMA DownloadFirst ==
  ASSUME TypeOK, DownloadInv, ExecuteSlide1(FALSE), page' = 1, page <= 1, Open,
         UNCHANGED <<ended, timers, scan, adds>>
  PROVE  DownloadInv'
PROOF
<1>0. install \in [Installs -> InstallType]
  BY TypeParts DEF TypeTables
<1>1. CASE data
  BY <1>1, DownloadStays DEF ExecuteSlide1
<1>. SUFFICES ASSUME ~data, NoFailure'
              PROVE  DownloadInv'
  BY <1>1 DEF DownloadInv
<1>2. CASE proc \in Installs /\ Running(proc) /\ next' = FALSE
           /\ UNCHANGED <<data, proc, install, queue>>
  <2>1. ~next'
    BY <1>2, Zenon
  <2>2. NoFailure
    BY <1>2 DEF NoFailure
  <2>3. Fresh'
    BY <1>2, <2>1, <2>2 DEF DownloadInv, Fresh, Running
  <2>. QED
    BY <1>2, <2>2, <2>3 DEF DownloadInv, NoFailure
<1>3. ASSUME ~(proc \in Installs /\ Running(proc)), NEW i \in Installs, install[i].at = "unused",
             install' = [install EXCEPT ![i].at = "running"], proc' = i, queue' = 0,
             next' = FALSE, UNCHANGED data
      PROVE  DownloadInv'
  <2>1. ~next'
    BY <1>3, Zenon
  <2>2. /\ install'[i].at = "running"
        /\ \A j \in Installs \ {i} : install'[j] = install[j]
    BY <1>0, <1>3 DEF InstallType
  <2>3. NoFailure
    BY <1>3, <2>2 DEF NoFailure
  <2>4. \A j \in Installs : install[j].at = "unused"
    BY <1>3, <2>3 DEF DownloadInv, Fresh
  <2>5. Fresh'
    BY <1>3, <2>1, <2>2, <2>3, <2>4, InstallsAssumption DEF DownloadInv, Fresh, Running
  <2>6. ended' # "download"
    BY DEF Open
  <2>. QED
    BY <1>3, <2>2, <2>4, <2>5, <2>6 DEF DownloadInv
<1>. QED
  BY <1>2, <1>3 DEF ExecuteSlide1

(* What the steps of Fresh cannot be.                                      *)
LEMMA NotFresh ==
  ASSUME TypeOK, DownloadInv, NoFailure,
         \/ page > 1
         \/ page = 1 /\ next
         \/ timers # <<>>
         \/ \E t \in Scanners : scan[t].at # "idle"
         \/ \E a \in Adds : adds[a] # "idle"
         \/ \E i \in Installs : install[i].at \in {"ok", "failed"}
         \/ queue > 0
  PROVE  data
PROOF
<1>1. page \in 0 .. 7 /\ queue \in Nat
  BY TypeParts DEF TypeNumbers
<1>. QED
  BY <1>1 DEF DownloadInv, Fresh, Running

(* Leaving page 1 for any other page.                                      *)
LEMMA DownloadLeft ==
  ASSUME TypeOK, DownloadInv, Open, page # 0, NEW rest \in Seq({"slide2", "advance"}), GoNext(rest),
         page > 1 \/ next \/ timers # <<>>
  PROVE  DownloadInv'
PROOF
<1>0. page \in 0 .. 7
  BY TypeParts DEF TypeNumbers
<1>1. UNCHANGED <<data, install, queue>> /\ proc' \in {proc, "set"}
  BY Zenon DEF GoNext, ExecuteSlide4, Skipped
<1>2. ended' # "download"
  BY GoNextTypes DEF NewPageTypes, Open
<1>. SUFFICES ASSUME NoFailure'
              PROVE  DownloadInv'
  BY DEF DownloadInv
<1>3. NoFailure
  BY <1>1 DEF NoFailure
<1>4. data
  BY <1>0, <1>3, NotFresh
<1>. QED
  BY <1>1, <1>2, <1>4, DownloadStays

(* A step that leaves the download alone, while the wizard is open.        *)
LEMMA DownloadAside ==
  ASSUME TypeOK, DownloadInv, Open, UNCHANGED downloadVars, ended' # "download",
         \/ data
         \/ UNCHANGED <<page, next, timers, scan, adds>>
         \/ NoFailure => data
  PROVE  DownloadInv'
BY DEF DownloadInv, NoFailure, Fresh, Running

(* Next on the welcome page enters the download page.                      *)
LEMMA FirstPage ==
  ASSUME NEW rest, GoNext(rest), page = 0
  PROVE  /\ ExecuteSlide1(FALSE) /\ page' = 1 /\ timers' = rest
         /\ UNCHANGED <<ended, scan, adds>>
PROOF
<1>1. page # 1 /\ page # 2 /\ page # 3 /\ page \notin {4, 5} /\ page # 6 /\ page # 7
  OBVIOUS
<1>2. /\ ExecuteSlide1(FALSE) /\ page' = 1 /\ timers' = rest
      /\ UNCHANGED <<ended, cameraVars, enrolVars>>
  BY <1>1, Zenon DEF GoNext
<1>. QED
  BY <1>2

(* DownloadInv, for the user and for what runs behind the pages.           *)
LEMMA DownloadUser ==
  ASSUME TypeOK, DownloadInv, User
  PROVE  DownloadInv'
PROOF
<1>0. page \in 0 .. 7 /\ timers \in Seq({"slide2", "advance"})
  BY TypeParts DEF TypeNumbers
<1>1. CASE ClickNext /\ page = 0
  <2>1. ExecuteSlide1(FALSE) /\ page' = 1 /\ UNCHANGED <<ended, timers, scan, adds>> /\ Open
    <3>1. GoNext(timers) /\ Open
      BY <1>1 DEF ClickNext
    <3>. QED
      BY <1>1, <3>1, FirstPage
  <2>. QED
    BY <1>1, <2>1, DownloadFirst
<1>2. CASE (ClickNext /\ page # 0) \/ Slide3ButtonYes
  <2>1. GoNext(timers) /\ Open /\ page # 0 /\ (page > 1 \/ next)
    BY <1>0, <1>2 DEF ClickNext, Slide3ButtonYes
  <2>. QED
    BY <1>0, <2>1, DownloadLeft
<1>3. CASE GoPrev
  <2>1. Backward /\ Open
    BY <1>3, GoPrevBackward DEF GoPrev
  <2>2. ended' # "download"
    BY <2>1 DEF Backward, Open
  <2>3. CASE page = 1
    <3>1. page' = 0
      BY <2>1, <2>3 DEF Backward
    <3>2. UNCHANGED <<data, proc, install, queue, timers, adds>>
      BY <1>3, <2>3, <3>1 DEF GoPrev
    <3>3. scan' = scan
      BY <2>1, <2>3 DEF Backward
    <3>. QED
      BY <2>2, <2>3, <3>1, <3>2, <3>3 DEF DownloadInv, NoFailure, Fresh, Running, Open
  <2>4. CASE page > 1
    <3>. SUFFICES ASSUME NoFailure'
                  PROVE  DownloadInv'
      BY DEF DownloadInv
    <3>1. NoFailure
      <4>1. install \in [Installs -> InstallType]
        BY TypeParts DEF TypeTables
      <4>2. install' = install \/ \E i \in Installs : /\ install[i].at = "unused"
                                                     /\ install' = [install EXCEPT ![i].at = "running"]
        BY <1>3, Zenon DEF GoPrev, ExecuteSlide1
      <4>. QED
        BY <4>1, <4>2 DEF NoFailure, InstallType
    <3>2. data
      BY <2>4, <3>1, NotFresh
    <3>3. UNCHANGED <<data, install, queue>> /\ proc' \in {proc, "set"}
      BY <1>3, <3>2, Zenon DEF GoPrev, ExecuteSlide1, ExecuteSlide4
    <3>. QED
      BY <2>2, <3>2, <3>3, DownloadStays
  <2>. QED
    BY <1>0, <2>1, <2>3, <2>4 DEF Backward
<1>4. CASE SelectCamera \/ Slide3ButtonNo \/ Finish \/ Close
  BY <1>4, DownloadAside DEF SelectCamera, Slide3ButtonNo, Finish, Close, Open
<1>5. CASE OnSkipButtonClick \/ \E a \in Adds : OnScanButtonClick(a)
  <2>1. page = 4 /\ Open /\ UNCHANGED downloadVars /\ ended' = ended
    BY <1>5 DEF OnSkipButtonClick, OnScanButtonClick
  <2>2. NoFailure => data
    BY <2>1, NotFresh
  <2>. QED
    BY <2>1, <2>2, DownloadAside DEF Open
<1>. QED
  BY <1>1, <1>2, <1>3, <1>4, <1>5 DEF User

LEMMA DownloadBackground ==
  ASSUME TypeOK, DownloadInv, Open, Background
  PROVE  DownloadInv'
PROOF
<1>0. page \in 0 .. 7 /\ timers \in Seq({"slide2", "advance"}) /\ queue \in Nat
  BY TypeParts DEF TypeNumbers
<1>1. CASE RunTimer /\ ExecuteSlide2(Tail(timers))
  <2>1. UNCHANGED downloadVars /\ ended' = ended /\ timers # <<>>
    BY <1>1 DEF ExecuteSlide2, RunTimer
  <2>. QED
    BY <2>1, NotFresh, DownloadAside DEF Open
<1>2. CASE RunTimer /\ GoNext(Tail(timers))
  <2>0. timers # <<>>
    BY <1>2 DEF RunTimer
  <2>1. Tail(timers) \in Seq({"slide2", "advance"})
    BY <1>0, <2>0, AdvanceTail
  <2>2. CASE page = 0
    <3>. SUFFICES ASSUME NoFailure'
                  PROVE  DownloadInv'
      BY DEF DownloadInv
    <3>1. NoFailure
      <4>1. install \in [Installs -> InstallType]
        BY TypeParts DEF TypeTables
      <4>2. install' = install \/ \E i \in Installs : /\ install[i].at = "unused"
                                                     /\ install' = [install EXCEPT ![i].at = "running"]
        BY <1>2, <2>2, FirstPage, Zenon DEF ExecuteSlide1
      <4>. QED
        BY <4>1, <4>2 DEF NoFailure, InstallType
    <3>2. data
      BY <2>0, <3>1, NotFresh
    <3>3. UNCHANGED <<data, install, queue, proc, ended>>
      BY <1>2, <2>2, <3>2 DEF GoNext, ExecuteSlide1
    <3>. QED
      BY <3>2, <3>3, DownloadStays
  <2>3. CASE page # 0
    BY <1>2, <2>0, <2>1, <2>3, DownloadLeft
  <2>. QED
    BY <2>2, <2>3
<1>3. CASE UpdateDownloadGui
  <2>1. /\ queue > 0 /\ queue' = queue - 1
        /\ ended' = ended \/ (Fails /\ ended' = "download")
        /\ UNCHANGED <<data, proc, install>>
    BY <1>3, Zenon DEF UpdateDownloadGui
  <2>. SUFFICES ASSUME NoFailure'
                PROVE  DownloadInv'
    BY DEF DownloadInv
  <2>2. NoFailure
    BY <2>1 DEF NoFailure
  <2>3. data
    BY <2>1, <2>2, NotFresh
  <2>4. PICK i \in Installs : install[i].at = "ok"
    BY <2>1, <2>2 DEF DownloadInv
  <2>5. Fails => proc = "set"
    BY <2>2, <2>4 DEF Fails, DownloadInv
  <2>6. ended' = "download" => proc = "set"
    BY <2>1, <2>5 DEF Open
  <2>7. queue' > 0 => queue > 0
    BY <1>0, <2>1
  <2>. QED
    BY <2>1, <2>2, <2>3, <2>4, <2>6, <2>7 DEF DownloadInv, NoFailure
<1>4. ASSUME NEW i \in Installs, LandmarkAppears(i)
      PROVE  DownloadInv'
  <2>1. data' = TRUE /\ UNCHANGED <<ended, proc, install, queue>>
    BY <1>4 DEF LandmarkAppears
  <2>2. data'
    BY <2>1, Zenon
  <2>. QED
    BY <2>1, <2>2 DEF DownloadInv, NoFailure
<1>5. ASSUME NEW i \in Installs, NEW status \in {"ok", "failed"}, InstallEnds(i, status)
      PROVE  DownloadInv'
  <2>1. /\ install \in [Installs -> InstallType] /\ install[i].at = "running"
        /\ install' = [install EXCEPT ![i].at = status]
        /\ UNCHANGED <<ended, proc, queue>>
    BY <1>5, TypeParts DEF InstallEnds, Running, TypeTables
  <2>2. /\ install'[i].at = status
        /\ \A j \in Installs \ {i} : install'[j] = install[j]
    BY <2>1 DEF InstallType
  <2>. SUFFICES ASSUME NoFailure'
                PROVE  DownloadInv'
    BY DEF DownloadInv
  <2>3. status = "ok" /\ NoFailure
    BY <2>1, <2>2 DEF NoFailure
  <2>4. data'
    BY <1>5, <2>3, Zenon DEF InstallEnds
  <2>. QED
    BY <2>1, <2>2, <2>3, <2>4 DEF DownloadInv, Open
<1>6. ASSUME NEW i \in Installs, ReaderEnds(i)
      PROVE  DownloadInv'
  <2>1. /\ install \in [Installs -> InstallType] /\ install[i].at \in {"ok", "failed"}
        /\ install' = [install EXCEPT ![i].told = TRUE]
        /\ UNCHANGED <<ended, proc, data>>
    BY <1>6, TypeParts DEF ReaderEnds, TypeTables
  <2>2. \A j \in Installs : install'[j].at = install[j].at
    BY <2>1 DEF InstallType
  <2>. SUFFICES ASSUME NoFailure'
                PROVE  DownloadInv'
    BY DEF DownloadInv
  <2>3. NoFailure
    BY <2>2 DEF NoFailure
  <2>4. data
    BY <2>1, <2>3, NotFresh
  <2>5. install[i].at = "ok"
    BY <2>1, <2>3 DEF NoFailure
  <2>. QED
    BY <2>1, <2>2, <2>3, <2>4, <2>5 DEF DownloadInv, Open
<1>7. ASSUME NEW t \in Scanners, Scan(t)
      PROVE  DownloadInv'
  <2>1. scan[t].at # "idle" /\ UNCHANGED downloadVars /\ ended' \in {ended, "no_camera"}
    BY <1>7 DEF Scan, NoCamera, ScanCamerasThread, UpdateCameraListGui
  <2>2. NoFailure => data
    BY <2>1, NotFresh
  <2>. QED
    BY <2>1, <2>2, DownloadAside DEF Open
<1>8. ASSUME NEW a \in Adds, Add(a)
      PROVE  DownloadInv'
  <2>1. adds[a] # "idle" /\ UNCHANGED downloadVars
    BY <1>8 DEF Add, RunAdd, AddEnds, OnAddFinished
  <2>2. ended' \in {ended, "scan_failed"}
    BY <1>8, Zenon DEF Add, RunAdd, AddEnds, OnAddFinished
  <2>3. NoFailure => data
    BY <2>1, NotFresh
  <2>. QED
    BY <2>1, <2>2, <2>3, DownloadAside DEF Open
<1>. QED
  BY <1>1, <1>2, <1>3, <1>4, <1>5, <1>6, <1>7, <1>8 DEF Background, RunTimer, Download

LEMMA DownloadStep ==
  ASSUME TypeOK, DownloadInv, [Next]_vars
  PROVE  DownloadInv'
PROOF
<1>1. CASE User
  BY <1>1, DownloadUser
<1>2. CASE Open /\ Background
  BY <1>2, DownloadBackground
<1>3. CASE UNCHANGED vars
  BY <1>3 DEF DownloadInv, NoFailure, Fresh, Running
<1>. QED
  BY <1>1, <1>2, <1>3 DEF Next

-----------------------------------------------------------------------------
(* The theorems.                                                           *)
PagesIInv ==
  /\ TypeOK /\ ModelsBounded /\ OneAdd /\ FirstInv
  /\ CameraInv /\ HomeInv /\ NoCameraInv /\ DownloadInv

(* The invariant at the start                                              *)
LEMMA WizardInit == Init => PagesIInv
PROOF
<1>. SUFFICES ASSUME Init
              PROVE  PagesIInv
  OBVIOUS
<1>1. Adding = {}
  BY DEF Init, Adding
<1>2. ModelsBounded
  BY <1>1, FS_EmptySet, BoundsAssumption DEF ModelsBounded, Init, FirstPass
<1>3. TypeBooleans
  BY Zenon DEF Init, TypeBooleans
<1>4. TypeNumbers
  BY BoundsAssumption DEF Init, TypeNumbers
<1>5. TypeNames
  BY DEF Init, TypeNames
<1>6. TypeTables
  <2>1. FirstPass(0) \in EnrolType
    BY BoundsAssumption, PassTypes
  <2>. QED
    BY <2>1 DEF Init, TypeTables, InstallType, ScanType
<1>7. OneAdd
  BY <1>1 DEF OneAdd
<1>8. FirstInv /\ CameraInv /\ HomeInv /\ NoCameraInv
  BY DEF Init, FirstInv, CameraInv, Settled, HomeInv, ScansHome, NoCameraInv, AdvanceIn
<1>9. DownloadInv
  BY InstallsAssumption DEF Init, DownloadInv, Fresh
<1>. QED
  BY <1>2, <1>3, <1>4, <1>5, <1>6, <1>7, <1>8, <1>9, TypeParts DEF PagesIInv

(* and always.                                                             *)
LEMMA PagesIInvInvariant == Spec => []PagesIInv
PROOF
<1>1. PagesIInv /\ [Next]_vars => PagesIInv'
  BY TypeStep, OneAddStep, FirstScanStep, CameraStep, HomeStep, NoCameraStep, DownloadStep
  DEF PagesIInv
<1>. QED
  BY WizardInit, <1>1, PTL DEF Spec

(* Whatever the order of clicks and callbacks, two `add` commands run only *)
(* after the user left the face scan page during one (onboarding.py).      *)
THEOREM PagesInvHolds == Spec => []PagesInv
PROOF
<1>1. PagesIInv => PagesInv
  BY OneAddMeansOne DEF PagesIInv, PagesInv
<1>. QED
  BY PagesIInvInvariant, <1>1, PTL

(* "Pass 1 is required": for any number of Backs, cameras and downloads,   *)
(* the keyring page is reached without a model only after a callback that  *)
(* turned Next on for a page that was no longer its own.                   *)
THEOREM FirstScanIsRequired == Spec => []FirstScanRequired
PROOF
<1>1. PagesIInv => FirstScanRequired
  <2>. SUFFICES ASSUME PagesIInv, page > 4, enrol.models = 0
                PROVE  strays \intersect {"download", "slide2"} # {}
    BY DEF FirstScanRequired
  <2>1. enrol.models > 0 => FALSE
    OBVIOUS
  <2>. QED
    BY <2>1 DEF PagesIInv, FirstInv
<1>. QED
  BY PagesIInvInvariant, <1>1, PTL

(* For any number of cameras, downloads and Backs: the wizard ends with a  *)
(* missing selection only after a late download end, a late scan start or  *)
(* the timer of an earlier enrolment; with no cameras, away from the       *)
(* camera page, only by a thread of a visit that is over or after a late   *)
(* scan start; and with a failed download only when one failed, or when    *)
(* self.proc had become `set` by the time the end of a good one was read.  *)
THEOREM ErrorsTrue == Spec => []ErrorsAreTrue
PROOF
<1>1. PagesIInv => ErrorsAreTrue
  BY DEF PagesIInv, CameraInv, Settled, NoCameraInv, DownloadInv, NoFailure, ErrorsAreTrue
<1>. QED
  BY PagesIInvInvariant, <1>1, PTL
=============================================================================
