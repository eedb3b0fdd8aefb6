---------------------------- MODULE Rubberstamps ----------------------------
(***************************************************************************)
(* The extra checks after a recognised face: rubberstamps.execute runs the *)
(* stamps of the configured rules one by one in the compare process and    *)
(* ends the process with its verdict: 0 when no rule denied, 15 when one   *)
(* did.  A stamp is a nod before the camera or a key on the keyboard,      *)
(* whose callback runs on a thread of the keyboard library.                *)
(*                                                                         *)
(* What a rule's line says is a record: the stamp, the mode as written,    *)
(* whether its arguments set failsafe=0, and what is wrong with it.        *)
(* Camera frames give the position of the nose in steps of a unit; frames  *)
(* without exactly one face change nothing and are left out.               *)
(***************************************************************************)
EXTENDS Integers, Sequences

CONSTANTS
  RuleSets,      \* the stamp_rules a configuration may hold
  Positions,     \* where the nose can be, on each axis
  MinDistance,   \* min_distance, in units
  MinDirections, \* min_directions
  Ticks          \* turns of the hotkey loop, give or take the rounding of 0.1

ASSUME PositionsAssumption == Positions \subseteq Nat
ASSUME LimitsAssumption == MinDistance \in Nat /\ MinDirections \in Nat /\ Ticks \in Nat

VARIABLES
  rules,    \* the rules of this run
  at,       \* "rules", or where the stamp of the current rule is, or "ended"
  log,      \* how the rules so far were passed or the last one was not
  code,     \* exit code of the process; -1 while it runs
  anchor,   \* nod: where each axis measures from
  legs,     \* nod: recorded_nods
  left,     \* hotkey: turns left
  key,      \* hotkey: pressed_key
  reach,    \* ghost: lowest and highest position on each axis since the last gap
  went,     \* ghost: the directions in which the nose went far on each axis
  struck,   \* ghost: keys struck during this stamp
  known     \* ghost: keys struck before the last turn began

nodVars == <<anchor, legs, reach, went>>
keyVars == <<left, key, struck, known>>
vars == <<rules, at, log, code, nodVars, keyVars>>

Axes == {"x", "y"}

Running == -1

NoAnchor == -1

Denied == 15

(* The nod's local variables before it has seen a face.                    *)
Nowhere == [a \in Axes |-> NoAnchor]

Empty == [a \in Axes |-> <<>>]

Nothing == [a \in Axes |-> {}]

NodForgotten == anchor' = Nowhere /\ legs' = Empty /\ reach' = Empty /\ went' = Nothing

(* Problems that execute() answers by going on with the next rule, and one *)
(* for the exceptions it does not catch: a number or option it cannot read.*)
Skips == {"unparsed", "not installed", "no class", "declaration fails"}

Modes == {"failsafe", "faildeadly", "Faildeadly"}

Rules ==
  [stamp : {"nod", "hotkey"}, mode : Modes, zero : BOOLEAN,
   problem : Skips \union {"none", "raises"}]

ASSUME RuleSetsAssumption == RuleSets \subseteq Seq(Rules)

(* A stamp's own option compares the mode as written, and failsafe=0       *)
(* overrides it; what a crash does goes by the mode in lower case.         *)
OptionFailsafe(r) == ~r.zero /\ r.mode # "faildeadly"

RuleFailsafe(r) == r.mode = "failsafe"

-----------------------------------------------------------------------------
(* execute().                                                              *)

Rule == rules[Len(log) + 1]

Pass(how) ==
  /\ log' = Append(log, how)
  /\ at' = "rules"
  /\ UNCHANGED code

Exit(how, c) ==
  /\ log' = Append(log, how)
  /\ at' = "ended"
  /\ code' = c

NextRule ==
  /\ at = "rules"
  /\ Len(log) < Len(rules)
  /\ UNCHANGED rules

SkipRule ==
  /\ NextRule
  /\ Rule.problem \in Skips
  /\ Pass("skipped")
  /\ UNCHANGED <<nodVars, keyVars>>

RuleRaises ==
  /\ NextRule
  /\ Rule.problem = "raises"
  /\ Exit("raised", 1)
  /\ UNCHANGED <<nodVars, keyVars>>

AllProcessed ==
  /\ at = "rules"
  /\ Len(log) = Len(rules)
  /\ at' = "ended"
  /\ code' = 0
  /\ UNCHANGED <<rules, log, nodVars, keyVars>>

-----------------------------------------------------------------------------
(* _run_stamp: what becomes of a verdict.                                  *)

InStamp == at \in {"nod", "keyboard", "turn", "confirm?", "nap"}

Verdict(how, passed) ==
  /\ IF passed THEN Pass(how) ELSE Exit(how, Denied)
  /\ UNCHANGED <<rules, key, struck, known>>

TimeOut == Verdict("timeout", ~OptionFailsafe(Rule))

(* Mutant: a stamp that crashes never denies.                              *)
StampCrashesForgiven ==
  /\ InStamp
  /\ Pass("crash")
  /\ NodForgotten
  /\ UNCHANGED <<rules, keyVars>>

StampCrashes ==
  /\ InStamp
  /\ IF RuleFailsafe(Rule) THEN Exit("crash", Denied) ELSE Pass("crash")
  /\ NodForgotten
  /\ UNCHANGED <<rules, keyVars>>

(* SystemExit goes through _run_stamp: a camera that stops exits with 14.  *)
CameraExits ==
  /\ at = "nod"
  /\ Exit("exit", 14)
  /\ NodForgotten
  /\ UNCHANGED <<rules, keyVars>>

-----------------------------------------------------------------------------
(* nod.                                                                    *)

StartNod ==
  /\ NextRule
  /\ Rule.problem = "none" /\ Rule.stamp = "nod"
  /\ at' = "nod"
  /\ NodForgotten
  /\ UNCHANGED <<log, code, keyVars>>

Far(d) == d > MinDistance \/ -d > MinDistance

Size(d) == IF d < 0 THEN -d ELSE d

(* Mutant: a gap keeps the old nose position as the baseline.              *)
BaselineKept(nose, gap) ==
  [a \in Axes |-> IF anchor[a] = NoAnchor THEN nose[a] ELSE anchor[a]]

(* A face out of view for FACE_GAP_RESET is measured afresh.               *)
Baseline(nose, gap) ==
  [a \in Axes |-> IF gap \/ anchor[a] = NoAnchor THEN nose[a] ELSE anchor[a]]

(* _dominant_move; of two moves of one size max() takes the first.         *)
Dominant(nose, base) ==
  IF Size(nose["x"] - base["x"]) >= Size(nose["y"] - base["y"]) THEN "x" ELSE "y"

(* Only a change of direction is recorded; TRUE is a move to lower values. *)
Legs(a, move) ==
  LET direction == move < 0
  IN IF legs[a] # <<>> /\ legs[a][Len(legs[a])] = direction
     THEN legs
     ELSE [legs EXCEPT ![a] = Append(@, direction)]

(* The ghosts' own account of the head: how far from any position of this  *)
(* stretch the nose has come, on each axis, whatever was anchored.         *)
Watch(nose, gap) ==
  LET fresh(a) == gap \/ reach[a] = <<>>
      low(a) == IF fresh(a) \/ nose[a] < reach[a][1] THEN nose[a] ELSE reach[a][1]
      high(a) == IF fresh(a) \/ nose[a] > reach[a][2] THEN nose[a] ELSE reach[a][2]
  IN /\ reach' = [a \in Axes |-> <<low(a), high(a)>>]
     /\ went' = [a \in Axes |-> went[a]
                   \union {d \in {FALSE} : nose[a] - low(a) > MinDistance}
                   \union {d \in {TRUE} : high(a) - nose[a] > MinDistance}]

Frame(nose, gap) ==
  LET base == Baseline(nose, gap)
      axis == Dominant(nose, base)
      move == nose[axis] - base[axis]
  IN /\ at = "nod"
     /\ Watch(nose, gap)
     /\ IF ~Far(move)
        THEN /\ anchor' = base
             /\ UNCHANGED <<rules, at, log, code, legs, key, struck, known>>
        ELSE /\ anchor' = [base EXCEPT ![axis] = nose[axis]]
             /\ legs' = Legs(axis, move)
             /\ IF Len(legs'[axis]) >= MinDirections
                THEN Verdict(IF axis = "y" THEN "yes" ELSE "no", axis = "y")
                ELSE UNCHANGED <<rules, at, log, code, key, struck, known>>
     /\ UNCHANGED left

NodTimesOut ==
  /\ at = "nod"
  /\ TimeOut
  /\ NodForgotten
  /\ UNCHANGED left

-----------------------------------------------------------------------------
(* hotkey.  The keyboard thread may write pressed_key between any two      *)
(* reads of it.                                                            *)

StartHotkey ==
  /\ NextRule
  /\ Rule.problem = "none" /\ Rule.stamp = "hotkey"
  /\ at' = "keyboard"
  /\ left' \in {Ticks, Ticks + 1}
  /\ key' = "none"
  /\ struck' = {}
  /\ known' = {}
  /\ NodForgotten
  /\ UNCHANGED <<log, code>>

(* keyboard cannot be imported.                                            *)
NoKeyboardModule ==
  /\ at = "keyboard"
  /\ Exit("exit", 1)
  /\ UNCHANGED <<rules, nodVars, keyVars>>

(* keyboard.add_hotkey, for both keys.                                     *)
RegisterKeys ==
  /\ at = "keyboard"
  /\ at' = "turn"
  /\ UNCHANGED <<rules, log, code, nodVars, keyVars>>

(* on_key.                                                                 *)
KeyPressed(k) ==
  /\ at \in {"turn", "confirm?", "nap"}
  /\ key' = k
  /\ struck' = struck \union {k}
  /\ UNCHANGED <<rules, at, log, code, nodVars, left, known>>

(* Mutant: the time left is counted down where a key is found.             *)
LookForAbortUntimed ==
  /\ at = "turn"
  /\ left > 0
  /\ known' = struck
  /\ IF key = "abort" THEN Exit("no", Denied) ELSE at' = "confirm?" /\ UNCHANGED <<log, code>>
  /\ UNCHANGED <<rules, nodVars, left, key, struck>>

LookForAbort ==
  /\ at = "turn"
  /\ left > 0
  /\ left' = left - 1
  /\ known' = struck
  /\ IF key = "abort" THEN Exit("no", Denied) ELSE at' = "confirm?" /\ UNCHANGED <<log, code>>
  /\ UNCHANGED <<rules, nodVars, key, struck>>

LookForConfirm ==
  /\ at = "confirm?"
  /\ IF key = "confirm" THEN Pass("yes") ELSE at' = "nap" /\ UNCHANGED <<log, code>>
  /\ UNCHANGED <<rules, nodVars, keyVars>>

Nap ==
  /\ at = "nap"
  /\ at' = "turn"
  /\ UNCHANGED <<rules, log, code, nodVars, keyVars>>

HotkeyTimesOut ==
  /\ at = "turn"
  /\ left = 0
  /\ TimeOut
  /\ UNCHANGED <<nodVars, left>>

-----------------------------------------------------------------------------
Init ==
  /\ rules \in RuleSets
  /\ at = "rules"
  /\ log = <<>>
  /\ code = Running
  /\ anchor = Nowhere
  /\ legs = Empty
  /\ reach = Empty
  /\ went = Nothing
  /\ left = 0
  /\ key = "none"
  /\ struck = {}
  /\ known = {}

Advance ==
  \/ SkipRule \/ RuleRaises \/ AllProcessed
  \/ StampCrashes \/ CameraExits \/ NoKeyboardModule
  \/ StartNod \/ NodTimesOut
  \/ StartHotkey \/ RegisterKeys \/ LookForAbort \/ LookForConfirm \/ Nap \/ HotkeyTimesOut

Next ==
  \/ Advance
  \/ \E nose \in [Axes -> Positions], gap \in BOOLEAN : Frame(nose, gap)
  \/ \E k \in {"abort", "confirm"} : KeyPressed(k)

Spec == Init /\ [][Next]_vars

(* The loops of both stamps end by the clock.                              *)
FairSpec == Spec /\ WF_vars(Advance)

-----------------------------------------------------------------------------
TypeOK ==
  /\ rules \in RuleSets
  /\ at \in {"rules", "nod", "keyboard", "turn", "confirm?", "nap", "ended"}
  /\ log \in Seq({"skipped", "raised", "timeout", "crash", "exit", "yes", "no"})
  /\ Len(log) <= Len(rules)
  /\ code \in {Running, 0, 1, 14, Denied}
  /\ anchor \in [Axes -> Positions \union {NoAnchor}]
  /\ legs \in [Axes -> Seq(BOOLEAN)]
  /\ left \in 0 .. Ticks + 1
  /\ key \in {"none", "abort", "confirm"}
  /\ reach \in [Axes -> {<<>>} \union (Positions \X Positions)]
  /\ went \in [Axes -> SUBSET BOOLEAN]
  /\ struck \subseteq {"abort", "confirm"} /\ known \subseteq struck

(* What the user of the rule file may rely on.  A rule may be passed       *)
(* because it was confirmed, because it cannot be used at all, because its *)
(* time ran out and it does not fail safe, or because its stamp broke and  *)
(* it is not a failsafe rule.                                              *)
MayPass(r, how) ==
  \/ how = "yes"
  \/ how = "skipped" /\ r.problem \in Skips
  \/ how = "timeout" /\ (r.mode = "faildeadly" \/ r.zero)
  \/ how = "crash" /\ r.mode # "failsafe"

(* The process says 0 (execute's last line) only when each of the rules,   *)
(* in the order of the file, was passed for a reason the file gives.       *)
PassedRules ==
  code = 0 =>
    /\ Len(log) = Len(rules)
    /\ \A i \in 1 .. Len(rules) : MayPass(rules[i], log[i])

RulesInv == TypeOK /\ PassedRules

Last(stamp) == at \in {"rules", "ended"} /\ log # <<>> /\ rules[Len(log)].stamp = stamp

(* nod.run's verdict is a movement of the head: yes, only after the nose   *)
(* went far both ways on the vertical axis, and no, only after it did so   *)
(* sideways, each counted within a stretch in which the face was in view.  *)
NodMeansMoved ==
  Last("nod") =>
    /\ log[Len(log)] = "yes" => went["y"] = BOOLEAN
    /\ log[Len(log)] = "no" => went["x"] = BOOLEAN

(* hotkey.run hears its keys: when it times out, no key was struck before  *)
(* its last turn, unless both keys were, of which the second can replace   *)
(* the first between the two looks; and its verdict is a key struck.       *)
KeysHeard ==
  Last("hotkey") =>
    /\ log[Len(log)] = "timeout" => known = {} \/ struck = {"abort", "confirm"}
    /\ log[Len(log)] = "yes" => "confirm" \in struck
    /\ log[Len(log)] = "no" => "abort" \in struck

(* The verdict of either stamp was earned by what the user did.            *)
VerdictsEarned == NodMeansMoved /\ KeysHeard

(* Whatever the head and the keys do, the checks end: the loops of both    *)
(* stamps watch the clock, and a rule is taken up only once.               *)
ChecksEnd == <>(at = "ended")

-----------------------------------------------------------------------------
(* The inductive invariants behind RubberstampsProofs.                     *)

(* Up to the end every rule so far was passed for a reason of the file,    *)
(* and a running stamp is that of the next rule.                           *)
InvRules ==
  /\ at # "ended" => code = Running /\ \A i \in 1 .. Len(log) : MayPass(rules[i], log[i])
  /\ InStamp => Len(log) < Len(rules) /\ Rule.stamp = (IF at = "nod" THEN "nod" ELSE "hotkey")

(* What is anchored lies in the reach of the nose, and each leg is a       *)
(* direction in which it went far, other than the leg before.              *)
InvNod ==
  at = "nod" => \A a \in Axes :
    /\ reach[a] = <<>> => anchor[a] = NoAnchor
    /\ reach[a] # <<>> => anchor[a] \in reach[a][1] .. reach[a][2]
    /\ \A i \in 1 .. Len(legs[a]) : legs[a][i] \in went[a]
    /\ \A i \in 1 .. Len(legs[a]) - 1 : legs[a][i] # legs[a][i + 1]

(* pressed_key is a key struck, and one the loop has looked past is there  *)
(* still or was overwritten by the other.                                  *)
InvKeys ==
  at \in {"keyboard", "turn", "confirm?", "nap"} =>
    /\ IF key = "none" THEN struck = {} ELSE key \in struck
    /\ known = {} \/ struck = {"abort", "confirm"} \/ (at = "confirm?" /\ key = "confirm")
=============================================================================
