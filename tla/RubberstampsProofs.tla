------------------------- MODULE RubberstampsProofs -------------------------
(***************************************************************************)
(* Proofs about Rubberstamps, for any rule files, positions and limits:    *)
(* the types, that a process which says 0 passed every rule for a reason   *)
(* of the file, and that the verdicts of the stamps are earned.            *)
(***************************************************************************)
EXTENDS Rubberstamps, TLAPS

USE DEF vars, nodVars, keyVars, Axes, Running, Denied, NoAnchor

Hows == {"skipped", "raised", "timeout", "crash", "exit", "yes", "no"}

(* What a step of execute() keeps: the log is as long as the rules, and    *)
(* each entry before the last is a rule passed.                            *)
RulesKept ==
  /\ rules' \in RuleSets
  /\ at' \in {"rules", "nod", "keyboard", "turn", "confirm?", "nap", "ended"}
  /\ log' \in Seq(Hows)
  /\ Len(log') <= Len(rules')
  /\ code' \in {Running, 0, 1, 14, Denied}
  /\ InvRules'
  /\ PassedRules'

Judged == TypeOK /\ InvRules /\ PassedRules

(* A rule passed for a reason of the file. *)
LEMMA Passing ==
  ASSUME Judged, at # "ended", Len(log) < Len(rules), rules' = rules,
         NEW how \in Hows, MayPass(Rule, how), Pass(how)
  PROVE  RulesKept
PROOF
<1>1. rules \in Seq(Rules) /\ log \in Seq(Hows) /\ code = Running /\ code' = code /\ at' = "rules"
  BY RuleSetsAssumption DEF Judged, TypeOK, InvRules, Pass, Hows
<1>2. log' \in Seq(Hows) /\ Len(log') = Len(log) + 1 /\ log'[Len(log) + 1] = how
  BY <1>1 DEF Pass
<1>3. \A i \in 1 .. Len(log) : log'[i] = log[i]
  BY <1>1 DEF Pass
<1>4. \A i \in 1 .. Len(log) : MayPass(rules[i], log[i])
  BY DEF Judged, InvRules
<1>5. \A i \in 1 .. Len(log') : MayPass(rules'[i], log'[i])
  <2>1. TAKE i \in 1 .. Len(log')
  <2>2. CASE i = Len(log) + 1
    BY <1>2, <2>2 DEF Rule
  <2>3. CASE i # Len(log) + 1
    <3>1. i \in 1 .. Len(log)
      BY <1>1, <1>2, <2>3
    <3>. QED
      BY <1>3, <1>4, <3>1
  <2>. QED
    BY <2>2, <2>3
<1>6. Len(log') <= Len(rules')
  BY <1>1, <1>2
<1>. QED
  BY <1>1, <1>2, <1>5, <1>6 DEF RulesKept, Judged, TypeOK, InvRules, PassedRules, InStamp

(* The end of the process with a code other than 0. *)
LEMMA Exiting ==
  ASSUME Judged, Len(log) < Len(rules), rules' = rules,
         NEW how \in Hows, NEW c \in {1, 14, Denied}, Exit(how, c)
  PROVE  RulesKept
PROOF
<1>1. rules \in Seq(Rules) /\ log \in Seq(Hows) /\ code' = c /\ at' = "ended"
  BY RuleSetsAssumption DEF Judged, TypeOK, Exit, Hows
<1>2. log' \in Seq(Hows) /\ Len(log') = Len(log) + 1
  BY <1>1 DEF Exit
<1>3. Len(log') <= Len(rules')
  BY <1>1, <1>2
<1>. QED
  BY <1>1, <1>2, <1>3 DEF RulesKept, Judged, TypeOK, InvRules, PassedRules, InStamp

(* A stamp goes on, or is taken up, for the rule at hand. *)
LEMMA Staying ==
  ASSUME Judged, at # "ended", Len(log) < Len(rules), UNCHANGED <<rules, log, code>>,
         \/ at' = "nod" /\ Rule.stamp = "nod"
         \/ at' \in {"keyboard", "turn", "confirm?", "nap"} /\ Rule.stamp = "hotkey"
  PROVE  RulesKept
BY DEF RulesKept, Judged, TypeOK, InvRules, PassedRules, InStamp, Hows, Rule

(* What is known of the rule whose stamp runs. *)
LEMMA Current ==
  ASSUME Judged, InStamp
  PROVE  /\ at # "ended" /\ Len(log) < Len(rules) /\ Rule \in Rules
         /\ Rule.stamp = (IF at = "nod" THEN "nod" ELSE "hotkey")
PROOF
<1>1. rules \in Seq(Rules) /\ Len(log) \in Nat /\ Len(log) < Len(rules)
  BY RuleSetsAssumption DEF Judged, TypeOK, InvRules
<1>2. Rule \in Rules
  BY <1>1 DEF Rule
<1>. QED
  BY <1>1, <1>2 DEF Judged, InvRules, InStamp

(* A verdict, earned or by the clock. *)
LEMMA Judging ==
  ASSUME Judged, InStamp, NEW how \in Hows, NEW passed \in BOOLEAN,
         passed => MayPass(Rule, how), Verdict(how, passed)
  PROVE  RulesKept
PROOF
<1>1. CASE passed
  BY <1>1, Current, Passing DEF Verdict
<1>2. CASE ~passed
  BY <1>2, Current, Exiting DEF Verdict
<1>. QED
  BY <1>1, <1>2

(* A stamp whose time is out. *)
LEMMA TimingOut ==
  ASSUME Judged, InStamp, TimeOut
  PROVE  RulesKept
PROOF
<1>1. ~OptionFailsafe(Rule) => MayPass(Rule, "timeout")
  BY Current DEF OptionFailsafe, MayPass, Rules
<1>2. OptionFailsafe(Rule) \in BOOLEAN
  BY DEF OptionFailsafe
<1>. QED
  BY <1>1, <1>2, Judging DEF TimeOut, Hows

-----------------------------------------------------------------------------
(* The variables of the stamps. *)
NodTyped ==
  /\ anchor' \in [Axes -> Positions \union {NoAnchor}]
  /\ legs' \in [Axes -> Seq(BOOLEAN)]
  /\ reach' \in [Axes -> {<<>>} \union (Positions \X Positions)]
  /\ went' \in [Axes -> SUBSET BOOLEAN]

KeysTyped ==
  /\ left' \in 0 .. Ticks + 1
  /\ key' \in {"none", "abort", "confirm"}
  /\ struck' \subseteq {"abort", "confirm"}
  /\ known' \subseteq struck'

(* The rules, the nod and the keys make up the whole state. *)
LEMMA Assembled ==
  ASSUME RulesKept, NodTyped, KeysTyped
  PROVE  Judged'
BY DEF RulesKept, NodTyped, KeysTyped, Judged, TypeOK, Hows

(* A nod that starts or ends over leaves its variables empty. *)
LEMMA NodForgets ==
  ASSUME NodForgotten
  PROVE  NodTyped
BY DEF NodForgotten, NodTyped, Nowhere, Empty, Nothing

(* Steps of the others leave the nod alone. *)
LEMMA NodStays ==
  ASSUME TypeOK, UNCHANGED nodVars
  PROVE  NodTyped
BY DEF NodTyped, TypeOK

(* Steps of the others leave the hotkey alone. *)
LEMMA KeysStay ==
  ASSUME TypeOK, UNCHANGED keyVars
  PROVE  KeysTyped
BY DEF KeysTyped, TypeOK

(* The steps of execute() and of the start of a stamp. *)
LEMMA RuleSteps ==
  ASSUME Judged,
         SkipRule \/ RuleRaises \/ AllProcessed \/ StartNod \/ StartHotkey
  PROVE  Judged'
PROOF
<1>1. CASE SkipRule
  <2>1. MayPass(Rule, "skipped")
    BY <1>1 DEF SkipRule, MayPass
  <2>2. RulesKept
    BY <1>1, <2>1, Passing DEF SkipRule, NextRule, Hows
  <2>. QED
    BY <1>1, <2>2, NodStays, KeysStay, Assembled DEF SkipRule, Judged
<1>2. CASE RuleRaises
  <2>1. RulesKept
    BY <1>2, Exiting DEF RuleRaises, NextRule, Hows
  <2>. QED
    BY <1>2, <2>1, NodStays, KeysStay, Assembled DEF RuleRaises, Judged
<1>3. CASE AllProcessed
  <2>1. RulesKept
    BY <1>3 DEF AllProcessed, RulesKept, Judged, TypeOK, InvRules, PassedRules, InStamp, Hows
  <2>. QED
    BY <1>3, <2>1, NodStays, KeysStay, Assembled DEF AllProcessed, Judged
<1>4. CASE StartNod
  <2>1. RulesKept
    BY <1>4, Staying DEF StartNod, NextRule
  <2>. QED
    BY <1>4, <2>1, NodForgets, KeysStay, Assembled DEF StartNod, Judged
<1>5. CASE StartHotkey
  <2>1. RulesKept
    BY <1>5, Staying DEF StartHotkey, NextRule
  <2>2. KeysTyped
    BY <1>5, LimitsAssumption DEF StartHotkey, KeysTyped
  <2>. QED
    BY <1>5, <2>1, <2>2, NodForgets, Assembled DEF StartHotkey
<1>. QED
  BY <1>1, <1>2, <1>3, <1>4, <1>5

(* A stamp ends without a verdict of the user. *)
LEMMA BreakSteps ==
  ASSUME Judged,
         StampCrashes \/ CameraExits \/ NoKeyboardModule \/ NodTimesOut \/ HotkeyTimesOut
  PROVE  Judged'
PROOF
<1>1. CASE StampCrashes
  <2>1. ~RuleFailsafe(Rule) => MayPass(Rule, "crash")
    BY DEF RuleFailsafe, MayPass
  <2>2. RulesKept
    BY <1>1, <2>1, Current, Passing, Exiting DEF StampCrashes, Hows
  <2>. QED
    BY <1>1, <2>2, NodForgets, KeysStay, Assembled DEF StampCrashes, Judged
<1>2. CASE CameraExits
  <2>1. RulesKept
    BY <1>2, Current, Exiting DEF CameraExits, InStamp, Hows
  <2>. QED
    BY <1>2, <2>1, NodForgets, KeysStay, Assembled DEF CameraExits, Judged
<1>3. CASE NoKeyboardModule
  <2>1. RulesKept
    BY <1>3, Current, Exiting DEF NoKeyboardModule, InStamp, Hows
  <2>. QED
    BY <1>3, <2>1, NodStays, KeysStay, Assembled DEF NoKeyboardModule, Judged
<1>4. CASE NodTimesOut
  <2>1. RulesKept
    BY <1>4, TimingOut DEF NodTimesOut, InStamp
  <2>. QED
    BY <1>4, <2>1, NodForgets, KeysStay, Assembled
    DEF NodTimesOut, TimeOut, Verdict, Judged
<1>5. CASE HotkeyTimesOut
  <2>1. RulesKept
    BY <1>5, TimingOut DEF HotkeyTimesOut, InStamp
  <2>. QED
    BY <1>5, <2>1, NodStays, KeysStay, Assembled
    DEF HotkeyTimesOut, TimeOut, Verdict, Judged
<1>. QED
  BY <1>1, <1>2, <1>3, <1>4, <1>5

(* The turns of the hotkey loop and the keys. *)
LEMMA KeySteps ==
  ASSUME Judged,
         \/ RegisterKeys \/ LookForAbort \/ LookForConfirm \/ Nap
         \/ \E k \in {"abort", "confirm"} : KeyPressed(k)
  PROVE  Judged'
PROOF
<1>1. CASE RegisterKeys \/ Nap
  <2>1. RulesKept
    BY <1>1, Current, Staying DEF RegisterKeys, Nap, InStamp
  <2>. QED
    BY <1>1, <2>1, NodStays, KeysStay, Assembled DEF RegisterKeys, Nap, Judged
<1>2. CASE LookForAbort
  <2>1. RulesKept
    BY <1>2, Current, Exiting, Staying DEF LookForAbort, InStamp, Hows
  <2>2. KeysTyped
    BY <1>2, LimitsAssumption DEF LookForAbort, KeysTyped, Judged, TypeOK
  <2>. QED
    BY <1>2, <2>1, <2>2, NodStays, Assembled DEF LookForAbort, Judged
<1>3. CASE LookForConfirm
  <2>1. MayPass(Rule, "yes")
    BY DEF MayPass
  <2>2. RulesKept
    BY <1>3, <2>1, Current, Passing, Staying DEF LookForConfirm, InStamp, Hows
  <2>. QED
    BY <1>3, <2>2, NodStays, KeysStay, Assembled DEF LookForConfirm, Judged
<1>4. ASSUME NEW k \in {"abort", "confirm"}, KeyPressed(k)
      PROVE  Judged'
  <2>1. RulesKept
    BY <1>4, Current, Staying DEF KeyPressed, InStamp
  <2>2. KeysTyped
    BY <1>4 DEF KeyPressed, KeysTyped, Judged, TypeOK
  <2>. QED
    BY <1>4, <2>1, <2>2, NodStays, Assembled DEF KeyPressed, Judged
<1>. QED
  BY <1>1, <1>2, <1>3, <1>4

(* Both ends of a reach are positions. *)
LEMMA Pairs ==
  ASSUME NEW p \in Positions \X Positions
  PROVE  /\ p[1] \in Positions /\ p[2] \in Positions
         /\ p[1] \in Int /\ p[2] \in Int
         /\ p # <<>>
PROOF
<1>1. PICK m \in Positions, n \in Positions : p = <<m, n>>
  OBVIOUS
<1>2. p[1] = m /\ p[2] = n /\ p # <<>>
  BY <1>1
<1>. QED
  BY <1>2, PositionsAssumption

(* What the ghosts see of a frame: the reach is an interval round the      *)
(* nose, and a direction once seen is not forgotten.                       *)
LEMMA Watching ==
  ASSUME Judged, NEW nose \in [Axes -> Positions], NEW gap \in BOOLEAN, Watch(nose, gap)
  PROVE  /\ reach' \in [Axes -> Positions \X Positions]
         /\ went' \in [Axes -> SUBSET BOOLEAN]
         /\ \A a \in Axes :
              /\ went[a] \subseteq went'[a]
              /\ nose[a] \in reach'[a][1] .. reach'[a][2]
              /\ reach[a] # <<>> /\ ~gap =>
                   reach'[a][1] <= reach[a][1] /\ reach[a][2] <= reach'[a][2]
              /\ nose[a] - reach'[a][1] > MinDistance => FALSE \in went'[a]
              /\ reach'[a][2] - nose[a] > MinDistance => TRUE \in went'[a]
PROOF
<1>1. \A a \in Axes : nose[a] \in Nat /\ nose[a] \in Positions
  BY PositionsAssumption
<1>2. \A a \in Axes : reach[a] = <<>> \/ reach[a] \in Positions \X Positions
  BY DEF Judged, TypeOK
<1>3. \A a \in Axes : reach[a] # <<>> => reach[a][1] \in Positions /\ reach[a][2] \in Positions
  BY <1>2, Pairs
<1>4. Positions \subseteq Int /\ MinDistance \in Int
  BY PositionsAssumption, LimitsAssumption
<1> DEFINE fresh(a) == gap \/ reach[a] = <<>>
           low(a) == IF fresh(a) \/ nose[a] < reach[a][1] THEN nose[a] ELSE reach[a][1]
           high(a) == IF fresh(a) \/ nose[a] > reach[a][2] THEN nose[a] ELSE reach[a][2]
<1>5. /\ reach' = [a \in Axes |-> <<low(a), high(a)>>]
      /\ went' = [a \in Axes |-> went[a]
                    \union {d \in {FALSE} : nose[a] - low(a) > MinDistance}
                    \union {d \in {TRUE} : high(a) - nose[a] > MinDistance}]
  BY DEF Watch
<1>6. \A a \in Axes :
        /\ low(a) \in Positions /\ high(a) \in Positions
        /\ low(a) <= nose[a] /\ nose[a] <= high(a)
        /\ ~fresh(a) => low(a) <= reach[a][1] /\ reach[a][2] <= high(a)
  <2>1. TAKE a \in Axes
  <2>2. nose[a] \in Positions /\ nose[a] \in Int
    BY <1>1
  <2>3. CASE fresh(a)
    BY <2>2, <2>3
  <2>4. CASE ~fresh(a)
    <3>1. /\ reach[a][1] \in Positions /\ reach[a][2] \in Positions
          /\ reach[a][1] \in Int /\ reach[a][2] \in Int
      BY <1>3, <1>4, <2>4
    <3>. QED
      BY <2>2, <2>4, <3>1
  <2>. QED
    BY <2>3, <2>4
<1>7. \A a \in Axes : reach'[a][1] = low(a) /\ reach'[a][2] = high(a)
  BY <1>5
<1>8. reach' \in [Axes -> Positions \X Positions]
  BY <1>5, <1>6
<1>9. went' \in [Axes -> SUBSET BOOLEAN]
  BY <1>5 DEF Judged, TypeOK
<1>10. \A a \in Axes :
         /\ went[a] \subseteq went'[a]
         /\ nose[a] - low(a) > MinDistance => FALSE \in went'[a]
         /\ high(a) - nose[a] > MinDistance => TRUE \in went'[a]
  BY <1>5
<1>11. \A a \in Axes : nose[a] \in low(a) .. high(a)
  BY <1>1, <1>4, <1>6
<1> HIDE DEF low, high
<1>12. ASSUME NEW a \in Axes, reach[a] # <<>>, ~gap
       PROVE  reach'[a][1] <= reach[a][1] /\ reach[a][2] <= reach'[a][2]
  BY <1>6, <1>7, <1>12
<1>. QED
  BY <1>7, <1>8, <1>9, <1>10, <1>11, <1>12

(* The direction of a far move was seen, and the baseline it is measured   *)
(* from lies in the reach of the nose. *)
LEMMA Moving ==
  ASSUME Judged, InvNod, at = "nod",
         NEW nose \in [Axes -> Positions], NEW gap \in BOOLEAN, Watch(nose, gap), NEW a \in Axes
  PROVE  LET base == Baseline(nose, gap)
             move == nose[a] - base[a]
         IN /\ base[a] \in reach'[a][1] .. reach'[a][2]
            /\ Far(move) => (move < 0) \in went'[a]
PROOF
<1> DEFINE base == Baseline(nose, gap)
           move == nose[a] - base[a]
<1>1. reach'[a][1] \in Int /\ reach'[a][2] \in Int /\ nose[a] \in Int /\ MinDistance \in Nat
  <2>1. reach'[a] \in Positions \X Positions
    BY Watching
  <2>2. reach'[a][1] \in Int /\ reach'[a][2] \in Int
    <3> DEFINE p == reach'[a]
    <3>1. p \in Positions \X Positions
      BY <2>1
    <3> HIDE DEF p
    <3>2. p[1] \in Int /\ p[2] \in Int
      BY <3>1, Pairs
    <3>. QED
      BY <3>2 DEF p
  <2>3. nose[a] \in Int
    <3>1. nose \in [Axes -> Nat]
      BY PositionsAssumption
    <3>. QED
      BY <3>1
  <2>. QED
    BY <2>2, <2>3, LimitsAssumption
<1>2. base[a] = (IF gap \/ anchor[a] = NoAnchor THEN nose[a] ELSE anchor[a])
  BY DEF Baseline
<1>3. base[a] \in reach'[a][1] .. reach'[a][2]
  <2>1. CASE gap \/ anchor[a] = NoAnchor
    BY <1>2, <2>1, Watching
  <2>2. CASE ~(gap \/ anchor[a] = NoAnchor)
    <3>1. reach[a] # <<>> /\ anchor[a] \in reach[a][1] .. reach[a][2]
      BY <2>2 DEF InvNod
    <3>2. reach[a][1] \in Int /\ reach[a][2] \in Int
      <4>1. reach[a] \in Positions \X Positions
        BY <3>1 DEF Judged, TypeOK
      <4>. QED
        BY <4>1, Pairs
    <3>3. reach'[a][1] <= reach[a][1] /\ reach[a][2] <= reach'[a][2]
      BY <2>2, <3>1, Watching
    <3>4. base[a] = anchor[a]
      BY <1>2, <2>2
    <3> HIDE DEF base
    <3>5. reach[a][1] <= base[a] /\ base[a] <= reach[a][2] /\ base[a] \in Int
      BY <3>1, <3>2, <3>4
    <3>. QED
      BY <1>1, <3>2, <3>3, <3>5
  <2>. QED
    BY <2>1, <2>2
<1>4. /\ nose[a] - reach'[a][1] > MinDistance => FALSE \in went'[a]
      /\ reach'[a][2] - nose[a] > MinDistance => TRUE \in went'[a]
  BY Watching
<1>5. Far(move) => (move < 0) \in went'[a]
  <2> SUFFICES ASSUME Far(move) PROVE (move < 0) \in went'[a]
    OBVIOUS
  <2> HIDE DEF base
  <2>1. CASE move < 0
    <3>1. reach'[a][2] - nose[a] > MinDistance
      BY <1>1, <1>3, <2>1 DEF Far
    <3>. QED
      BY <1>4, <2>1, <3>1
  <2>2. CASE ~(move < 0)
    <3>1. nose[a] - reach'[a][1] > MinDistance
      BY <1>1, <1>3, <2>2 DEF Far
    <3>2. (move < 0) = FALSE
      BY <2>2
    <3> HIDE DEF move
    <3>. QED
      BY <1>4, <3>1, <3>2
  <2>. QED
    BY <2>1, <2>2
<1>. QED
  BY <1>3, <1>5

(* What a frame does besides the rules: the types of the nod, a chain of   *)
(* legs that were all seen, and a verdict only when one axis has enough.   *)
LEMMA FrameLegs ==
  ASSUME Judged, InvNod, at = "nod",
         NEW nose \in [Axes -> Positions], NEW gap \in BOOLEAN, Watch(nose, gap),
         NEW a \in Axes, NEW move \in Int, (move < 0) \in went'[a],
         legs' = Legs(a, move)
  PROVE  /\ legs' \in [Axes -> Seq(BOOLEAN)]
         /\ \A b \in Axes :
              /\ \A i \in 1 .. Len(legs'[b]) : legs'[b][i] \in went'[b]
              /\ \A i \in 1 .. Len(legs'[b]) - 1 : legs'[b][i] # legs'[b][i + 1]
PROOF
<1> DEFINE d == move < 0
<1>1. legs \in [Axes -> Seq(BOOLEAN)] /\ d \in BOOLEAN
  BY DEF Judged, TypeOK
<1>2. \A b \in Axes :
        /\ \A i \in 1 .. Len(legs[b]) : legs[b][i] \in went'[b]
        /\ \A i \in 1 .. Len(legs[b]) - 1 : legs[b][i] # legs[b][i + 1]
  BY Watching DEF InvNod
<1>3. CASE legs' = legs
  BY <1>1, <1>2, <1>3
<1>4. CASE legs' # legs
  <2>1. legs' = [legs EXCEPT ![a] = Append(@, d)] /\ ~(legs[a] # <<>> /\ legs[a][Len(legs[a])] = d)
    BY <1>4 DEF Legs
  <2>2. \A b \in Axes \ {a} : legs'[b] = legs[b]
    BY <1>1, <2>1
  <2> DEFINE old == legs[a]
             new == legs'[a]
  <2>3. old \in Seq(BOOLEAN) /\ new = Append(old, d)
    BY <1>1, <2>1
  <2>4. legs' \in [Axes -> Seq(BOOLEAN)]
    BY <1>1, <2>1, <2>3
  <2>5. /\ \A i \in 1 .. Len(old) : old[i] \in went'[a]
        /\ \A i \in 1 .. Len(old) - 1 : old[i] # old[i + 1]
        /\ d \in went'[a]
        /\ old # <<>> => old[Len(old)] # d
    BY <1>2, <2>1
  <2> HIDE DEF old, new, d
  <2>6. /\ Len(new) = Len(old) + 1 /\ new[Len(old) + 1] = d
        /\ \A i \in 1 .. Len(old) : new[i] = old[i]
    BY <1>1, <2>3
  <2>7. \A i \in 1 .. Len(new) : new[i] \in went'[a]
    BY <2>3, <2>5, <2>6
  <2>8. ASSUME NEW i \in 1 .. Len(new) - 1 PROVE new[i] # new[i + 1]
    <3>1. CASE i = Len(old)
      BY <2>3, <2>5, <2>6, <3>1
    <3>2. CASE i # Len(old)
      <4>1. i \in 1 .. Len(old) - 1 /\ i \in 1 .. Len(old) /\ i + 1 \in 1 .. Len(old)
        BY <2>3, <2>6, <3>2
      <4>. QED
        BY <2>5, <2>6, <4>1
    <3>. QED
      BY <3>1, <3>2
  <2>. QED
    BY <1>2, <2>2, <2>4, <2>7, <2>8 DEF new
<1>. QED
  BY <1>3, <1>4

(* Two legs of one axis that follow each other are both directions. *)
LEMMA BothWays ==
  ASSUME NEW S \in SUBSET BOOLEAN, NEW s \in Seq(BOOLEAN), Len(s) >= 2,
         \A i \in 1 .. Len(s) : s[i] \in S,
         \A i \in 1 .. Len(s) - 1 : s[i] # s[i + 1]
  PROVE  S = BOOLEAN
PROOF
<1>1. s[1] \in S /\ s[2] \in S /\ s[1] # s[2]
  <2>1. 1 \in 1 .. Len(s) /\ 2 \in 1 .. Len(s) /\ 1 \in 1 .. Len(s) - 1 /\ 2 = 1 + 1
    OBVIOUS
  <2>. QED
    BY <2>1
<1>. QED
  BY <1>1

(* A frame: the types, and what is anchored and recorded; and a verdict of *)
(* the nod was a movement both ways. *)
LEMMA FrameStep ==
  ASSUME Judged, InvNod,
         NEW nose \in [Axes -> Positions], NEW gap \in BOOLEAN, Frame(nose, gap)
  PROVE  /\ Judged'
         /\ InvNod'
         /\ at' # "nod" /\ MinDirections >= 2 =>
              /\ log'[Len(log')] = "yes" => went'["y"] = BOOLEAN
              /\ log'[Len(log')] = "no" => went'["x"] = BOOLEAN
PROOF
<1> DEFINE base == Baseline(nose, gap)
           axis == Dominant(nose, base)
           move == nose[axis] - base[axis]
<1>1. at = "nod" /\ Watch(nose, gap) /\ left' = left
  BY DEF Frame
<1>2. axis \in Axes
  BY DEF Dominant
<1>3. nose \in [Axes -> Nat] /\ \A a \in Axes : reach'[a] # <<>>
  <2>1. reach' \in [Axes -> Positions \X Positions]
    BY <1>1, Watching
  <2>2. \A a \in Axes : reach'[a] \in Positions \X Positions
    BY <2>1
  <2>. QED
    BY <2>2, Pairs, PositionsAssumption
<1>4. /\ base \in [Axes -> Positions]
      /\ \A a \in Axes : base[a] \in reach'[a][1] .. reach'[a][2]
  BY <1>1, Moving DEF Baseline, Judged, TypeOK
<1>5. base \in [Axes -> Nat]
  BY <1>4, PositionsAssumption
<1>6. Far(move) => (move < 0) \in went'[axis]
  BY <1>1, <1>2, Moving
<1>7. move \in Int
  BY <1>2, <1>3, <1>5
<1>8. KeysTyped
  BY <1>1 DEF Frame, Verdict, KeysTyped, Judged, TypeOK
<1>9. Len(log) < Len(rules) /\ at # "ended" /\ Rule.stamp = "nod"
  BY <1>1, Current DEF InStamp
<1>10. /\ reach' \in [Axes -> {<<>>} \union (Positions \X Positions)]
       /\ went' \in [Axes -> SUBSET BOOLEAN]
  BY <1>1, Watching
<1>11. CASE ~Far(move)
  <2>1. anchor' = base /\ UNCHANGED <<rules, at, log, code, legs>>
    BY <1>11 DEF Frame
  <2>2. RulesKept
    BY <1>1, <1>9, <2>1, Staying
  <2>3. NodTyped
    BY <1>4, <1>10, <2>1 DEF NodTyped, Judged, TypeOK
  <2>4. InvNod'
    BY <1>1, <1>3, <1>4, <2>1, Watching DEF InvNod
  <2>. QED
    BY <1>1, <1>8, <2>1, <2>2, <2>3, <2>4, Assembled
<1>12. CASE Far(move)
  <2>1. anchor' = [base EXCEPT ![axis] = nose[axis]] /\ legs' = Legs(axis, move)
    BY <1>12 DEF Frame
  <2>2. /\ legs' \in [Axes -> Seq(BOOLEAN)]
        /\ \A b \in Axes :
             /\ \A i \in 1 .. Len(legs'[b]) : legs'[b][i] \in went'[b]
             /\ \A i \in 1 .. Len(legs'[b]) - 1 : legs'[b][i] # legs'[b][i + 1]
    BY <1>1, <1>2, <1>6, <1>7, <1>12, <2>1, FrameLegs
  <2>3. anchor' \in [Axes -> Positions]
    BY <1>2, <1>4, <2>1
  <2>4. NodTyped
    BY <1>10, <2>2, <2>3 DEF NodTyped
  <2>5. \A a \in Axes : anchor'[a] \in reach'[a][1] .. reach'[a][2]
    BY <1>1, <1>2, <1>4, <2>1, Watching
  <2>6. InvNod'
    BY <1>3, <2>2, <2>5 DEF InvNod
  <2>7. CASE Len(legs'[axis]) >= MinDirections
    <3>1. Verdict(IF axis = "y" THEN "yes" ELSE "no", axis = "y")
      BY <1>12, <2>7 DEF Frame
    <3>2. RulesKept
      <4>1. CASE axis = "y"
        BY <1>1, <3>1, <4>1, Judging DEF MayPass, InStamp, Hows
      <4>2. CASE axis # "y"
        BY <1>1, <3>1, <4>2, Judging DEF MayPass, InStamp, Hows
      <4>. QED
        BY <4>1, <4>2
    <3>3. log' = Append(log, IF axis = "y" THEN "yes" ELSE "no")
      BY <3>1 DEF Verdict, Pass, Exit
    <3>4. log'[Len(log')] = (IF axis = "y" THEN "yes" ELSE "no")
      BY <3>3 DEF Judged, TypeOK
    <3>5. MinDirections >= 2 => went'[axis] = BOOLEAN
      <4> DEFINE S == went'[axis]
                 s == legs'[axis]
      <4>1. /\ S \in SUBSET BOOLEAN /\ s \in Seq(BOOLEAN)
            /\ \A i \in 1 .. Len(s) : s[i] \in S
            /\ \A i \in 1 .. Len(s) - 1 : s[i] # s[i + 1]
        BY <1>2, <1>10, <2>2
      <4>2. MinDirections >= 2 => Len(s) >= 2
        BY <2>7, <4>1, LimitsAssumption
      <4> HIDE DEF S, s
      <4>3. MinDirections >= 2 => S = BOOLEAN
        BY <4>1, <4>2, BothWays
      <4>. QED
        BY <4>3 DEF S
    <3>. QED
      BY <1>2, <1>8, <2>4, <2>6, <3>2, <3>4, <3>5, Assembled
  <2>8. CASE ~(Len(legs'[axis]) >= MinDirections)
    <3>1. UNCHANGED <<rules, at, log, code>>
      BY <1>12, <2>8 DEF Frame
    <3>2. RulesKept
      BY <1>1, <1>9, <3>1, Staying
    <3>. QED
      BY <1>1, <1>8, <2>4, <2>6, <3>1, <3>2, Assembled
  <2>. QED
    BY <2>7, <2>8
<1>. QED
  BY <1>11, <1>12

-----------------------------------------------------------------------------
Keys == {"abort", "confirm"}

(* Every step keeps the types and what is known of the rules. *)
LEMMA JudgedStep ==
  ASSUME Judged, InvNod, [Next]_vars
  PROVE  Judged' /\ InvNod'
PROOF
<1>1. ASSUME NEW nose \in [Axes -> Positions], NEW gap \in BOOLEAN, Frame(nose, gap)
      PROVE  Judged' /\ InvNod'
  BY <1>1, FrameStep
<1>2. CASE SkipRule \/ RuleRaises \/ AllProcessed \/ StartNod \/ StartHotkey
  <2>1. Judged'
    BY <1>2, RuleSteps
  <2>2. CASE StartNod
    BY <2>1, <2>2 DEF StartNod, NodForgotten, Nowhere, Empty, Nothing, InvNod
  <2>3. CASE ~StartNod
    BY <1>2, <2>1, <2>3
    DEF SkipRule, RuleRaises, AllProcessed, StartHotkey, Pass, Exit, InvNod
  <2>. QED
    BY <2>2, <2>3
<1>3. CASE StampCrashes \/ CameraExits \/ NoKeyboardModule \/ NodTimesOut \/ HotkeyTimesOut
  <2>1. Judged'
    BY <1>3, BreakSteps
  <2>2. at' \in {"rules", "ended"}
    BY <1>3 DEF StampCrashes, CameraExits, NoKeyboardModule, NodTimesOut, HotkeyTimesOut,
                TimeOut, Verdict, Pass, Exit
  <2>. QED
    BY <2>1, <2>2 DEF InvNod
<1>4. CASE RegisterKeys \/ LookForAbort \/ LookForConfirm \/ Nap
  BY <1>4, KeySteps
  DEF RegisterKeys, LookForAbort, LookForConfirm, Nap, Pass, Exit, InvNod
<1>5. ASSUME NEW k \in Keys, KeyPressed(k)
      PROVE  Judged' /\ InvNod'
  BY <1>5, KeySteps DEF Keys, KeyPressed, InvNod
<1>6. CASE UNCHANGED vars
  <2>1. Judged'
    BY <1>6 DEF Judged, TypeOK, InvRules, PassedRules, InStamp, Rule
  <2>2. InvNod'
    BY <1>6 DEF InvNod
  <2>. QED
    BY <2>1, <2>2
<1>. QED
  BY <1>1, <1>2, <1>3, <1>4, <1>5, <1>6 DEF Next, Advance, Keys

(* A run that has not looked at a rule yet has judged nothing. *)
LEMMA JudgedInit ==
  ASSUME Init
  PROVE  Judged /\ InvNod
PROOF
<1>1. rules \in Seq(Rules) /\ log = <<>> /\ code = Running /\ at = "rules"
  BY RuleSetsAssumption DEF Init
<1>2. /\ log \in Seq({"skipped", "raised", "timeout", "crash", "exit", "yes", "no"})
      /\ Len(log) = 0 /\ Len(log) <= Len(rules)
  BY <1>1
<1>3. TypeOK
  BY <1>1, <1>2, LimitsAssumption DEF Init, TypeOK, Nowhere, Empty, Nothing
<1>. QED
  BY <1>1, <1>2, <1>3 DEF Init, Judged, InvRules, InStamp, PassedRules, InvNod

(* What is known of rules and legs holds in every reachable state. *)
LEMMA JudgedAlways == Spec => [](Judged /\ InvNod)
PROOF
<1>1. Init => Judged /\ InvNod
  BY JudgedInit
<1>2. (Judged /\ InvNod) /\ [Next]_vars => (Judged /\ InvNod)'
  BY JudgedStep
<1>. QED
  BY <1>1, <1>2, PTL DEF Spec

(* The variables of execute(), of both stamps and of the ghosts that watch *)
(* the user keep their types, and the log never outgrows the rules.        *)
THEOREM StampTypeCorrect == Spec => []TypeOK
PROOF
<1>1. Judged => TypeOK
  BY DEF Judged
<1>. QED
  BY <1>1, JudgedAlways, PTL

(* execute() ends the process with 0 only after every rule of the file, in *)
(* its order, was passed for a reason the file gives. *)
THEOREM PassedRulesSafe == Spec => []RulesInv
PROOF
<1>1. Judged => RulesInv
  BY DEF Judged, RulesInv
<1>. QED
  BY <1>1, JudgedAlways, PTL

-----------------------------------------------------------------------------
(* What was logged last, and for which rule. *)
LEMMA Logged ==
  ASSUME Judged, Len(log) < Len(rules), rules' = rules, NEW how \in Hows, log' = Append(log, how)
  PROVE  log'[Len(log')] = how /\ rules'[Len(log')] = Rule
BY DEF Judged, TypeOK, Rule, Hows

Earned == Judged /\ InvNod /\ InvKeys /\ VerdictsEarned

(* Of the ends that no user brings about nothing is asked. *)
LEMMA Unasked ==
  ASSUME Judged, Len(log) < Len(rules), rules' = rules,
         NEW how \in {"skipped", "raised", "crash", "exit"}, log' = Append(log, how),
         at' \in {"rules", "ended"}
  PROVE  InvKeys' /\ VerdictsEarned'
BY Logged DEF Hows, InvKeys, VerdictsEarned, NodMeansMoved, KeysHeard

(* While a stamp runs there is no verdict to ask about. *)
LEMMA Undecided ==
  ASSUME at' \notin {"rules", "ended"}
  PROVE  VerdictsEarned'
BY DEF VerdictsEarned, NodMeansMoved, KeysHeard, Last

(* The steps of the hotkey. *)
LEMMA HotkeyEarned ==
  ASSUME Earned,
         \/ RegisterKeys \/ LookForAbort \/ LookForConfirm \/ Nap \/ HotkeyTimesOut
         \/ \E k \in Keys : KeyPressed(k)
  PROVE  InvKeys' /\ VerdictsEarned'
PROOF
<1>1. at \in {"keyboard", "turn", "confirm?", "nap"} /\ Judged
  BY DEF Earned, RegisterKeys, LookForAbort, LookForConfirm, Nap, HotkeyTimesOut, KeyPressed
<1>2. Len(log) < Len(rules) /\ Rule.stamp = "hotkey"
  BY <1>1, Current DEF InStamp
<1>3. /\ IF key = "none" THEN struck = {} ELSE key \in struck
      /\ known = {} \/ struck = Keys \/ (at = "confirm?" /\ key = "confirm")
      /\ key \in {"none", "abort", "confirm"} /\ struck \subseteq Keys /\ known \subseteq struck
  BY <1>1 DEF Earned, Judged, TypeOK, InvKeys, Keys
<1>4. CASE RegisterKeys \/ Nap
  BY <1>3, <1>4, Undecided DEF RegisterKeys, Nap, InvKeys, Keys
<1>5. CASE LookForAbort
  <2>1. CASE key = "abort"
    <3>1. rules' = rules /\ log' = Append(log, "no") /\ at' = "ended" /\ "abort" \in struck'
      BY <1>3, <1>5, <2>1 DEF LookForAbort, Exit
    <3>. QED
      BY <1>1, <1>2, <3>1, Logged
      DEF Hows, InvKeys, VerdictsEarned, NodMeansMoved, KeysHeard, Last
  <2>2. CASE key # "abort"
    BY <1>3, <1>5, <2>2, Undecided DEF LookForAbort, InvKeys, Keys
  <2>. QED
    BY <2>1, <2>2
<1>6. CASE LookForConfirm
  <2>1. CASE key = "confirm"
    <3>1. rules' = rules /\ log' = Append(log, "yes") /\ at' = "rules" /\ "confirm" \in struck'
      BY <1>3, <1>6, <2>1 DEF LookForConfirm, Pass
    <3>. QED
      BY <1>1, <1>2, <3>1, Logged
      DEF Hows, InvKeys, VerdictsEarned, NodMeansMoved, KeysHeard, Last
  <2>2. CASE key # "confirm"
    BY <1>3, <1>6, <2>2, Undecided DEF LookForConfirm, InvKeys, Keys
  <2>. QED
    BY <2>1, <2>2
<1>7. CASE HotkeyTimesOut
  <2>1. /\ rules' = rules /\ log' = Append(log, "timeout") /\ at' \in {"rules", "ended"}
        /\ known' = {} \/ struck' = Keys
    BY <1>3, <1>7 DEF HotkeyTimesOut, TimeOut, Verdict, Pass, Exit
  <2>. QED
    BY <1>1, <1>2, <2>1, Logged
    DEF Hows, InvKeys, VerdictsEarned, NodMeansMoved, KeysHeard, Last, Keys
<1>8. ASSUME NEW k \in Keys, KeyPressed(k)
      PROVE  InvKeys' /\ VerdictsEarned'
  <2>1. at' \in {"turn", "confirm?", "nap"} /\ at' = at /\ key' = k /\ known' = known
        /\ struck' = struck \union {k}
    BY <1>8 DEF KeyPressed
  <2>2. struck' = Keys \/ (known' = {} \/ (at' = "confirm?" /\ key' = "confirm"))
    BY <1>3, <2>1 DEF Keys
  <2>. QED
    BY <2>1, <2>2, Undecided DEF InvKeys, Keys
<1>. QED
  BY <1>4, <1>5, <1>6, <1>7, <1>8

(* The steps of the nod. *)
LEMMA NodEarned ==
  ASSUME Earned, MinDirections >= 2,
         \/ NodTimesOut
         \/ \E nose \in [Axes -> Positions], gap \in BOOLEAN : Frame(nose, gap)
  PROVE  InvKeys' /\ VerdictsEarned'
PROOF
<1>1. at = "nod" /\ Judged
  BY DEF Earned, NodTimesOut, Frame
<1>2. Len(log) < Len(rules) /\ Rule.stamp = "nod"
  BY <1>1, Current DEF InStamp
<1>3. CASE NodTimesOut
  <2>1. rules' = rules /\ log' = Append(log, "timeout") /\ at' \in {"rules", "ended"}
    BY <1>3 DEF NodTimesOut, TimeOut, Verdict, Pass, Exit
  <2>. QED
    BY <1>1, <1>2, <2>1, Logged
    DEF Hows, InvKeys, VerdictsEarned, NodMeansMoved, KeysHeard, Last
<1>4. ASSUME NEW nose \in [Axes -> Positions], NEW gap \in BOOLEAN, Frame(nose, gap)
      PROVE  InvKeys' /\ VerdictsEarned'
  <2>1. CASE at' = "nod"
    BY <2>1, Undecided DEF InvKeys
  <2>2. CASE at' # "nod"
    <3>1. PICK how \in {"yes", "no"} :
            rules' = rules /\ log' = Append(log, how) /\ at' \in {"rules", "ended"}
      BY <1>1, <1>4, <2>2 DEF Frame, Verdict, Pass, Exit
    <3>2. rules'[Len(log')].stamp = "nod"
      BY <1>1, <1>2, <3>1, Logged DEF Hows
    <3>3. NodMeansMoved'
      BY <1>4, <2>2, FrameStep DEF Earned, NodMeansMoved
    <3>. QED
      BY <3>1, <3>2, <3>3 DEF InvKeys, VerdictsEarned, KeysHeard, Last
  <2>. QED
    BY <2>1, <2>2
<1>. QED
  BY <1>3, <1>4

LEMMA EarnedStep ==
  ASSUME Earned, MinDirections >= 2, [Next]_vars
  PROVE  Earned'
PROOF
<1>1. Judged' /\ InvNod'
  BY JudgedStep DEF Earned
<1>2. CASE SkipRule \/ RuleRaises
  <2>1. PICK how \in {"skipped", "raised"} :
          /\ Len(log) < Len(rules) /\ rules' = rules
          /\ log' = Append(log, how) /\ at' \in {"rules", "ended"}
    BY <1>2 DEF SkipRule, RuleRaises, NextRule, Pass, Exit
  <2>. QED
    BY <1>1, <2>1, Unasked DEF Earned
<1>3. CASE StampCrashes \/ CameraExits \/ NoKeyboardModule
  <2>1. PICK how \in {"crash", "exit"} :
          InStamp /\ rules' = rules /\ log' = Append(log, how) /\ at' \in {"rules", "ended"}
    BY <1>3 DEF StampCrashes, CameraExits, NoKeyboardModule, Pass, Exit, InStamp
  <2>2. Len(log) < Len(rules)
    BY <2>1, Current DEF Earned
  <2>. QED
    BY <1>1, <2>1, <2>2, Unasked DEF Earned
<1>4. CASE AllProcessed
  BY <1>1, <1>4
  DEF AllProcessed, Earned, InvKeys, VerdictsEarned, NodMeansMoved, KeysHeard, Last
<1>5. CASE StartNod
  BY <1>1, <1>5, Undecided DEF StartNod, Earned, InvKeys
<1>6. CASE StartHotkey
  BY <1>1, <1>6, Undecided DEF StartHotkey, Earned, InvKeys
<1>7. CASE \/ NodTimesOut
           \/ \E nose \in [Axes -> Positions], gap \in BOOLEAN : Frame(nose, gap)
  BY <1>1, <1>7, NodEarned DEF Earned
<1>8. CASE \/ RegisterKeys \/ LookForAbort \/ LookForConfirm \/ Nap \/ HotkeyTimesOut
           \/ \E k \in Keys : KeyPressed(k)
  BY <1>1, <1>8, HotkeyEarned DEF Earned
<1>9. CASE UNCHANGED vars
  BY <1>1, <1>9 DEF Earned, InvKeys, VerdictsEarned, NodMeansMoved, KeysHeard, Last
<1>. QED
  BY <1>2, <1>3, <1>4, <1>5, <1>6, <1>7, <1>8, <1>9 DEF Next, Advance, Keys

(* With min_directions of two or more, the verdict of a nod is a movement  *)
(* of the head both ways along its axis, and hotkey.run answers the keys   *)
(* that were struck: neither stamp decides by itself. *)
THEOREM VerdictsAreEarned ==
  ASSUME MinDirections >= 2
  PROVE  Spec => []VerdictsEarned
PROOF
<1>1. Init => Earned
  <2> SUFFICES ASSUME Init PROVE Earned
    OBVIOUS
  <2>1. at = "rules" /\ log = <<>>
    BY DEF Init
  <2>. QED
    BY <2>1, JudgedInit DEF Earned, InvKeys, VerdictsEarned, NodMeansMoved, KeysHeard, Last
<1>2. Earned /\ [Next]_vars => Earned'
  BY EarnedStep
<1>3. Earned => VerdictsEarned
  BY DEF Earned
<1>. QED
  BY <1>1, <1>2, <1>3, PTL DEF Spec
=============================================================================
