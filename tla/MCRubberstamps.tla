--------------------------- MODULE MCRubberstamps ---------------------------
(* Rubberstamps with single rules and pairs of them.                       *)
EXTENDS Rubberstamps

Line(s, m, z, p) == [stamp |-> s, mode |-> m, zero |-> z, problem |-> p]

Nod(m, z) == Line("nod", m, z, "none")

Hotkey(m, z) == Line("hotkey", m, z, "none")

SomeRules ==
  {<<>>, <<Nod("Faildeadly", FALSE)>>}
  \union {<<Hotkey(m, z)>> : m \in Modes, z \in BOOLEAN}
  \union {<<Line("nod", "failsafe", FALSE, p), Hotkey("failsafe", TRUE)>> : p \in Skips}
  \union {<<Nod("faildeadly", FALSE), Hotkey("failsafe", FALSE)>>,
          <<Hotkey("faildeadly", FALSE), Nod("failsafe", FALSE)>>,
          <<Hotkey("Faildeadly", FALSE), Line("nod", "failsafe", FALSE, "raises")>>}
=============================================================================
