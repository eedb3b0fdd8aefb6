------------------------------ MODULE MCWizard ------------------------------
(* Wizard with a few scans and commands, which differ only by name.        *)
EXTENDS Wizard, TLC

CONSTANTS i1, i2, t1, t2, a1, a2

TwoInstalls == {i1, i2}

TwoScanners == {t1, t2}

TwoAdds == {a1, a2}
=============================================================================
