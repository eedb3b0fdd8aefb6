---------------------------- MODULE MCThemeFollow ----------------------------
(* ThemeFollow on small instances for TLC.                                 *)
EXTENDS ThemeFollow

(* One desktop of each kind, by who tells of a change.                     *)
SomeSessions == {"mate", "kde", "own"}

(* Icons are followed as themes are, but for the own session.              *)
SomeKeys == {"dark", "animations", "theme"}

(* One theme has no GTK 4 directory.                                       *)
SomeThemes == {"Yaru", "Orchis"}
SomeIcons == {"Yaru"}
SomeInstalled == {"Yaru"}
=============================================================================
