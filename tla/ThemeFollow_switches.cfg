SPECIFICATION FairSpec
CONSTANTS
  Key <- SomeKeys
  Sessions <- SomeSessions
  Themes <- SomeThemes
  Icons <- SomeIcons
  Installed <- SomeInstalled
  MaxChanges = 2
INVARIANTS ThemeInv
PROPERTIES FollowsDesktop
CHECK_DEADLOCK FALSE
