\* Whether reconfigure waits for start.
CONSTANTS
  Keysyms <- MCKeysyms
  Codes <- MCCodes
  Sizes = {s1}
  Positions = {0}
  keysymToAscii <- MCAscii
  latin1ToDeadChars <- MCDead
  spicialKeysymToDirectKey <- MCSpecial
  symbolKeysymToDirectKey <- MCSymbol
  qwerty <- MCQwerty
  NoConfig = NoConfig
SPECIFICATION Spec
INVARIANTS
  CallerNotBlocked
