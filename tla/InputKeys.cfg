\* Keys, buttons and the pointer across reconfigurations of one display size.
CONSTANTS
  Keysyms <- MCKeysyms
  Codes <- MCCodes
  Sizes = {s1}
  Positions = {0, 1}
  keysymToAscii <- MCAscii
  latin1ToDeadChars <- MCDead
  spicialKeysymToDirectKey <- MCSpecial
  symbolKeysymToDirectKey <- MCSymbol
  qwerty <- MCQwerty
  NoConfig = NoConfig
SPECIFICATION Spec
INVARIANTS
  TypeOK
  ConfiguredAsAsked
  ButtonsMatch
  NoStuckKeys
  PointerFollows
PROPERTIES
  KeysKept
