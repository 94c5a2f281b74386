CONSTANTS
  Names = {x}
  HintStrs <- MCHintStrs
  AluStrs <- MCAluStrs
  UnaryStrs <- MCUnaryStrs
  CmpStrs <- MCCmpStrs
  LogicStrs <- MCLogicStrs
  Ints <- MCInts
  FloatBits <- MCFloatBits
  WordBits = 3
  Refs = {r1}
  Sources <- MCSources
  MaxHints <- MCMaxHints
  None = None
  MaxValues = 3
  MaxNodes = 2
  MaxList = 2
SPECIFICATION Spec
INVARIANT VarInterning
