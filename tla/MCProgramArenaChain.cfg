CONSTANTS
  Names = {}
  HintStrs <- MCHintStrs
  AluStrs <- MCAluStrs
  UnaryStrs <- MCUnaryStrs
  CmpStrs <- MCCmpStrs
  LogicStrs <- MCLogicStrs
  Ints <- MCInts
  FloatBits <- MCFloatBits
  WordBits = 3
  Refs = {}
  Sources <- MCSources
  MaxHints <- MCMaxHints
  None = None
  MaxValues = 0
  MaxNodes = 5
  MaxList = 4
SPECIFICATION Spec
PROPERTY ChainSequenceBalanced
