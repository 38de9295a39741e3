SPECIFICATION Spec
CONSTANTS
  Seed = seed
  Indexes <- MCIndexes
  IntWidth = 4
  LongWidth = 16
  Chains <- MCChains
  Payments = {p1, p2}
  Lines <- MCLines
  MaxLines = 2
  Texts <- MCTexts
  MaxShown = 2
  Byte = 8
  HashSize = 3
  Asked <- MCAsked
  Version = 2
  Sequence <- MCSequence
  Locktime = 0
  Programs <- MCPrograms
  ProgramSize = 32
  MaxIn = 80
  FeeRates <- MCFeeRates
  KeyMaster = 0
  KeyRead = 2
  KeyWrite = 3
  CardKeys <- MCCardKeys
  CardsAtStart <- MCCards
  Calls <- MCCalls
  MaxCalls = 0
  MaxFaults = 2
INVARIANT EveryIndexHasItsAddress
CHECK_DEADLOCK FALSE
