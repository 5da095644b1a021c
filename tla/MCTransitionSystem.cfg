CONSTANTS
  Symbol = {"a", "a.next", "b", "b.next"}
  Base = {"a", "b"}
  NextName <- MCNextName
  Callers <- MCCallers
SPECIFICATION Spec
INVARIANTS
  VariablesAreRegistered
  SymbolsKnown
  TransIsRebuildable
  NamesAgree
PROPERTIES
  ReductionIsExact
CHECK_DEADLOCK FALSE
