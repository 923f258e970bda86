CONSTANTS
  Primitives <- MCPrimitives
  Identifiers <- MCIdentifiers
  Correlations <- MCCorrelations
  Triggers <- MCTriggers
  Assertions <- MCAssertions
  Events <- MCEvents
  Times <- MCTimes
  MaxEvents = 4
SPECIFICATION SessionSpec
CONSTRAINT ShortSession
INVARIANT TicksOnlyHasten
CHECK_DEADLOCK FALSE
