CONSTANTS
  Primitives <- MCPrimitives
  Identifiers <- MCIdentifiers
  Correlations <- MCCorrelations
  Triggers <- MCTriggers
  Assertions <- MCAssertions
  Events <- MCEvents
  Times <- MCTimes
  MaxEvents = 3
SPECIFICATION Spec
CONSTRAINT ShortStream
INVARIANTS TypeOK NothingOverdueIsOpen VerdictPerObligation FulfilmentsAreEarned BoltsAreDeserved CondemnationsAreExact CoverageIsHonest
PROPERTY ImplementsObligations
CHECK_DEADLOCK FALSE
