SPECIFICATION NrfFairSpec
CONSTANTS
  Tries = 3
  MaxRuns = 3
INVARIANTS NrfInductive RegisteredIsKnown LeftBehindOnlyAfterFault
PROPERTIES RegistrationEnds
