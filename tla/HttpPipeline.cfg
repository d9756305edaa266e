\* The order the comments require and any other, with refusals, excluded routes,
\* rogue middleware, and every error under every ErrorHandler.
SPECIFICATION Spec
CONSTANT Setups <- MCAll
INVARIANTS SignalsAgree ClientSeesWhatWasReported CauseIsLogged LoggedAndCountedOnce
  RogueErrorIsDiscarded MappedStatusSurvives ReturnedErrorNeverCrashes
PROPERTY ImplementsSignals
\* a request ends
CHECK_DEADLOCK FALSE
