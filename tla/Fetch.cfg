SPECIFICATION FairSpec
CONSTANTS
  MaxTries = 3
  MaxRedirects = 2
INVARIANTS
  TypeOK
  NoSocketIsForgotten
  OnlyTheItemKeyPanics
PROPERTY OnlyTheDialHangs
\* An item that is fetched or given up is done.
CHECK_DEADLOCK FALSE
