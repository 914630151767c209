SPECIFICATION FairSpec
CONSTANTS
  MaxTries = 3
  MaxRedirects = 2
PROPERTY TimeoutEndsFetch
\* An item that is fetched or given up is done.
CHECK_DEADLOCK FALSE
