\* Three findings in batches of two, the last of which cannot be sent.
CONSTANTS
  MaxItems = 3
  BatchSize = 2
  RetryMax = 1
  MaxFaults = 2
  Unsendable = {3}

SPECIFICATION FairSpec

INVARIANTS
  NothingVanishes
  GivenUpAfterRetries

PROPERTY Drains
