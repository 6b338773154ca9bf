SPECIFICATION FairSpec
CONSTANTS
  Apps <- MCApps
  MaxCrash = 1
INVARIANT TypeOK
INVARIANT NoMissingLookup
INVARIANT FirstStartsFed
INVARIANT RegistryAgrees
PROPERTY AllStart
CHECK_DEADLOCK FALSE
