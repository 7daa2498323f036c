SPECIFICATION FairSpec
CONSTANTS
  Jobs <- TwoJobs
  Workers = {w1, w2}
  MaxDeneme = 2  TurBoyu = 2  MaxCrashes = 2
INVARIANTS TypeOK OneWorkerPerJob GivenUpOnlyWhenTried
PROPERTIES OutcomeForGood JobsEnd
