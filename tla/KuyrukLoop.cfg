SPECIFICATION Spec
CONSTANTS
  Jobs <- OneJob
  Workers = {w1, w2}
  MaxDeneme = 2  TurBoyu = 2  MaxCrashes = 3
PROPERTY NoRunAfterMax
