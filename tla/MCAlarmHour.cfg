SPECIFICATION Spec
CONSTANTS
  MaxWord = 40
  Thousand = 4
INVARIANTS
  TopsOutAtTheLongest
