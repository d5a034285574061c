SPECIFICATION FairSpec
CONSTANTS
  Readings = {50, 51}
  MaxWaves = 2
  MayPress = FALSE
  Prompt = TRUE
  MayMatchOld = FALSE
PROPERTY SamplingGoesOn
