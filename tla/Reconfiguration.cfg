\* 1125 / 250 is half way between two oversampling factors; 3 divides no chirp
\* of 2^SF * 4 or 2^SF * 8 samples; SF 11 needs the low data rate at 125 kHz.
CONSTANTS
  BWs = {125, 250}
  SFs = {7, 11}
  SampRates = {1000, 1125}
  Decimations = {1, 3}
  Syncwords = {0, 52}
  Thresholds = {100, 200}
  MaxDetectionDecim = 2
SPECIFICATION SettingsSpec
INVARIANTS VariablesCurrent RunningBlocks
