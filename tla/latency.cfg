CONSTANTS
  Samples = {1, 2, 3}
  PerMilles <- MCPerMilles
  MaxSamples = 4
SPECIFICATION StatsSpec
INVARIANTS PercentileExact
