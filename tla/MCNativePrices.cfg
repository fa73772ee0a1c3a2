SPECIFICATION Spec
CONSTANTS
  s1 = s1
  s2 = s2
  Source = {s1, s2}
  Token = {t1, t2}
  Client = {c1}
  Result = {"Price", "NoLiquidity", "RateLimited"}
  Stages <- MCStages
  results_required = 1
  max_age = 3
  prefetch_time = 2
  MaxEstimationTime = 0
  update_size = 2
  min_back_off = 1
  max_back_off = 2
  back_off_growth_factor = 2
  MaxTimes = 2
SYMMETRY Symmetry
INVARIANTS
  NoLiquidityIsUnanimous
  
PROPERTIES
  OneGrowthPerWave
