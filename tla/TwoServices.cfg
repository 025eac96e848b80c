SPECIFICATION StartSpec
CONSTANTS
  Starter = {c1, c2}
  Past = Past
  Nobody = Nobody
  MaxDeaths = 0
INVARIANT OneServing
CHECK_DEADLOCK FALSE
