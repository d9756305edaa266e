\* The stdlib logger is redirected into an adapted logger.
SPECIFICATION AssertSpec
CONSTANTS
  g1 = g1
  g2 = g2
  Goroutines <- MCGoroutines
  Setups <- MCSetups
  Applications <- MCRedirected
  MaxStack = 5
INVARIANT FallbackReturns
\* a process ends when its goroutines do, or dies
CHECK_DEADLOCK FALSE
