\* Two goroutines; five frames hold every report that does not fail into the
\* logger it is about.
SPECIFICATION AssertSpec
CONSTANTS
  g1 = g1
  g2 = g2
  Goroutines <- MCGoroutines
  Setups <- MCSetups
  Applications <- MCApplications
  MaxStack = 5
INVARIANTS AssertionToldAlike KeepRunningSurvives RedactionHolds TraceSurvivesFallback PolicyCrashIsReported
PROPERTY ReportEnds
\* a process ends when its goroutines do, or dies
CHECK_DEADLOCK FALSE
