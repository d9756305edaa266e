\* Two goroutines that shut one Telemetry down, again and again; and, beside one
\* or none of them, what is recorded and flushed, logged and synced.
SPECIFICATION JobSpec
CONSTANTS
  c1 = c1
  c2 = c2
  w1 = w1
  w2 = w2
  Callers <- MCCallers
  Configs <- MCConfigs
  Writers <- MCWriters
  Jobs <- MCJobs
INVARIANTS FlushedIsExported SinksAgree
PROPERTIES ShutdownDrains ImplementsLease SyncEnds
\* A Telemetry that was never built leaves nothing to do.
CHECK_DEADLOCK FALSE
