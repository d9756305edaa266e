-------------------------- MODULE MCPanicRecovery --------------------------
(* The applications on which TLC checks PanicRecovery and Assertions.      *)
EXTENDS Assertions
CONSTANTS g1, g2

MCGoroutines == {g1, g2}

Wirings(policies, loggers, recorders, metricsLoggers, reporters, stdlogs) ==
  [policy : policies, logger : loggers, recorder : recorders,
   metricsLogger : metricsLoggers, reporter : reporters, stdlog : stdlogs]

AllKeep == {[g \in MCGoroutines |-> "KeepRunning"]}
Mixed   == {[g \in MCGoroutines |-> IF g = g1 THEN "CrashProcess" ELSE "KeepRunning"]}

\* Every logger and recorder, broken reporters, a redirected stdlib logger.  Not
\* a recorder that fails into an adapted logger, whose reports nest without end.
MCWirings ==
  Wirings(Mixed, {"adapted"}, {"sound"}, {"sound"}, {"panicking"}, {"bare"})
  \cup Wirings(AllKeep, {"nil", "sound", "bare"}, {"failing"}, {"nil"}, {"panicking"}, {"plain"})
  \cup Wirings(Mixed, {"nil"}, {"panicking"}, {"nil"}, {"sound"}, {"bare"})
  \cup Wirings(AllKeep, {"nil"}, {"failing"}, {"bare", "adapted"}, {"none"}, {"plain"})
  \cup Wirings(AllKeep, {"adapted"}, {"sound"}, {"nil"}, {"none"}, {"adapted"})

\* What assertions are made in.
MCSound == Wirings(Mixed, {"nil"}, {"sound"}, {"nil"}, {"none"}, {"bare"})

\* The stdlib logger writes into an adapted logger.
MCRedirect  == Wirings(AllKeep, {"adapted"}, {"sound"}, {"nil"}, {"none"}, {"adapted"})

Asserters(by, loggers, recorders, envs, halts) ==
  [by : {by}, logger : loggers, recorder : recorders, env : envs, halts : halts]
Of(wirings, asserters) == [setup : wirings, asserter : asserters]

NoAsserters == Asserters({}, {"nil"}, {"none"}, {FALSE}, {FALSE})

\* A callback whose panic is the end of the process asserts through each kind of
\* logger and recorder, and may halt.
MCAsserters ==
  Asserters({g1}, {"bare", "adapted"}, {"sound"}, {FALSE}, {FALSE})
  \cup Asserters({g1}, {"nil"}, {"panicking"}, {FALSE}, {FALSE})
  \cup Asserters({g1}, {"sound"}, {"failing"}, {FALSE}, {TRUE})
  \cup Asserters({g1}, {"adapted"}, {"none"}, {TRUE}, {TRUE})

MCSetups == MCWirings \cup MCSound \cup MCRedirect

MCApplications == Of(MCWirings, NoAsserters) \cup Of(MCSound, MCAsserters)
MCRedirected   == Of(MCRedirect, NoAsserters)
=============================================================================
