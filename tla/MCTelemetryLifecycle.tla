------------------------ MODULE MCTelemetryLifecycle ------------------------
(* The processes on which TLC checks TelemetryLifecycle, Delivery and     *)
(* ZapLogger.                                                              *)
EXTENDS ZapLogger
CONSTANTS c1, c2, w1, w2

MCCallers == {c1, c2}
MCWriters == {w1, w2}

\* Every configuration there is.
MCConfigs == ConfigType

Exporting == [logger |-> TRUE, ratio |-> TRUE, enabled |-> TRUE, endpoint |-> "https",
              insecure |-> FALSE, strict |-> TRUE, allowed |-> FALSE]
Disabled  == [Exporting EXCEPT !.enabled = FALSE]

Job(configs, stops, records, flushes, logs, syncs, samples) ==
  [configs |-> configs, stops |-> stops, records |-> records, flushes |-> flushes,
   logs |-> logs, syncs |-> syncs, samples |-> samples]

\* Those for a strict environment: the others export as one of these does.
Strict == {f \in MCConfigs : f.strict}

\* Shutdown calls alone, under each configuration; records that are flushed
\* while they are made and while the providers are stopped; two Sync
\* calls; a writer beside one of them; and one whose records are flushed.
MCJobs ==
  {Job(Strict, MCCallers, FALSE, FALSE, {}, {}, FALSE),
   Job({Exporting, Disabled}, {c1}, TRUE, TRUE, {}, {}, FALSE),
   Job({Exporting}, {}, FALSE, FALSE, {}, MCWriters, FALSE),
   Job({Exporting, Disabled}, {}, FALSE, FALSE, {w1}, {w2}, FALSE),
   Job({Exporting}, {}, FALSE, TRUE, {w1}, {}, TRUE)}
=============================================================================
