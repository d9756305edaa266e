\* Three starts: two goroutines can drain while a third is in the slot.
\* Three contexts: the request's, and two that are derived at once or in turn.
\* Two callers racing for one metric, with up to two instruments made.
\* Six http.Requests: a call, the one made below it, and the clones of each.
SPECIFICATION ServiceSpec
CONSTANTS
  full = full
  noFactory = noFactory
  noProvider = noProvider
  Telemetries <- MCTelemetries
  WithProvider <- MCWithProvider
  WithFactory <- MCWithFactory
  MaxStarts = 3
  g1 = g1
  g2 = g2
  k1 = k1
  k2 = k2
  Goroutines = {g1, g2}
  Updates <- MCUpdates
  Keys = {k1, k2}
  Unset = Unset
  MaxContexts = 3
  MaxSpare = 1
  Instances <- MCWithProvider
  Services <- MCAllServices
  api = api
  auth = auth
  route = route
  Hosts = {api, auth}
  URLs <- MCURLs
  Arrivals <- MCArrivals
  Routes = {route}
  Setups <- SetupType
  MaxRequests = 6
  c1 = c1
  c2 = c2
  plain = plain
  Callers <- MCCallers
  Names <- MCNames
  Spelled <- MCSpelled
  Boundaries <- MCBoundaries
  DefaultBuckets <- MCDefaultBuckets
  Values <- MCValues
  MaxInt64 = 3
  MaxInstruments = 2
INVARIANTS Restartable LoneInstanceServesAll ExportedIsClean RequestsArriveWhole SamplesAreSound
PROPERTIES ImplementsSlot StoppedCollectorEnds ContextsAreImmutable ImplementsRegistry
\* a panic while a panic is being reported ends the process
CHECK_DEADLOCK FALSE
