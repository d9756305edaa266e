\* A service that serves net/http, over transports that make requests of their own.
SPECIFICATION ServiceSafe
CONSTANTS
  full = full
  noFactory = noFactory
  noProvider = noProvider
  Telemetries <- MCTelemetries
  WithProvider <- MCWithProvider
  WithFactory <- MCWithFactory
  MaxStarts = 3
  g1 = g1
  g2 = g2
  k1 = k1
  k2 = k2
  Goroutines = {g1, g2}
  Updates <- MCUpdates
  Keys = {k1, k2}
  Unset = Unset
  MaxContexts = 3
  MaxSpare = 1
  Instances <- MCWithProvider
  Services <- MCNetServices
  api = api
  auth = auth
  route = route
  Hosts = {api, auth}
  URLs <- MCURLs
  Arrivals <- MCArrivals
  Routes = {route}
  Setups <- SetupType
  MaxRequests = 6
  c1 = c1
  c2 = c2
  plain = plain
  Callers <- MCCallers
  Names <- MCNames
  Spelled <- MCSpelled
  Boundaries <- MCBoundaries
  DefaultBuckets <- MCDefaultBuckets
  Values <- MCValues
  MaxInt64 = 3
  MaxInstruments = 2
INVARIANT WireIsUnchanged
CHECK_DEADLOCK FALSE
