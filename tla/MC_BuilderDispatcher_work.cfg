CONSTANTS
  e1 = e1 e2 = e2 e3 = e3 w1 = w1 w2 = w2 l1 = l1 l2 = l2
  c1 = c1 c2 = c2 c3 = c3 k1 = k1 k2 = k2 s1 = s1 s2 = s2
  Events = {e1, e2, e3}
  PriorityOf <- MCPriorityOf
  Correlations = {c1, c2, c3}
  CorrelationOf <- MCCorrelationOf
  Keys = {k1, k2}
  KeyOf <- MCKeyOf
  Guarded = {e2}
  Workers = {w1, w2}
  Loops = {l1, l2}
  Sweepers = {s1}
  SweepModes = {"retry"}
  NoEvent = NoEvent
  NoWorker = NoWorker
  FloodLimit = 2
  Backpressure = 1
  MaxQueueDepth = 2
  CircuitThreshold = 1
  DlqMaxRetries = 1
  DlqMaxSize = 1
  Outcomes = {"COMPLETED", "FAILED", "TIMEOUT"}
  EventsAtStartup = FALSE
  MaxTasks = 4
  MaxFailures = 1
  MaxSweeps = 0
  MaxStops = 0
  MaxSigterms = 0
  MaxErrors = 0
  MaxPauses = 0
  MaxDiscards = 0
SPECIFICATION FairSpec
INVARIANTS TypeOK  NoTaskLost
PROPERTIES AcceptedSettles
