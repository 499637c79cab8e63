SPECIFICATION SharedSpec
CONSTANTS
  MaxHeader = 6
  MaxBody = 4
  MaxInterim = 2
  MaxRedirects = 1
  MaxLayers = 2
  MaxAddrs = 2
  Servers <- MCServers
  Jobs <- MCJobs
  TrustRuns <- MCTrustRuns
  Bundle = {"public"}
  MaxRecords = 3
  MaxInbound = 3
  Writers = {w1}
  Dials <- MCDials
  Horizon = 8
  H3Runs <- MCH3Runs
  H3Interim = 1
  MaxResponse = 3
  MaxUni = 3
  Patience = 2
INVARIANTS
    BrokenNotCorrupted
