SPECIFICATION Spec
CONSTANTS
  Width = 2
  RawKeys <- MCRawKeys
  KeyOf <- MCKeyOf
  Synths <- MCSynths
  Carried <- MCCarried
  MaxDepth = 2
  Backends <- MCBackends
  Exporters <- MCExporters
  Own = "own"
  f1 = f1
  f2 = f2
  f3 = f3
  Runs <- MCRuns
  Fetchers <- MCFetchers
  Files <- MCFiles
  Peers <- MCPeers
  Resolvers <- MCResolvers
  Specs <- MCSpecs
SYMMETRY Symmetry
CHECK_DEADLOCK FALSE
INVARIANT ForeignVerifies
