SPECIFICATION HistorySpec
CONSTANTS
  p1 = p1  p2 = p2  r1 = r1  i1 = i1
  agent = agent  Daemon = Daemon  t1 = t1  u1 = u1  u2 = u2
  None = None
  Procs <- TwoProcs
  Rids <- OneRid
  Inputs <- OneInput
  Authors <- AgentAndDaemon
  Times <- OneTime
  Audio <- TwoAudio
  MaxReceipts = 3
  HostMayRefuse = FALSE
  MaxAdvances = 2
  Callers <- AgentAndDaemon
SYMMETRY Symmetry
INVARIANTS OneItemPerRequest PublishedIsAcknowledged RepliesAgree
PROPERTIES ImplementsService NoResubmission
