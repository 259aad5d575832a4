\* What must come to an end, with the bounds of services.cfg but one descriptor for the
\* clients of the HTTP server and one delayed event.
CONSTANTS
  Services = {"tasks", "events", "notice", "httpd", "chain", "control"}
  t1 = t1  t2 = t2  m1 = m1  x = x  y = y
  Task = {t1, t2}
  EspnowSizes = {1, 2}
  Writes = 2
  Retransmit = 2
  QueueSize = 1
  EspnowSeqs = 4
  Troubles = 2
  FileSize = 2
  EntrySizes = {1, 2}
  StampSize = 1
  Entries = 3
  Rooms = {3}
  Mishaps = 1
  Overlap = TRUE
  EventTask = {t1}
  EventRoom = 1
  Events = 3
  Delays = 1
  TimerRoom = 2
  OtherCommands = 1
  LoopStarts = 2
  NoticeType = {"http", "status"}
  NoticeMac = {m1}
  NoticeRoom = 2
  Notices = 4
  NoticeStarts = 2
  SocketFails = 1
  HttpSlots = 2
  HttpRoom = 1
  HttpFd = {1}
  HttpDevices = {1, 2}
  HttpClients = 2
  HttpRequests = 2
  HttpMishaps = 1
  TriggerName = {x, y}
  TriggerSize = {1, 2}
  TriggerItems = 2
  TriggerRequests = 2
  TriggerMishaps = 2
  ChainMaster = {x, y}
  ListTries = 2
  AnswerKeys = 4
  ChainMishaps = 3
  MasterStarts = 4
  SlaveStarts = 2
  RestartCount = 3
  FirmwareFlag <- MCFlag
  ImageLetter = {1, 2}
  ImageSize = 8
  Boots = 5
  NvsFailures = 1
SPECIFICATION ServicesSpec
PROPERTIES
  WritesReturn SendsReturn DelayedAreSent NoticesAreTold NoticeStopReturns
  RequestsEnd SlaveIsConfigured StopsReturn
CHECK_DEADLOCK FALSE
