CONSTANTS
  None = None
  UiCalls = {"start", "configure_capture", "clear", "sync_on", "sync_off"}
  HelperCalls = {"stop", "save"}
  Scheduled = {"upload_on", "upload_off", "start", "stop", "save"}
  MaxCalls <- MCMaxCalls
  PerUi = 1
  PerHelper = 1
  PerScheduler = 2
  FaultKinds = {"device", "stream", "remove", "restart", "panic"}
  MaxFaults = 1
SPECIFICATION FairSpec
INVARIANTS TypeOK NothingAfterDestroy OneRecorder UploadReadsTheRecorder
PROPERTIES ShutdownEnds
CHECK_DEADLOCK FALSE
