\* Runs that are killed, hosts that fail and a world that changes, one fault at any point.
SPECIFICATION FairSpec
CONSTANTS
  Server = {ns1, ns2}
  SshKey = {ssh1, ssh2}
  Time = {t1, t2}
  MaxKeys = 2
  MaxRuns = 3
  MaxFaults <- OneOfEach
  MaxInAll = 1
  Nil = Nil
INVARIANTS RecordedIsOnHost CleanWhenRecorded PinnedOnce
PROPERTIES ReceiptMeansHealthy ReceiptIsFinal InstalledEventually
CHECK_DEADLOCK FALSE
