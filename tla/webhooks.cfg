SPECIFICATION FairSpec
INVARIANTS AckedIsProcessed ProcessedIsDone RepeatsAreRetries
PROPERTIES ProcessedIsFinal EventuallyAcked
CONSTANTS
  hello = hello
  stop = stop
  read = read
  first = first
  second = second
  Events = {stop, read}
  StatusEvents = {read}
  StopEvents = {stop}
  Bodies = {first, second}
  Payload <- MCShort
  Requests = {r1, r2}
  Nobody = Nobody
  MaxFaults = 2
