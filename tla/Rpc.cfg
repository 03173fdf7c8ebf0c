SPECIFICATION FairSpec
CONSTANTS
  Main = Main
  Background = Background
  start = start
  publishEvent = publishEvent
  callLepusMethod = callLepusMethod
  sync = sync
  Endpoints = {start, publishEvent, callLepusMethod, sync}
  Returning = {start, callLepusMethod}
  Synchronous = {sync}
  Served <- AllServed
  MaxCalls = 2
  MaxRemovals = 1
INVARIANTS CallsInOrder AnswersFindTheirCall PendingCallsAreOnTheirWay
PROPERTY CallsEnd
CHECK_DEADLOCK FALSE
