SPECIFICATION BusSpec
CONSTANTS
  Builds <- MCBuilds
  RetryCycles = 2
  MaxFaults = 1
  MaxChanges = 1
 
PROPERTIES EachForItself
