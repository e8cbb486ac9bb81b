SPECIFICATION Spec
CHECK_DEADLOCK FALSE
PROPERTIES
  LeaseEnds TrafficIsAnswered DnsComesBack SafeStopEnds QuitReturns
