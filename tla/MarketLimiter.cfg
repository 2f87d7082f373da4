CONSTANTS
  t1 = t1
  h1 = h1
  h2 = h2
  c1 = c1
  Req = {t1, h1, h2, c1}
  NoReq = NoReq
  LaneOf <- TwoHot
  TripAfter = 2
  LastStep = 2
SPECIFICATION FairSpec
INVARIANT OneProbePerPeriod
PROPERTIES ProbeEndsPeriod NoLaneIsStuck
