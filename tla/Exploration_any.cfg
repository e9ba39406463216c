SPECIFICATION Spec
CONSTANTS
  DIS_STOP = 50
  DIS_HIGH = 130
  INTER_DRONE_DISTANCE = 4
  Hysteresis = 1
  MaxAccel = 20
  MaxBrake = 67
  SpinTime = 1
  CautionTime = 2
  StaleTime = 2
  FrontDistances = {20, 60, 200}
  SideDistances = {20, 150}
  Ranges = {2, 8}
  MaxPoses = 1
INVARIANTS
  TypeOK
  ZoneIsBearing
  FarIsSeen
PROPERTIES
  NotIntoWall
  CautionEnds
  ImplementsFlightScan
