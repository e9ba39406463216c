---------------------------- MODULE Exploration ----------------------------
(***************************************************************************)
(* The flight task of a drone (exploration.c, flight_commander.c,          *)
(* limit_actuation.c, uwb_collision_det.c) with the part of the UWB task   *)
(* that measures the distance and position of another drone.               *)
(*                                                                         *)
(* The flight task reads the distance to the next drone and, later in the  *)
(* same iteration, where the drones near are: a ranging may come between.  *)
(* Lengths are in cm (between drones in a unit of the run's choice), speeds*)
(* in cm/s, times in s.                                                    *)
(***************************************************************************)
EXTENDS Integers, FiniteSets, TLC

CONSTANTS
  DIS_STOP, DIS_HIGH,     \* 50 and 130: where a drone stops and slows down
  INTER_DRONE_DISTANCE,   \* 1 m
  Hysteresis,             \* 0.3 m
  MaxAccel, MaxBrake,     \* change of speed in an iteration (3.3 and 67)
  SpinTime,               \* 2 s: scans are valid after it
  CautionTime,            \* 5 s
  StaleTime,              \* 3 s: a ranging that old is not used
  FrontDistances, SideDistances,   \* bounds: what the ToF sensors see
  Ranges,                 \* bound: distances between the drones
  MaxPoses                \* bound: poses acquired

ASSUME ExplorationAssumption ==
  /\ {DIS_STOP, DIS_HIGH, INTER_DRONE_DISTANCE, Hysteresis, MaxAccel, MaxBrake,
      SpinTime, CautionTime, StaleTime, MaxPoses} \subseteq Nat
  /\ DIS_STOP < DIS_HIGH /\ MaxPoses > 0
  /\ UNION {FrontDistances, SideDistances, Ranges} \subseteq Nat

(* What the line detector and the estimator may report: the slope of a     *)
(* wall ahead in tenths (-100: none); the bearing of the other drone, as   *)
(* its place and the yaw of this one.                                      *)
Angles == {-100, 3, 8, 12}
Bearings == {<<1, 0, 0>>, <<0, 1, 0>>, <<-1, -1, 90>>}

VARIABLES
  task,          \* flight task: "wait", "read", "fly", "landed"
  state,         \* of explore()
  spin_direction, scan_token, scan_pose_id,
  spin_age,      \* since spinning_start_time, up to SpinTime
  caution_age,   \* since caution_time, up to CautionTime + 1
  danger_lock, vel_scale,
  previous_vx,   \* of limit_velocity: the speed commanded
  dtd_dist,      \* the distance to the next drone read in this iteration
  wall,          \* less than 30 cm were free ahead in the iteration just made
  newScan,       \* the last scan id that was put in newScanQueue
  pose_cnt,
  range, msrm_age   \* measurements[i] of the other drone

flight == <<task, state, spin_direction, scan_token, scan_pose_id,
            danger_lock, vel_scale, previous_vx, dtd_dist, wall, newScan>>
ages == <<spin_age, caution_age, msrm_age>>
vars == <<flight, range, ages, pose_cnt>>

CCW == 1
CW == -1
VEL_CRUISE == 40
Far == 1000        \* no drone near: 100 m

----------------------------------------------------------------------------
(* uwb_collision_det.c: (x, y) is where the other drone is, seen from this *)
(* one, in one of eight directions; yaw is a multiple of 45 degrees.       *)

Atan(dx, dy) ==
  IF dy = 0 THEN 0
  ELSE IF dx = 0 \/ dx = dy THEN IF dx = 0 THEN 90 * dy ELSE 45
  ELSE -45

(* Mutant: the second quadrant is taken for the first.                     *)
theta_three(x, y, yaw) ==
  LET dx == -x  dy == -y
      offset == IF dx < 0 /\ dy >= 0 THEN 360
                ELSE IF dx >= 0 /\ dy > 0 THEN 180 ELSE 0
  IN  (Atan(dx, dy) + offset - yaw + 360) % 360

(* A difference of 0 in x is replaced by a small positive one.             *)
theta(x, y, yaw) ==
  LET dx == -x  dy == -y
      offset == IF dx < 0 /\ dy >= 0 THEN 360
                ELSE IF dx >= 0 THEN 180 ELSE 0
  IN  (Atan(dx, dy) + offset - yaw + 360) % 360

(* A drone within 25 cm ahead is in the front zone whatever its bearing;   *)
(* the bearing of the other drone is left open anyway.                     *)
check_all_sides(x, y, yaw) ==
  LET t == theta(x, y, yaw) IN
    IF t <= 45 \/ t >= 315 THEN "front"
    ELSE IF t <= 135 THEN "left"
    ELSE IF t <= 225 THEN "back" ELSE "right"

(* 0: on the left.                                                         *)
get_side_lr(x, y, yaw) == IF theta(x, y, yaw) <= 180 THEN 0 ELSE 1

----------------------------------------------------------------------------
(* Rangings *)

(* Mutant: the weights of old and new are swapped.                         *)
filter_swapped(x, y_prev) == (6 * y_prev + 4 * x) \div 10

filter_dist(x, y_prev) == (4 * y_prev + 6 * x) \div 10

Recent == msrm_age < StaleTime

get_min_dtd_dist == IF Recent /\ range < Far THEN range ELSE Far

(* With no drone left or right in the majority, either side is taken.      *)
choose_left_right(bearing) ==
  IF ~Recent THEN {CW, CCW}
  ELSE IF get_side_lr(bearing[1], bearing[2], bearing[3]) = 0 THEN {CW}
  ELSE {CCW}

(* A ranging, of the own turn or asked for by the other drone.  One of the *)
(* own turn that failed in all its attempts has the range 0, and is        *)
(* filtered like any other.                                                *)
Ranging ==
  \E r \in Ranges \cup {0} :
    /\ range' = filter_dist(r, range)
    /\ msrm_age' = 0
    /\ UNCHANGED <<flight, spin_age, caution_age, pose_cnt>>

----------------------------------------------------------------------------
(* explore() *)

get_last_pose_id == pose_cnt - 1

is_angle_valid(angle) == -16 < angle /\ angle < 16

(* The directions the drone may turn to.                                   *)
get_spinning_direction(angle, left, right, front_dir, bearing) ==
  IF ~is_angle_valid(angle) \/ (-6 < angle /\ angle < 6)
    THEN IF left < 120 /\ right > 120 THEN {CW}
         ELSE IF left > 120 /\ right < 120 THEN {CCW}
         ELSE IF left < 120 /\ right < 120 THEN {front_dir}
         ELSE choose_left_right(bearing)
  ELSE IF 0 < angle /\ angle <= 10 THEN {CCW} ELSE {CW}

(* Where the drone may turn, whatever it sees ahead and on its sides.      *)
Turns ==
  UNION {get_spinning_direction(angle, left, right, front_dir, bearing) :
           angle \in Angles, left \in SideDistances, right \in SideDistances,
           front_dir \in {CW, CCW}, bearing \in Bearings}

(* travelled: more than 1 m since the last scan.                           *)
is_scan_valid(travelled) ==
  /\ spin_age >= SpinTime
  /\ travelled
  /\ dtd_dist >= INTER_DRONE_DISTANCE
  /\ scan_token

Now ==
  [state |-> state, direction |-> spin_direction, token |-> scan_token,
   id |-> scan_pose_id, spin |-> spin_age, caution |-> caution_age,
   lock |-> danger_lock, scan |-> newScan]

(* The first switch, with the distance d ahead: what the flight task may   *)
(* do in each of its states.                                               *)
Cruising(d) ==
  IF d < DIS_STOP
    THEN {[Now EXCEPT !.state = "wait_to_stop", !.direction = t] : t \in Turns}
    ELSE {Now}

(* The speed is read, and where a wall is near.                            *)
WaitingToStop ==
  {Now} \cup {[Now EXCEPT !.state = "spinning", !.id = get_last_pose_id,
                          !.spin = 0, !.token = wall_near] :
                wall_near \in {near \in BOOLEAN :
                    \E left, right \in SideDistances :
                      near = (left <= 100 \/ right <= 100)}}

(* Nothing reads the time of a spin that has ended.                        *)
Resumed == [Now EXCEPT !.state = "cruise", !.spin = SpinTime]

(* Mutant: a scan of the same spin is proposed again and again.            *)
SpinningForEver(d) ==
  IF d > DIS_STOP + 30 THEN {Resumed}
  ELSE {IF is_scan_valid(travelled) THEN [Now EXCEPT !.scan = scan_pose_id]
                                    ELSE Now : travelled \in BOOLEAN}

Spinning(d) ==
  IF d > DIS_STOP + 30 THEN {Resumed}
  ELSE {IF is_scan_valid(travelled)
          THEN [Now EXCEPT !.scan = scan_pose_id, !.token = FALSE]
          ELSE Now : travelled \in BOOLEAN}

InCaution ==
  IF caution_age > CautionTime THEN {[Now EXCEPT !.state = "cruise"]}
  ELSE {Now}

Switched(d) ==
  CASE state = "cruise" -> Cruising(d)
    [] state = "wait_to_stop" -> WaitingToStop
    [] state = "spinning" -> Spinning(d)
    [] state = "caution" -> InCaution

(* Mutant: the lock is not taken.                                          *)
UnlockedNear(s, in_front) ==
  IF dtd_dist < INTER_DRONE_DISTANCE /\ s.state \notin {"caution", "spinning"}
    THEN IF s.lock /\ in_front
           THEN [s EXCEPT !.token = FALSE, !.caution = 0, !.state = "caution"]
           ELSE [s EXCEPT !.token = FALSE]
    ELSE s

(* Another drone is near; if it is in front, caution, once until it has    *)
(* gone.                                                                   *)
Near(s, in_front) ==
  IF dtd_dist < INTER_DRONE_DISTANCE /\ s.state \notin {"caution", "spinning"}
    THEN IF s.lock /\ in_front
           THEN [s EXCEPT !.token = FALSE, !.lock = FALSE, !.caution = 0,
                          !.state = "caution"]
           ELSE [s EXCEPT !.token = FALSE]
    ELSE s

(* The speed is halved near another drone, till it is 30 cm farther.       *)
Scale ==
  IF dtd_dist < INTER_DRONE_DISTANCE THEN 1
  ELSE IF dtd_dist > INTER_DRONE_DISTANCE + Hysteresis THEN 2 ELSE vel_scale

Larger(a, b) == IF a < b THEN b ELSE a
Smaller(a, b) == IF a < b THEN a ELSE b

(* Mutant: the speed is not bounded above.                                 *)
CruiseFast(d) ==
  Larger(20, (VEL_CRUISE * (d - DIS_STOP + 10) * Scale)
               \div (2 * (DIS_HIGH - DIS_STOP)))

Cruise(d) ==
  LET v == (VEL_CRUISE * (d - DIS_STOP + 10) * Scale)
             \div (2 * (DIS_HIGH - DIS_STOP))
  IN  Larger(20, Smaller(VEL_CRUISE, v))

(* Mutant: away from a wall behind, into the one ahead.                    *)
danger_check_back(d, back) ==
  IF back < 30 THEN 20 ELSE IF d < 30 THEN -20 ELSE 0

danger_check(d, back) ==
  (IF back < 30 THEN 20 ELSE 0) - (IF d < 30 THEN 20 ELSE 0)

cmd_vel_x(s, d, back) ==
  CASE s.state = "cruise" -> Cruise(d)
    [] s.state = "caution" -> danger_check(d, back)
    [] s.state \in {"wait_to_stop", "spinning"} -> 0

limit_velocity(v) ==
  Larger(previous_vx - MaxBrake, Smaller(previous_vx + MaxAccel, v))

----------------------------------------------------------------------------
(* flight_task *)

enable_commander ==
  /\ task = "wait" /\ task' = "read"
  /\ UNCHANGED <<state, spin_direction, scan_token, scan_pose_id, danger_lock,
                 vel_scale, previous_vx, dtd_dist, wall, newScan,
                 range, ages, pose_cnt>>

ReadDistance ==
  /\ task = "read" /\ task' = "fly"
  /\ dtd_dist' = get_min_dtd_dist
  /\ wall' = FALSE
  /\ UNCHANGED <<state, spin_direction, scan_token, scan_pose_id, danger_lock,
                 vel_scale, previous_vx, newScan, range, ages, pose_cnt>>

(* check_for_neigh_drones: some drone near is in the front zone.           *)
NeighborInFront(bearing) ==
  /\ Recent
  /\ range < INTER_DRONE_DISTANCE
  /\ check_all_sides(bearing[1], bearing[2], bearing[3]) = "front"

Explored(s, d, back) ==
  /\ state' = s.state /\ spin_direction' = s.direction
  /\ scan_token' = s.token /\ scan_pose_id' = s.id
  /\ spin_age' = s.spin /\ caution_age' = s.caution
  /\ newScan' = s.scan
  /\ danger_lock' = (s.lock \/ dtd_dist > INTER_DRONE_DISTANCE + Hysteresis)
  /\ vel_scale' = Scale
  /\ previous_vx' = limit_velocity(cmd_vel_x(s, d, back))

(* The land parameter may be set at any time.                              *)
update_flight_commands ==
  /\ task = "fly"
  /\ task' \in {"read", "landed"}
  /\ \E d \in FrontDistances :
       /\ wall' = (d < 30)
       /\ \E s \in Switched(d), back \in SideDistances,
            in_front \in {NeighborInFront(bearing) : bearing \in Bearings} :
              Explored(Near(s, in_front), d, back)
  /\ dtd_dist' = Far
  /\ UNCHANGED <<range, msrm_age, pose_cnt>>

----------------------------------------------------------------------------
(* Mission task and time *)

AcquirePose ==
  /\ pose_cnt < MaxPoses
  /\ pose_cnt' = pose_cnt + 1
  /\ UNCHANGED <<flight, range, ages>>

Older(age, limit) == IF age < limit THEN age + 1 ELSE age

(* A second passes: the flight task has run in the one before.             *)
Second ==
  /\ spin_age' = Older(spin_age, SpinTime)
  /\ caution_age' = Older(caution_age, CautionTime + 1)
  /\ msrm_age' = Older(msrm_age, StaleTime)
  /\ ages' # ages
  /\ UNCHANGED <<flight, range, pose_cnt>>

Init ==
  /\ task = "wait"
  /\ state = "cruise" /\ spin_direction = CCW /\ scan_token = TRUE
  /\ scan_pose_id = 0 /\ danger_lock = TRUE /\ vel_scale = 2
  /\ previous_vx = 0 /\ dtd_dist = Far /\ wall = FALSE /\ newScan = -1
  /\ spin_age = SpinTime /\ caution_age = CautionTime + 1
  /\ pose_cnt = 0 /\ range = 0 /\ msrm_age = StaleTime

Next ==
  \/ enable_commander \/ ReadDistance \/ update_flight_commands
  \/ Ranging \/ AcquirePose \/ Second

(* The flight task runs periodically, and time passes.                     *)
Spec ==
  /\ Init /\ [][Next]_vars
  /\ WF_vars(ReadDistance \/ update_flight_commands)
  /\ WF_vars(Second)

----------------------------------------------------------------------------
TypeOK ==
  /\ task \in {"wait", "read", "fly", "landed"}
  /\ state \in {"cruise", "spinning", "wait_to_stop", "caution"}
  /\ spin_direction \in {CW, CCW} /\ vel_scale \in {1, 2}
  /\ {scan_token, danger_lock, wall} \subseteq BOOLEAN
  /\ {scan_pose_id, newScan} \subseteq -1 .. MaxPoses - 1
  /\ spin_age \in 0 .. SpinTime /\ caution_age \in 0 .. CautionTime + 1
  /\ msrm_age \in 0 .. StaleTime
  /\ previous_vx \in -20 .. VEL_CRUISE

(* The zone of a drone is that of its bearing, all around and whatever the *)
(* yaw (check_all_sides, get_side_lr).                                     *)
Bearing(x, y) ==
  CASE <<x, y>> = <<1, 0>> -> 0      [] <<x, y>> = <<1, 1>> -> 45
    [] <<x, y>> = <<0, 1>> -> 90     [] <<x, y>> = <<-1, 1>> -> 135
    [] <<x, y>> = <<-1, 0>> -> 180   [] <<x, y>> = <<-1, -1>> -> 225
    [] <<x, y>> = <<0, -1>> -> 270   [] <<x, y>> = <<1, -1>> -> 315

ZoneIsBearing ==
  task = "wait" =>
    \A x, y \in -1 .. 1 : \A yaw \in {45 * k : k \in -4 .. 4} :
      <<x, y>> # <<0, 0>> =>
        theta(x, y, yaw) = (Bearing(x, y) - yaw + 360) % 360

(* A drone is not sent forward at a wall less than 30 cm ahead; only in    *)
(* the first iteration after a caution does explore() cruise without       *)
(* looking at the distance (explore, danger_check, limit_velocity).        *)
NotIntoWall ==
  [][task = "fly" /\ previous_vx' > 0 /\ wall' => state = "caution"]_vars

(* A drone farther than 2 m is not held for near after two rangings that   *)
(* succeed, whatever failed before (filter_dist).                          *)
FarIsSeen ==
  \A r1, r2 \in {r \in Ranges : r >= 2 * INTER_DRONE_DISTANCE} :
    filter_dist(r2, filter_dist(r1, range)) > INTER_DRONE_DISTANCE + Hysteresis

(* A drone that stays near does not hold this one in caution for ever      *)
(* (danger_lock, caution_time).                                            *)
CautionEnds ==
  <>[](get_min_dtd_dist <= INTER_DRONE_DISTANCE + Hysteresis) =>
    []<>(state # "caution" \/ task = "landed")

(* The part of TypeOK that the scans depend on: all but the speed.         *)
FlightInv ==
  /\ state \in {"cruise", "spinning", "wait_to_stop", "caution"}
  /\ spin_direction \in {CW, CCW}
  /\ scan_token \in BOOLEAN /\ danger_lock \in BOOLEAN
  /\ scan_pose_id \in -1 .. MaxPoses - 1 /\ newScan \in -1 .. MaxPoses - 1
  /\ spin_age \in 0 .. SpinTime /\ caution_age \in 0 .. CautionTime + 1
  /\ pose_cnt \in 0 .. MaxPoses

(* The flight task does for the scans what the mission task and the UWB    *)
(* task rely on: one scan for each stop at most, from the pose of the stop.*)
Scans == INSTANCE FlightScan WITH
  Id <- -1 .. MaxPoses - 1,
  spinning <- state = "spinning", start <- scan_pose_id,
  open <- state = "spinning" /\ scan_token, proposed <- newScan

ImplementsFlightScan == Scans!Spec
=============================================================================
