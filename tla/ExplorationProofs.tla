------------------------- MODULE ExplorationProofs -------------------------
(***************************************************************************)
(* Proofs about the flight task for any distances, times and number of     *)
(* poses: it implements FlightScan, whatever cautions, rangings and speeds *)
(* come between; it does not fly at a wall; it knows on which side and how *)
(* near the other drones are.                                              *)
(***************************************************************************)
EXTENDS Exploration, TLAPS

LEMMA Bounds ==
  /\ MaxPoses \in Nat /\ MaxPoses > 0
  /\ SpinTime \in Nat /\ CautionTime \in Nat
BY ExplorationAssumption DEF ExplorationAssumption

(* What explore() works on.                                                *)
Control ==
  [state : {"cruise", "spinning", "wait_to_stop", "caution"},
   direction : {CW, CCW}, token : BOOLEAN, id : -1 .. MaxPoses - 1,
   spin : 0 .. SpinTime, caution : 0 .. CautionTime + 1,
   lock : BOOLEAN, scan : -1 .. MaxPoses - 1]

(* What an iteration of explore() may do to the scans, leaving s behind.   *)
ScanStep(s) ==
  \/ /\ state = "spinning" /\ s.state = "spinning"
     /\ s.id = scan_pose_id
     /\ \/ s.scan = newScan /\ s.token = scan_token
        \/ scan_token /\ ~s.token /\ s.scan = scan_pose_id
  \/ /\ state = "spinning" /\ s.state # "spinning"
     /\ s.id = scan_pose_id /\ s.scan = newScan
  \/ /\ state = "wait_to_stop" /\ s.state = "spinning"
     /\ s.id = get_last_pose_id /\ s.scan = newScan
  \/ /\ state # "spinning" /\ s.state # "spinning"
     /\ s.id = scan_pose_id /\ s.scan = newScan

LEMMA NowType == FlightInv => Now \in Control
BY DEF FlightInv, Now, Control

LEMMA TurnsType == Turns \subseteq {CW, CCW}
<1>1. \A angle, left, right, bearing : \A front_dir \in {CW, CCW} :
        get_spinning_direction(angle, left, right, front_dir, bearing)
          \subseteq {CW, CCW}
  BY DEF get_spinning_direction, choose_left_right
<1>2. QED BY <1>1 DEF Turns

(* The first switch of explore().                                          *)
LEMMA SwitchedStep ==
  ASSUME FlightInv, NEW d, NEW s \in Switched(d)
  PROVE  s \in Control /\ ScanStep(s)
<1>1. Now \in Control
  BY NowType
<1>2. CASE state = "cruise"
  <2>1. s = Now \/ \E t \in Turns : s = [Now EXCEPT !.state = "wait_to_stop",
                                                    !.direction = t]
    BY <1>2 DEF Switched, Cruising
  <2>2. CASE s = Now
    BY <1>1, <1>2, <2>2 DEF Now, ScanStep
  <2>3. CASE s # Now
    <3>1. PICK t \in {CW, CCW} :
            s = [Now EXCEPT !.state = "wait_to_stop", !.direction = t]
      BY <2>1, <2>3, TurnsType
    <3>2. s \in Control
      BY <1>1, <3>1 DEF Control
    <3>3. QED BY <1>2, <3>1, <3>2 DEF Now, ScanStep
  <2>4. QED BY <2>2, <2>3
<1>3. CASE state = "wait_to_stop"
  <2>1. CASE s = Now
    BY <1>1, <1>3, <2>1 DEF Now, ScanStep
  <2>2. CASE s # Now
    <3>1. PICK t \in BOOLEAN :
            s = [Now EXCEPT !.state = "spinning", !.id = get_last_pose_id,
                            !.spin = 0, !.token = t]
      BY <1>3, <2>2 DEF Switched, WaitingToStop
    <3>2. get_last_pose_id \in -1 .. MaxPoses - 1 /\ 0 \in 0 .. SpinTime
      BY Bounds DEF FlightInv, get_last_pose_id
    <3>3. s \in Control
      BY <1>1, <3>1, <3>2 DEF Control
    <3>4. QED BY <1>3, <3>1, <3>3 DEF Now, ScanStep
  <2>3. QED BY <2>1, <2>2
<1>4. CASE state = "spinning"
  <2>1. \/ s = Resumed \/ s = Now
        \/ scan_token /\ s = [Now EXCEPT !.scan = scan_pose_id, !.token = FALSE]
    BY <1>4 DEF Switched, Spinning, is_scan_valid
  <2>2. CASE s = Resumed
    <3>1. SpinTime \in 0 .. SpinTime
      BY Bounds
    <3>2. s \in Control
      BY <1>1, <2>2, <3>1 DEF Resumed, Control
    <3>3. QED BY <1>4, <2>2, <3>2 DEF Now, Resumed, ScanStep
  <2>3. CASE s = Now
    BY <1>1, <1>4, <2>3 DEF Now, ScanStep
  <2>4. CASE scan_token /\ s = [Now EXCEPT !.scan = scan_pose_id,
                                           !.token = FALSE]
    <3>1. s \in Control
      BY <1>1, <2>4 DEF Control, FlightInv
    <3>2. QED BY <1>4, <2>4, <3>1 DEF Now, ScanStep
  <2>5. QED BY <2>1, <2>2, <2>3, <2>4
<1>5. CASE state = "caution"
  <2>1. s = Now \/ s = [Now EXCEPT !.state = "cruise"]
    BY <1>5 DEF Switched, InCaution
  <2>2. s \in Control
    BY <1>1, <2>1 DEF Control
  <2>3. QED BY <1>5, <2>1, <2>2 DEF Now, ScanStep
<1>6. QED BY <1>2, <1>3, <1>4, <1>5 DEF FlightInv

(* Another drone near sends a drone that does not spin into caution.       *)
LEMMA NearStep ==
  ASSUME NEW s \in Control, ScanStep(s), NEW in_front
  PROVE  Near(s, in_front) \in Control /\ ScanStep(Near(s, in_front))
<1> DEFINE n == Near(s, in_front)
<1>1. CASE s.state \in {"caution", "spinning"}
  BY <1>1 DEF Near
<1>2. CASE s.state \notin {"caution", "spinning"}
  <2>1. \/ n = s
        \/ n = [s EXCEPT !.token = FALSE]
        \/ n = [s EXCEPT !.token = FALSE, !.lock = FALSE, !.caution = 0,
                         !.state = "caution"]
    BY DEF Near
  <2> HIDE DEF n
  <2>2. n \in Control /\ n.id = s.id /\ n.scan = s.scan
        /\ n.state # "spinning"
    <3>1. 0 \in 0 .. CautionTime + 1
      BY Bounds
    <3>2. CASE n = s
      BY <1>2, <3>2
    <3>3. CASE n = [s EXCEPT !.token = FALSE]
      BY <1>2, <3>3 DEF Control
    <3>4. CASE n = [s EXCEPT !.token = FALSE, !.lock = FALSE, !.caution = 0,
                             !.state = "caution"]
      BY <3>1, <3>4 DEF Control
    <3>5. QED BY <2>1, <3>2, <3>3, <3>4
  <2>3. QED BY <1>2, <2>2 DEF ScanStep, n
<1>3. QED BY <1>1, <1>2

LEMMA InitFlight == Init => FlightInv
<1> SUFFICES ASSUME Init PROVE FlightInv
  OBVIOUS
<1>1. scan_token \in BOOLEAN /\ danger_lock \in BOOLEAN
  BY DEF Init
<1>2. QED BY <1>1, Bounds DEF Init, FlightInv

(* One iteration of the flight task, for the scans.                        *)
LEMMA FlightStep ==
  ASSUME FlightInv, update_flight_commands
  PROVE  /\ FlightInv'
         /\ \/ Scans!Propose \/ Scans!GoOn \/ UNCHANGED Scans!vars
            \/ \E last \in -1 .. MaxPoses - 1 : Scans!Stop(last)
<1>1. PICK d \in FrontDistances, s \in Control, back \in SideDistances :
        Explored(s, d, back) /\ ScanStep(s)
  BY SwitchedStep, NearStep DEF update_flight_commands
<1>2. /\ state' = s.state /\ scan_token' = s.token
      /\ scan_pose_id' = s.id /\ newScan' = s.scan /\ pose_cnt' = pose_cnt
      /\ spin_direction' = s.direction /\ spin_age' = s.spin
      /\ caution_age' = s.caution
  BY <1>1 DEF Explored, update_flight_commands
<1>3. FlightInv'
  <2>1. danger_lock' \in BOOLEAN
    BY <1>1 DEF Explored
  <2>2. QED BY <1>2, <2>1 DEF FlightInv, Control
<1>4. \/ Scans!Propose \/ Scans!GoOn \/ UNCHANGED Scans!vars
      \/ \E last \in -1 .. MaxPoses - 1 : Scans!Stop(last)
  <2>1. CASE state = "spinning" /\ s.state = "spinning"
    BY <1>1, <1>2, <2>1 DEF ScanStep, Scans!Propose, Scans!vars
  <2>2. CASE state = "spinning" /\ s.state # "spinning"
    BY <1>1, <1>2, <2>2 DEF ScanStep, Scans!GoOn
  <2>3. CASE state # "spinning" /\ s.state = "spinning"
    <3>1. get_last_pose_id \in -1 .. MaxPoses - 1
      BY Bounds DEF FlightInv, get_last_pose_id
    <3>2. Scans!Stop(get_last_pose_id)
      BY <1>1, <1>2, <2>3 DEF ScanStep, Scans!Stop, Control
    <3>3. QED BY <3>1, <3>2
  <2>4. CASE state # "spinning" /\ s.state # "spinning"
    BY <1>1, <1>2, <2>4 DEF ScanStep, Scans!vars
  <2>5. QED BY <2>1, <2>2, <2>3, <2>4
<1>5. QED BY <1>3, <1>4

LEMMA NextSimulates ==
  ASSUME FlightInv, [Next]_vars
  PROVE  FlightInv' /\ [Scans!Next]_(Scans!vars)
<1> USE DEF flight, ages, Scans!vars
<1>1. CASE update_flight_commands
  BY <1>1, FlightStep DEF Scans!Next
<1>2. CASE enable_commander \/ ReadDistance
  BY <1>2 DEF enable_commander, ReadDistance, FlightInv
<1>3. CASE Ranging
  BY <1>3 DEF Ranging, FlightInv
<1>4. CASE AcquirePose
  BY <1>4, Bounds DEF AcquirePose, FlightInv
<1>5. CASE Second
  BY <1>5, Bounds DEF Second, Older, FlightInv
<1>6. CASE UNCHANGED vars
  BY <1>6 DEF vars, FlightInv
<1>7. QED BY <1>1, <1>2, <1>3, <1>4, <1>5, <1>6 DEF Next

LEMMA InitSimulates == Init => Scans!Init
BY Bounds DEF Init, Scans!Init

(* Each stop of the flight task (explore) proposes one scan at most, which *)
(* begins at the pose of the stop, however many poses and whatever         *)
(* distances there are.                                                    *)
THEOREM FlightImplementsScans == Spec => ImplementsFlightScan
<1>1. FlightInv /\ [Next]_vars => FlightInv'
  BY NextSimulates
<1>2. FlightInv /\ [Next]_vars => [Scans!Next]_(Scans!vars)
  BY NextSimulates
<1>3. QED
  BY <1>1, <1>2, InitFlight, InitSimulates, PTL
  DEF Spec, ImplementsFlightScan, Scans!Spec

----------------------------------------------------------------------------
(* The speed, the rangings and the bearing. *)

LEMMA Distances ==
  /\ DIS_STOP \in Nat /\ DIS_HIGH \in Nat /\ DIS_STOP < DIS_HIGH
  /\ INTER_DRONE_DISTANCE \in Nat /\ Hysteresis \in Nat
  /\ MaxAccel \in Nat /\ MaxBrake \in Nat /\ StaleTime \in Nat
  /\ FrontDistances \subseteq Nat /\ SideDistances \subseteq Nat
  /\ Ranges \subseteq Nat
BY ExplorationAssumption DEF ExplorationAssumption

(* The rest of what TypeOK says; and the wall is looked for in the         *)
(* iteration in which the speed is commanded.                              *)
SpeedInv ==
  /\ task \in {"wait", "read", "fly", "landed"}
  /\ wall \in BOOLEAN /\ vel_scale \in {1, 2}
  /\ previous_vx \in -20 .. VEL_CRUISE
  /\ msrm_age \in 0 .. StaleTime /\ range \in Nat
  /\ task = "fly" => ~wall

(* The speed that explore() asks for.                                      *)
LEMMA CruiseSpeed ==
  ASSUME NEW d \in Nat, vel_scale \in {1, 2}
  PROVE  Scale \in {1, 2} /\ Cruise(d) \in 20 .. VEL_CRUISE
<1>1. Scale \in {1, 2}
  BY DEF Scale
<1> DEFINE n == VEL_CRUISE * (d - DIS_STOP + 10) * Scale
           q == n \div (2 * (DIS_HIGH - DIS_STOP))
<1>2. n \in Int
  <2>1. d - DIS_STOP + 10 \in Int
    BY Distances
  <2>2. VEL_CRUISE * (d - DIS_STOP + 10) \in Int
    BY <2>1 DEF VEL_CRUISE
  <2>3. QED BY <1>1, <2>2
<1>3. q \in Int
  <2>1. 2 * (DIS_HIGH - DIS_STOP) \in Nat \ {0}
    BY Distances
  <2>2. QED BY <1>2, <2>1
<1>4. Cruise(d) = Larger(20, Smaller(VEL_CRUISE, q))
  BY DEF Cruise
<1> HIDE DEF q
<1>5. QED BY <1>1, <1>3, <1>4 DEF Larger, Smaller, VEL_CRUISE

LEMMA AskedSpeed ==
  ASSUME NEW s \in Control, NEW d \in Nat, NEW back \in Nat,
         vel_scale \in {1, 2}
  PROVE  /\ cmd_vel_x(s, d, back) \in -20 .. VEL_CRUISE
         /\ d < 30 /\ s.state # "cruise" => cmd_vel_x(s, d, back) <= 0
<1>1. CASE s.state = "cruise"
  BY <1>1, CruiseSpeed DEF cmd_vel_x, VEL_CRUISE
<1>2. CASE s.state = "caution"
  BY <1>2 DEF cmd_vel_x, danger_check, VEL_CRUISE
<1>3. CASE s.state \in {"wait_to_stop", "spinning"}
  BY <1>3 DEF cmd_vel_x, VEL_CRUISE
<1>4. QED BY <1>1, <1>2, <1>3 DEF Control

(* The speed that is commanded follows it within MaxAccel and MaxBrake.    *)
LEMMA LimitedSpeed ==
  ASSUME NEW v \in -20 .. VEL_CRUISE, previous_vx \in -20 .. VEL_CRUISE
  PROVE  /\ limit_velocity(v) \in -20 .. VEL_CRUISE
         /\ MaxBrake >= VEL_CRUISE /\ v <= 0 => limit_velocity(v) <= 0
BY Distances DEF limit_velocity, Larger, Smaller, VEL_CRUISE

(* No wall that is near is overlooked but for the iteration that ends a    *)
(* caution.                                                                *)
LEMMA WallSeen ==
  ASSUME FlightInv, state # "caution", DIS_STOP >= 30,
         NEW d \in Nat, d < 30, NEW s \in Switched(d), NEW in_front
  PROVE  Near(s, in_front).state # "cruise"
<1>1. s \in Control
  BY SwitchedStep
<1>2. s.state # "cruise"
  <2>1. CASE state = "cruise"
    <3>1. d < DIS_STOP
      BY Distances
    <3>2. PICK t \in Turns : s = [Now EXCEPT !.state = "wait_to_stop",
                                             !.direction = t]
      BY <2>1, <3>1 DEF Switched, Cruising
    <3>3. QED BY <3>2 DEF Now
  <2>2. CASE state = "wait_to_stop"
    <3>1. s = Now \/ \E t \in BOOLEAN :
            s = [Now EXCEPT !.state = "spinning", !.id = get_last_pose_id,
                            !.spin = 0, !.token = t]
      BY <2>2 DEF Switched, WaitingToStop
    <3>2. CASE s = Now
      BY <2>2, <3>2 DEF Now
    <3>3. CASE s # Now
      <4>1. PICK t \in BOOLEAN :
              s = [Now EXCEPT !.state = "spinning", !.id = get_last_pose_id,
                              !.spin = 0, !.token = t]
        BY <3>1, <3>3
      <4>2. QED BY <4>1 DEF Now
    <3>4. QED BY <3>2, <3>3
  <2>3. CASE state = "spinning"
    <3>1. ~(d > DIS_STOP + 30)
      BY Distances
    <3>2. \/ s = Now
          \/ s = [Now EXCEPT !.scan = scan_pose_id, !.token = FALSE]
      BY <2>3, <3>1 DEF Switched, Spinning
    <3>3. CASE s = Now
      BY <2>3, <3>3 DEF Now
    <3>4. CASE s = [Now EXCEPT !.scan = scan_pose_id, !.token = FALSE]
      BY <2>3, <3>4 DEF Now
    <3>5. QED BY <3>2, <3>3, <3>4
  <2>4. QED BY <2>1, <2>2, <2>3 DEF FlightInv
<1>3. QED BY <1>1, <1>2 DEF Near, Control

LEMMA FilteredType ==
  ASSUME NEW x \in Nat, NEW y \in Nat PROVE filter_dist(x, y) \in Nat
BY DEF filter_dist

LEMMA SpeedInvInit == Init => SpeedInv
<1> SUFFICES ASSUME Init PROVE SpeedInv
  OBVIOUS
<1>1. wall = FALSE
  BY DEF Init
<1>2. previous_vx \in -20 .. VEL_CRUISE /\ StaleTime \in 0 .. StaleTime
  BY Distances DEF Init, VEL_CRUISE
<1>3. wall \in BOOLEAN /\ ~wall
  BY <1>1
<1>4. QED BY <1>2, <1>3 DEF Init, SpeedInv

(* One iteration, for the speed.                                           *)
LEMMA SpeedStep ==
  ASSUME FlightInv, SpeedInv, update_flight_commands
  PROVE  /\ SpeedInv'
         /\ DIS_STOP >= 30 /\ MaxBrake >= VEL_CRUISE /\ wall' /\ state # "caution"
              => previous_vx' <= 0
<1>d. PICK d \in FrontDistances :
        /\ wall' = (d < 30)
        /\ \E s \in Switched(d), back \in SideDistances,
             in_front \in {NeighborInFront(bearing) : bearing \in Bearings} :
               Explored(Near(s, in_front), d, back)
  BY DEF update_flight_commands
<1>1. PICK z \in Switched(d), back \in SideDistances,
           in_front \in {NeighborInFront(bearing) : bearing \in Bearings} :
        Explored(Near(z, in_front), d, back)
  BY <1>d
<1> DEFINE s == Near(z, in_front)
<1>2. s \in Control
  BY SwitchedStep, NearStep
<1>3. d \in Nat /\ back \in Nat
  BY Distances
<1>4. /\ previous_vx' = limit_velocity(cmd_vel_x(s, d, back))
      /\ vel_scale' = Scale
  BY <1>1 DEF Explored
<1>5. wall' /\ state # "caution" /\ DIS_STOP >= 30 => s.state # "cruise"
  BY <1>d, <1>3, WallSeen
<1>6. cmd_vel_x(s, d, back) \in -20 .. VEL_CRUISE
  BY <1>2, <1>3, AskedSpeed DEF SpeedInv
<1>7. wall' /\ s.state # "cruise" => cmd_vel_x(s, d, back) <= 0
  BY <1>d, <1>2, <1>3, AskedSpeed DEF SpeedInv
<1>8. previous_vx' \in -20 .. VEL_CRUISE
  BY <1>4, <1>6, LimitedSpeed DEF SpeedInv
<1>9. SpeedInv'
  <2>1. vel_scale' \in {1, 2}
    BY <1>4, CruiseSpeed, <1>3 DEF SpeedInv
  <2>2. wall' \in BOOLEAN
    BY <1>d
  <2>3. task' \in {"read", "landed"} /\ UNCHANGED <<msrm_age, range>>
    BY DEF update_flight_commands
  <2>4. QED BY <1>8, <2>1, <2>2, <2>3 DEF SpeedInv
<1> HIDE DEF s
<1>10. QED BY <1>4, <1>5, <1>6, <1>7, <1>9, LimitedSpeed DEF SpeedInv

LEMMA SpeedNext ==
  ASSUME FlightInv, SpeedInv, [Next]_vars PROVE SpeedInv'
<1> USE DEF flight, ages, SpeedInv
<1>1. CASE update_flight_commands
  BY <1>1, SpeedStep
<1>2. CASE enable_commander
  BY <1>2 DEF enable_commander
<1>3. CASE ReadDistance
  BY <1>3 DEF ReadDistance
<1>4. CASE Ranging
  <2>1. PICK r \in Ranges \cup {0} : range' = filter_dist(r, range)
    BY <1>4 DEF Ranging
  <2>2. range' \in Nat
    BY <2>1, FilteredType, Distances
  <2>3. QED BY <1>4, <2>2, Distances DEF Ranging
<1>5. CASE AcquirePose
  BY <1>5 DEF AcquirePose
<1>6. CASE Second
  BY <1>6, Distances DEF Second, Older
<1>7. CASE UNCHANGED vars
  BY <1>7 DEF vars
<1>8. QED BY <1>1, <1>2, <1>3, <1>4, <1>5, <1>6, <1>7 DEF Next

LEMMA FlightAndSpeed == Spec => [](FlightInv /\ SpeedInv)
<1>1. FlightInv /\ SpeedInv /\ [Next]_vars => (FlightInv /\ SpeedInv)'
  BY NextSimulates, SpeedNext
<1>2. QED BY <1>1, InitFlight, SpeedInvInit, PTL DEF Spec

(* The states, ages and speeds stay in their bounds; the drone is neither  *)
(* commanded faster than it may cruise nor than it may back off            *)
(* (explore, danger_check, limit_velocity).                                *)
THEOREM TypeCorrect == Spec => []TypeOK
<1>1. FlightInv /\ SpeedInv => TypeOK
  BY DEF FlightInv, SpeedInv, TypeOK
<1>2. QED BY <1>1, FlightAndSpeed, PTL

(* A drone brakes from its cruising speed in an iteration and stops no     *)
(* nearer to a wall than 30 cm.                                            *)
Braking == DIS_STOP >= 30 /\ MaxBrake >= VEL_CRUISE

(* No drone is sent forward at a wall less than 30 cm ahead, but for the   *)
(* iteration that ends a caution (explore, danger_check, limit_velocity).  *)
THEOREM NotIntoWallTheorem == ASSUME Braking PROVE Spec => NotIntoWall
<1> DEFINE Step == task = "fly" /\ previous_vx' > 0 /\ wall' => state = "caution"
<1>1. FlightInv /\ SpeedInv /\ [Next]_vars => [Step]_vars
  <2> SUFFICES ASSUME FlightInv, SpeedInv, Next, task = "fly",
                      previous_vx' > 0, wall'
               PROVE  state = "caution"
    OBVIOUS
  <2>1. CASE update_flight_commands
    <3>1. SpeedInv'
      BY <2>1, SpeedStep
    <3>2. ~(previous_vx' <= 0)
      BY <3>1 DEF SpeedInv, VEL_CRUISE
    <3>3. QED BY <2>1, <3>2, SpeedStep DEF Braking
  <2>2. CASE enable_commander \/ ReadDistance
    BY <2>2 DEF enable_commander, ReadDistance
  <2>3. CASE Ranging \/ AcquirePose \/ Second
    BY <2>3 DEF Ranging, AcquirePose, Second, flight, SpeedInv
  <2>4. QED BY <2>1, <2>2, <2>3 DEF Next
<1>2. QED BY <1>1, FlightAndSpeed, PTL DEF Spec, NotIntoWall

(* The unit of the distances between drones is not too coarse for the      *)
(* integers of filter_dist, and the hysteresis is 0.3 of the distance.     *)
FineUnit == INTER_DRONE_DISTANCE >= 4 /\ 10 * Hysteresis <= 3 * INTER_DRONE_DISTANCE

(* Two rangings that succeed are enough for a drone farther than 2 m not   *)
(* to be held for near, whatever was measured before (filter_dist).        *)
THEOREM FarIsSeenTheorem == ASSUME FineUnit PROVE Spec => []FarIsSeen
<1>1. SpeedInv => FarIsSeen
  <2> SUFFICES ASSUME SpeedInv,
                      NEW r1 \in {r \in Ranges : r >= 2 * INTER_DRONE_DISTANCE},
                      NEW r2 \in {r \in Ranges : r >= 2 * INTER_DRONE_DISTANCE}
               PROVE  filter_dist(r2, filter_dist(r1, range))
                        > INTER_DRONE_DISTANCE + Hysteresis
    BY DEF FarIsSeen
  <2> DEFINE y == filter_dist(r1, range)
             z == filter_dist(r2, y)
  <2>1. r1 \in Nat /\ r2 \in Nat /\ range \in Nat
    BY Distances DEF SpeedInv
  <2>2. y \in Nat /\ 10 * y + 9 >= 6 * r1
    BY <2>1 DEF filter_dist
  <2>3. z \in Nat /\ 10 * z + 9 >= 4 * y + 6 * r2
    <3> HIDE DEF y
    <3>1. QED BY <2>1, <2>2 DEF filter_dist
  <2> HIDE DEF y, z
  <2>4. z > INTER_DRONE_DISTANCE + Hysteresis
    BY <2>1, <2>2, <2>3, Distances DEF FineUnit
  <2>5. QED BY <2>4 DEF y, z
<1>2. QED BY <1>1, FlightAndSpeed, PTL

(* The bearing of another drone in the frame of this one, for every yaw.   *)
LEMMA EightBearings ==
  /\ Bearing(1, 0) = 0     /\ Bearing(1, 1) = 45
  /\ Bearing(0, 1) = 90    /\ Bearing(-1, 1) = 135
  /\ Bearing(-1, 0) = 180  /\ Bearing(-1, -1) = 225
  /\ Bearing(0, -1) = 270  /\ Bearing(1, -1) = 315
BY DEF Bearing

(* theta is the bearing in the frame of the drone, in each direction.      *)
ThetaRight(x, y, yaw) == theta(x, y, yaw) = (Bearing(x, y) - yaw + 360) % 360

LEMMA EightThetas ==
  ASSUME NEW yaw \in Int
  PROVE  /\ ThetaRight(1, 0, yaw) /\ ThetaRight(1, 1, yaw)
         /\ ThetaRight(0, 1, yaw) /\ ThetaRight(-1, 1, yaw)
         /\ ThetaRight(-1, 0, yaw) /\ ThetaRight(-1, -1, yaw)
         /\ ThetaRight(0, -1, yaw) /\ ThetaRight(1, -1, yaw)
<1>1. /\ Atan(-1, 0) = 0 /\ Atan(-1, -1) = 45 /\ Atan(0, -1) = -90
      /\ Atan(1, -1) = -45 /\ Atan(1, 0) = 0 /\ Atan(1, 1) = 45
      /\ Atan(0, 1) = 90 /\ Atan(-1, 1) = -45
  BY DEF Atan
<1>2. 0 - 1 = -1 /\ 0 - (-1) = 1
  OBVIOUS
<1>3. (360 - yaw + 360) % 360 = (0 - yaw + 360) % 360
  OBVIOUS
<1>4. ThetaRight(1, 0, yaw)
  <2>1. theta(1, 0, yaw) = (0 - yaw + 360) % 360
    BY <1>1, <1>2, <1>3 DEF theta
  <2>2. Bearing(1, 0) = 0
    BY EightBearings
  <2>3. QED BY <2>1, <2>2 DEF ThetaRight
<1>5. ThetaRight(1, 1, yaw)
  <2>1. theta(1, 1, yaw) = (45 - yaw + 360) % 360
    BY <1>1, <1>2, <1>3 DEF theta
  <2>2. Bearing(1, 1) = 45
    BY EightBearings
  <2>3. QED BY <2>1, <2>2 DEF ThetaRight
<1>6. ThetaRight(0, 1, yaw)
  <2>1. theta(0, 1, yaw) = (90 - yaw + 360) % 360
    BY <1>1, <1>2, <1>3 DEF theta
  <2>2. Bearing(0, 1) = 90
    BY EightBearings
  <2>3. QED BY <2>1, <2>2 DEF ThetaRight
<1>7. ThetaRight(-1, 1, yaw)
  <2>1. theta(-1, 1, yaw) = (135 - yaw + 360) % 360
    BY <1>1, <1>2, <1>3 DEF theta
  <2>2. Bearing(-1, 1) = 135
    BY EightBearings
  <2>3. QED BY <2>1, <2>2 DEF ThetaRight
<1>8. ThetaRight(-1, 0, yaw)
  <2>1. theta(-1, 0, yaw) = (180 - yaw + 360) % 360
    BY <1>1, <1>2, <1>3 DEF theta
  <2>2. Bearing(-1, 0) = 180
    BY EightBearings
  <2>3. QED BY <2>1, <2>2 DEF ThetaRight
<1>9. ThetaRight(-1, -1, yaw)
  <2>1. theta(-1, -1, yaw) = (225 - yaw + 360) % 360
    BY <1>1, <1>2, <1>3 DEF theta
  <2>2. Bearing(-1, -1) = 225
    BY EightBearings
  <2>3. QED BY <2>1, <2>2 DEF ThetaRight
<1>10. ThetaRight(0, -1, yaw)
  <2>1. theta(0, -1, yaw) = (270 - yaw + 360) % 360
    BY <1>1, <1>2, <1>3 DEF theta
  <2>2. Bearing(0, -1) = 270
    BY EightBearings
  <2>3. QED BY <2>1, <2>2 DEF ThetaRight
<1>11. ThetaRight(1, -1, yaw)
  <2>1. theta(1, -1, yaw) = (315 - yaw + 360) % 360
    BY <1>1, <1>2, <1>3 DEF theta
  <2>2. Bearing(1, -1) = 315
    BY EightBearings
  <2>3. QED BY <2>1, <2>2 DEF ThetaRight
<1>12. QED
  BY <1>4, <1>5, <1>6, <1>7, <1>8, <1>9, <1>10, <1>11

(* The zone of a drone is that of its bearing (check_all_sides,            *)
(* get_side_lr).                                                           *)
THEOREM ZoneTheorem == Spec => []ZoneIsBearing
<1>1. ZoneIsBearing
  <2> SUFFICES ASSUME NEW x \in -1 .. 1, NEW y \in -1 .. 1,
                      NEW yaw \in {45 * k : k \in -4 .. 4}, <<x, y>> # <<0, 0>>
               PROVE  ThetaRight(x, y, yaw)
    BY DEF ZoneIsBearing, ThetaRight
  <2>1. yaw \in Int
    OBVIOUS
  <2>2. x \in {-1, 0, 1} /\ y \in {-1, 0, 1} /\ ~(x = 0 /\ y = 0)
    OBVIOUS
  <2>3. CASE x = 1
    BY <2>1, <2>2, <2>3, EightThetas
  <2>4. CASE x = 0
    BY <2>1, <2>2, <2>4, EightThetas
  <2>5. CASE x = -1
    BY <2>1, <2>2, <2>5, EightThetas
  <2>6. QED BY <2>2, <2>3, <2>4, <2>5
<1>2. QED BY <1>1, PTL
=============================================================================
