------------------------------- MODULE TofDaq -------------------------------
(***************************************************************************)
(* The ToF acquisition: tof_task (tof_daq.c) reads the four sensors round  *)
(* by round and gives a binary semaphore after each, mission_task          *)
(* (app_main.c) takes it and makes a pose of the four matrices.  There is  *)
(* no lock on the matrices.                                                *)
(*                                                                         *)
(* Left out: tofSemaphore1, which goes the way of tofSemaphore0 and nobody *)
(* waits for, and the sensors' driver.                                     *)
(***************************************************************************)
EXTENDS Naturals

CONSTANTS
  NR_OF_SENSORS,
  RETRIES        \* failed reads after which the semaphore is withdrawn

ASSUME TofAssumption == {NR_OF_SENSORS, RETRIES} \subseteq Nat \ {0}

VARIABLES
  started,       \* the sensors that were configured: the first so many
  tof,           \* where tof_task is: "init", "read", or at the "delay"
  sensor,        \* the sensor it reads
  err_cnt,       \* failed reads of it, as far as they matter
  round,         \* history: parity of the round
  tof_data_buf,  \* for each sensor, the round its matrix is of
  semaphore,     \* tofSemaphore0
  mission,       \* where mission_task is
  odd,           \* loop_cnt % 2
  near,          \* another drone is so near that no pose is acquired
  first,         \* history: no frame has been taken
  pose           \* history: the rounds that made the last pose, if it is
                 \* not of the first frame

tofVars == <<started, tof, sensor, err_cnt, round, tof_data_buf>>
missionVars == <<mission, odd, first, pose>>
vars == <<tofVars, missionVars, semaphore, near>>

Sensor == 0 .. NR_OF_SENSORS - 1
Never == 2
Round == {0, 1}

Init ==
  /\ started = 0 /\ tof = "init" /\ sensor = 0 /\ err_cnt = 0 /\ round = 0
  /\ tof_data_buf = [s \in Sensor |-> Never]
  /\ semaphore = FALSE
  /\ mission = "wait" /\ odd = FALSE
  /\ near \in BOOLEAN /\ first = TRUE /\ pose = {}

----------------------------------------------------------------------------
(* tof_task *)

(* The sensors are configured in their order, up to the first that fails;  *)
(* the task does not look at the result.                                   *)
tof_matrix_init ==
  /\ tof = "init"
  /\ \/ started < NR_OF_SENSORS /\ started' = started + 1 /\ tof' = tof
     \/ started' = started /\ tof' = "read"
  /\ UNCHANGED <<sensor, err_cnt, round, tof_data_buf, semaphore,
                 missionVars, near>>

(* What the mission task does from the end of its wait to the copy of the  *)
(* matrices takes far less than a read over I2C: no read ends meanwhile.   *)
MissionRuns == mission = "taken" \/ (mission = "take" /\ semaphore)

(* The next read after RETRIES failed ones withdraws the semaphore,        *)
(* whatever it brings itself.                                              *)
Withdrawn == semaphore' = (semaphore /\ err_cnt # RETRIES)

ReadFails ==
  /\ tof = "read" /\ ~MissionRuns
  /\ Withdrawn
  /\ err_cnt' = IF err_cnt <= RETRIES THEN err_cnt + 1 ELSE err_cnt
  /\ UNCHANGED <<started, tof, sensor, round, tof_data_buf, missionVars, near>>

ReadSucceeds ==
  /\ tof = "read" /\ sensor < started /\ ~MissionRuns
  /\ tof_data_buf' = [tof_data_buf EXCEPT ![sensor] = round]
  /\ err_cnt' = 0
  /\ IF sensor < NR_OF_SENSORS - 1
       THEN sensor' = sensor + 1 /\ UNCHANGED tof /\ Withdrawn
       ELSE sensor' = 0 /\ tof' = "delay" /\ semaphore' = TRUE
  /\ UNCHANGED <<started, round, missionVars, near>>

(* vTaskDelayUntil: after a late round the next one begins at once.        *)
NextRound ==
  /\ tof = "delay"
  /\ tof' = "read" /\ round' = 1 - round
  /\ UNCHANGED <<started, sensor, err_cnt, tof_data_buf, semaphore,
                 missionVars, near>>

TofTask == tof_matrix_init \/ ReadFails \/ ReadSucceeds \/ NextRound

----------------------------------------------------------------------------
(* mission_task *)

(* tof_is_init() does not tell whether the sensors could be started.       *)
MissionStarts ==
  /\ mission = "wait" /\ tof # "init"
  /\ mission' = "take"
  /\ UNCHANGED <<tofVars, semaphore, odd, near, first, pose>>

TakeSemaphore ==
  /\ mission = "take" /\ semaphore
  /\ mission' = "taken" /\ semaphore' = FALSE
  /\ UNCHANGED <<tofVars, odd, near, first, pose>>

Rounds == {tof_data_buf[s] : s \in Sensor}

Acquire ==
  /\ mission' = "send"
  /\ pose' = IF first THEN {} ELSE Rounds

Skip == mission' = "take" /\ UNCHANGED pose

(* Mutant: every frame is used.                                            *)
UseAny == odd' = odd /\ (IF near THEN Skip ELSE Acquire)

(* Mutant: a frame that is skipped is not counted.                         *)
CountUsed == IF odd \/ near THEN Skip /\ odd' = odd
                            ELSE Acquire /\ odd' = ~odd

(* Every second frame is skipped, and that of a drone with another one     *)
(* near it.                                                                *)
UseFrame == odd' = ~odd /\ (IF odd \/ near THEN Skip ELSE Acquire)

AfterTake ==
  /\ mission = "taken"
  /\ UseFrame
  /\ first' = FALSE
  /\ UNCHANGED <<tofVars, semaphore, near>>

(* The pose goes to the radio and to the queues, which may take any time.  *)
PoseSent ==
  /\ mission = "send"
  /\ mission' = "take"
  /\ UNCHANGED <<tofVars, semaphore, odd, near, first, pose>>

(* After four minutes the task does not come back to the sensors.          *)
MissionEnds ==
  /\ mission \in {"taken", "send"}
  /\ mission' = "over"
  /\ UNCHANGED <<tofVars, semaphore, odd, near, first, pose>>

MissionTask == TakeSemaphore \/ AfterTake \/ PoseSent

----------------------------------------------------------------------------
DronesMove == near' = ~near /\ UNCHANGED <<tofVars, missionVars, semaphore>>

Next == TofTask \/ MissionStarts \/ MissionTask \/ MissionEnds \/ DronesMove

Spec == Init /\ [][Next]_vars

(* Both tasks run, and a sensor that was started has a new frame again and *)
(* again.                                                                  *)
Fairness ==
  /\ WF_vars(NextRound) /\ SF_vars(ReadSucceeds)
  /\ WF_vars(MissionTask)

FairSpec == Spec /\ Fairness

----------------------------------------------------------------------------
(* Correctness *)

TypeOK ==
  /\ started \in 0 .. NR_OF_SENSORS
  /\ tof \in {"init", "read", "delay"}
  /\ sensor \in Sensor /\ err_cnt \in 0 .. RETRIES + 1 /\ round \in Round
  /\ tof_data_buf \in [Sensor -> Round \cup {Never}]
  /\ mission \in {"wait", "take", "taken", "send", "over"}
  /\ semaphore \in BOOLEAN /\ odd \in BOOLEAN
  /\ near \in BOOLEAN /\ first \in BOOLEAN
  /\ pose \subseteq Round

Whole == \E r \in Round : \A s \in Sensor : tof_data_buf[s] = r

(* What makes FrameWhole inductive: the sensors before the one being read  *)
(* have been read in this round, and a frame that will be used is whole    *)
(* from the give of its semaphore on.                                      *)
FrameInv ==
  /\ TypeOK
  /\ \A s \in Sensor : s < sensor => tof_data_buf[s] = round
  /\ tof \in {"init", "delay"} => sensor = 0
  /\ mission = "wait" => first
  /\ mission = "taken" => ~semaphore
  /\ mission = "send" => odd
  /\ MissionRuns /\ ~odd /\ ~first => Whole
  /\ pose = {} \/ \E r \in Round : pose = {r}

(* The four matrices of a pose are of one round although nothing locks     *)
(* them: the semaphore that was given while the task was busy with a pose  *)
(* is used up by the frame that is skipped (app_main.c:138-140, scan.c:    *)
(* 36-38).  The first frame is the exception: its semaphore was given in   *)
(* the two seconds before (app_main.c:126), and a round may be under way.  *)
FrameWhole == TypeOK /\ (pose = {} \/ \E r \in Round : pose = {r})

(* Once all sensors are started and no other drone is near, poses are      *)
(* acquired till the mission ends, however often reads fail and the        *)
(* semaphore is withdrawn (tof_daq.c:33-42).                               *)
PosesKeepComing ==
  (<>[](started = NR_OF_SENSORS /\ ~near /\ mission \notin {"wait", "over"}))
    => []<>(mission = "send")
=============================================================================
