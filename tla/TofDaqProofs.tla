---------------------------- MODULE TofDaqProofs ----------------------------
(***************************************************************************)
(* Proof that the matrices of a pose are of one round, for any number of   *)
(* sensors and of retries.                                                 *)
(***************************************************************************)
EXTENDS TofDaq, TLAPS

LEMMA Sensors == NR_OF_SENSORS \in Nat \ {0} /\ RETRIES \in Nat \ {0}
BY TofAssumption DEF TofAssumption

LEMMA InitFrame == Init => FrameInv
<1> SUFFICES ASSUME Init PROVE FrameInv
  OBVIOUS
<1> USE Sensors DEF Init, Sensor, Round, Never
<1>1. semaphore \in BOOLEAN /\ odd \in BOOLEAN /\ first \in BOOLEAN
  OBVIOUS
<1>2. TypeOK
  BY <1>1 DEF TypeOK
<1>3. QED BY <1>2 DEF FrameInv, MissionRuns

(* The tof task writes only while no frame is on its way into a pose, and  *)
(* gives the semaphore when all sensors have been read.                    *)
LEMMA TofTaskFrame ==
  ASSUME FrameInv, TofTask
  PROVE  FrameInv'
<1> USE Sensors DEF FrameInv, Sensor, Round, Never, missionVars
<1>1. CASE tof_matrix_init
  BY <1>1 DEF tof_matrix_init, TypeOK, MissionRuns, Whole
<1>2. CASE ReadFails
  <2>1. ~MissionRuns /\ ~MissionRuns'
    BY <1>2 DEF ReadFails, MissionRuns, Withdrawn, TypeOK
  <2>2. TypeOK' /\ (mission' = "taken" => ~semaphore')
    BY <1>2 DEF ReadFails, Withdrawn, TypeOK
  <2>3. QED BY <1>2, <2>1, <2>2 DEF ReadFails
<1>3. CASE ReadSucceeds
  <2>1. TypeOK'
    <3>1. semaphore' \in BOOLEAN
      BY <1>3 DEF ReadSucceeds, Withdrawn
    <3>2. tof_data_buf' \in [Sensor -> Round \cup {Never}]
      BY <1>3 DEF ReadSucceeds, TypeOK
    <3>3. sensor' \in Sensor /\ err_cnt' \in 0 .. RETRIES + 1
      BY <1>3 DEF ReadSucceeds, TypeOK
    <3>4. QED BY <1>3, <3>1, <3>2, <3>3 DEF ReadSucceeds, TypeOK
  <2>2. CASE sensor < NR_OF_SENSORS - 1
    <3>1. \A s \in Sensor : s < sensor' => tof_data_buf'[s] = round'
      BY <1>3, <2>2 DEF ReadSucceeds, TypeOK
    <3>2. ~MissionRuns'
      BY <1>3, <2>2 DEF ReadSucceeds, MissionRuns, Withdrawn
    <3>3. QED BY <1>3, <2>1, <2>2, <3>1, <3>2 DEF ReadSucceeds, MissionRuns,
                                                  TypeOK
  <2>3. CASE ~(sensor < NR_OF_SENSORS - 1)
    <3>1. \A s \in Sensor : tof_data_buf'[s] = round
      BY <1>3, <2>3 DEF ReadSucceeds, TypeOK
    <3>2. Whole'
      BY <1>3, <3>1 DEF ReadSucceeds, Whole, TypeOK
    <3>3. QED BY <1>3, <2>1, <2>3, <3>2 DEF ReadSucceeds, MissionRuns, TypeOK
  <2>4. QED BY <2>2, <2>3
<1>4. CASE NextRound
  <2>1. TypeOK'
    BY <1>4 DEF NextRound, TypeOK
  <2>2. QED BY <1>4, <2>1 DEF NextRound, TypeOK, MissionRuns, Whole
<1>5. QED BY <1>1, <1>2, <1>3, <1>4 DEF TofTask

(* The mission task uses up the semaphore of a frame it has not seen whole *)
(* with a frame that it skips.                                             *)
LEMMA MissionFrame ==
  ASSUME FrameInv, MissionStarts \/ MissionTask \/ MissionEnds
  PROVE  FrameInv'
<1> USE DEF FrameInv, tofVars
<1>1. CASE MissionStarts
  BY <1>1 DEF MissionStarts, TypeOK, MissionRuns, Whole
<1>2. CASE TakeSemaphore
  BY <1>2 DEF TakeSemaphore, TypeOK, MissionRuns, Whole
<1>3. CASE AfterTake
  <2>1. odd' \in BOOLEAN /\ first' \in BOOLEAN /\ (odd' <=> ~odd)
    BY <1>3 DEF AfterTake, UseFrame
  <2>2. CASE odd \/ near
    BY <1>3, <2>1, <2>2 DEF AfterTake, UseFrame, Skip, TypeOK, MissionRuns
  <2>3. CASE ~odd /\ ~near
    <3>1. pose' = {} \/ \E r \in Round : pose' = {r}
      <4>1. CASE first
        BY <1>3, <2>3, <4>1 DEF AfterTake, UseFrame, Acquire
      <4>2. CASE ~first
        <5>1. PICK r \in Round : \A s \in Sensor : tof_data_buf[s] = r
          BY <1>3, <2>3, <4>2 DEF AfterTake, MissionRuns, Whole
        <5>2. Rounds = {r}
          BY <5>1, Sensors DEF Rounds, Sensor
        <5>3. QED BY <1>3, <2>3, <4>2, <5>2 DEF AfterTake, UseFrame, Acquire
      <4>3. QED BY <4>1, <4>2
    <3>2. pose' \subseteq Round
      BY <3>1
    <3>3. QED
      BY <1>3, <2>1, <2>3, <3>1, <3>2 DEF AfterTake, UseFrame, Acquire,
         TypeOK, MissionRuns
  <2>4. QED BY <2>2, <2>3
<1>4. CASE PoseSent \/ MissionEnds
  BY <1>4 DEF PoseSent, MissionEnds, TypeOK, MissionRuns, Whole
<1>5. QED BY <1>1, <1>2, <1>3, <1>4 DEF MissionTask

LEMMA NextFrame ==
  ASSUME FrameInv, [Next]_vars
  PROVE  FrameInv'
<1>1. CASE DronesMove
  BY <1>1 DEF DronesMove, FrameInv, TypeOK, MissionRuns, Whole, tofVars,
              missionVars
<1>2. CASE UNCHANGED vars
  BY <1>2 DEF vars, FrameInv, TypeOK, MissionRuns, Whole, tofVars,
              missionVars
<1>3. QED BY <1>1, <1>2, TofTaskFrame, MissionFrame DEF Next

(* Every pose but that of the first frame is made of four matrices of one  *)
(* round (tof_task and mission_task), though nothing locks them.           *)
THEOREM FrameWholeTheorem == Spec => []FrameWhole
<1>1. FrameInv => FrameWhole
  BY DEF FrameInv, FrameWhole
<1>2. QED BY <1>1, InitFrame, NextFrame, PTL DEF Spec
=============================================================================
