# Nano-C-SLAM: a TLA+ verification development

Nano-C-SLAM is the onboard software of a swarm of nano-drones (Crazyflie) that
map a maze together.  Each drone has two processors.  The **STM32**
(`src/cslam-stm32-app`, FreeRTOS) flies, ranges with the other drones over UWB,
acquires poses and decides when a scan is taken.  The **GAP9**
(`src/cslam-gap9-app`, nine RISC-V cores) is its slave over SPI: it keeps the
pose table, matches scans with ICP and optimises the pose graph.  This
directory models the control of that software in TLA+, checks it with TLC and
proves the core of it with TLAPS.

## 1. Inventory

| Component | State | Operations | Interacts with |
|---|---|---|---|
| **Token ring** `uwb_ranging.c` | has the token, time of the received token, optimise flags, target and attempt | transmit mode: range, send scan, optimise, pass token; listening mode: poll, claim | every other drone, over lossy UWB |
| **Scan acquisition** `app_main.c`, `scan_manager.c`, `uwb_ranging.c` | pose counter, ring buffer of 20 poses, lock flag, pose queue (100), scan queue (1), scan list (30) | acquire, queue, add to history, announce, lock, drain, broadcast, notify, unlock, correct | three tasks of one drone; the GAP9 |
| **External poses** `scan_manager.c`, `external_point_cloud.c` | STM32: buffers of 100 poses and 200 updates; GAP9: table of 20 scans in batches of 20 poses | receive, flush, store, match, erase | the broadcast of the lower drones; the pose graph |
| **Pose graph** `point_cloud.c` | pose table (3000), scan ids (100), constraints (50) | add pose, add constraint, reduce, optimise, update | GAP9 commands; graph SLAM |
| **GAP9 command loop, SPI link** `main.c`, `spi_comm.c`, `spi_driver.c`, `spi_cmds_decode.c` | busy line, rx/tx buffers, checksum | send request, decode, execute, answer | both processors |
| **Sparse matrix** `sparse-matrix.c` | CSR arrays, line table, counter of non-zeroes | init, get, insert, transpose, permute, product | SLAM, RCM, Cholesky |
| **RCM ordering** `rcm/*` | adjacency, FIFO queue, heap, visited lines | neighbours, sort by degree, order | SLAM |
| **Cholesky** `cholesky.c` | the factor, per-core partial sums | dot products on 8 cores, barrier, insertion | sparse matrix, cluster cores |
| **Graph SLAM, ICP** `graph-based-slam.c`, `icp.c` | linear system, correspondences | floating-point numerics | pose graph |
| **Exploration** `exploration.c`, `flight_commander.c` | flight state, scan proposal, heading | state machine of the flight task | scan acquisition, collision zones |
| **Collision zones** `uwb_collision_det.c` | distance and position of every drone | update, is in danger | flight task, ring |
| **ToF acquisition** `tof_daq.c` | frames of four sensors, bin distances | acquire, process | mission and flight task |
| **Radio, ground station, deck** `radio_comm.c`, `run_demo.py`, `quad-tof-deck-v2` | none that feeds back | logging; hardware | a PC |

The vendored sensor drivers under `tof-matrix/` and the hardware design files
are not part of the inventory's program logic.

### What makes each of them hard, and what makes it correct

* **Token ring.** Acknowledgements are lost, tokens are duplicated, drones are
  absent or lose power; the receiver does not know whether the sender has had its
  acknowledgement and guesses it from silence.  Correct: never two holders, the
  token is not lost, every drone gets its turn, a request to optimise reaches
  the drone it is meant for.
* **Scan acquisition.** Three tasks share a ring buffer, an unprotected flag
  and two queues.  Correct: a scan is sent whole and unchanged to every drone,
  every announced scan is shared, it starts where it was validated, the tables
  of the two processors agree, the GAP9 finds a pose where its id says.
* **External poses.** Streams of packets with loss and duplicates are cut in
  batches by counting.  Correct: a batch holds the poses of one scan of one
  drone; a scan is matched against the id it came with; no buffer overflows.
* **Pose graph.** Sorting, merging and renumbering of poses, in place, again
  and again.  Correct: the reduced graph has the same constraints as the full
  one; a second optimisation starts from the graph the first one did; a scan
  has at most one external constraint.
* **SPI link.** Two processors follow each other with a busy line and fixed
  delays, one buffer is shared by two tasks.  Correct: an answer belongs to the
  request it is taken for; nobody waits for ever.
* **Sparse matrix, RCM, Cholesky.** Index arithmetic with markers, capacity
  limits, eight cores that share arrays.  Correct: the storage refines the
  dense matrix, the ordering is a permutation, the cores compute what one does.
* **Exploration, collision zones, ToF.** Event order, stale data.  Correct: a
  scan is proposed where the drone stands still, once; a drone that is near is
  avoided and does not hold this one for ever; a pose is made of one frame.

`PROJECT.json` lists every hazard with its line and the properties that cover it.

## 2. Token ring: `TokenPassing`, `TokenRing`, `TokenRingProofs`

`TokenPassing` is what the swarm is promised: one drone at a time has its turn,
then the token is on its way to the next drone of the ring that is on.

`TokenRing` is `uwb_ranging_task` run by every drone.

| State | Code |
|---|---|
| `agent_has_token`, `optimize`, `send_token_with_opt` | locals of the task |
| `pc` | where the loop is: `range`, `scan`, `optimize`, `settle` (the `vTaskDelay(2)`), `pass`; `msrm`, `msg`, `check` |
| `target_id`, `attempt`, `wait` | the retry loop of `// 6. Pass token` |
| `token_age` | retry periods since `token_rcv_time`; `None` stands for 0 |
| `msrm`, `msgs` | queues of the UWB driver (external) |
| `losses` | a history variable: what the environment lost in this hop |

A message is one of `TOKEN`, `TOKENOPT`, `DATA`: their contents make no
difference to the ring.  The responder of the driver is off exactly while a
drone has the token (`uwb_ranging.c` switches it there), so `Responding` is
derived.  Time passes in retry periods: a failed exchange and its delay of
`RETRY_TIME_MS` take between one and two of these, so "longer than
`2 * RETRY_TIME_MS`" is due after `ClaimMin = 2` periods at the earliest and,
with the polls of the loop, done after `ClaimMax = 3`.  `Tick` does not pass
while a task could still act (`MayWait`): tasks at these priorities are faster
than a period.  `MaxMsgs` is a bound of the model on data packets only.

*Assumed:* a listening drone may lose power only when it is not being handed
the token, and the holder does not.  The code creates no second token:
when the holder disappears the ring stops, which is listed as a hazard.

| Run | Shows | Bounds |
|---|---|---|
| `ring` | `OneToken`, `TokenNotLost`, `Inv`, `EveryDroneGetsToken`, `AllOptimize`, refinement of `TokenPassing` | 4 drones, two of which may go off at any time; 5 attempts as in the code; one lost exchange per hop, wherever it falls |

`AllOptimize` speaks of drones that stay on: `send_token_with_opt` is cleared
after the first target that was tried (`uwb_ranging.c:481`), so a drone that is
off swallows the request for all above it.

One loss falls on the token, on its acknowledgement, and on each attempt.  Four
drones let two neighbours be off at once, and leave two that stay on.  That at
most one exchange is lost is needed: with `MaxLoss = 2` and the code's
`2 * RETRY_TIME_MS` the receiver claims the token before the sender has an
acknowledgement, and TLC finds `OneToken` violated.

*Fairness* (`FairSpec`): weak fairness of the steps each task takes and of the
clock.  The tasks are periodic loops without a blocking call longer than a
tick, so each is scheduled again and again.  Nothing is assumed of the medium
except that it loses at most `MaxLoss` exchanges per hop.

**Proved** (`TokenRingProofs`), for every number of drones and attempts:
`TypeCorrect`, from the assumptions on the constants only; `RingInvariant`,
`OneTokenTheorem` and `TokenNotLostTheorem` from `MaxLoss < ClaimMin` and
`MaxLoss < ATTEMPTS`.  The argument: `OneToken` is not inductive.  `Inv` adds
that the sender's copy and the receiver's (its age and its queue) are those of
one hop: only the target of a drone in `pass` can hold a token; when the token
has been received, each later period was paid for with a lost exchange
(`token_age` and `wait` are bounded by `losses`), so the claim is not due
before the sender has been answered; and nothing but a token is read between
the first copy and the claim, because measurements were read before the token
was sent and the drones that could send data listen.

`RingImplementsTokenPassing`, from the same two assumptions (`FewLosses`): every
behaviour of the ring is one of `TokenPassing` without its fairness
(`PassesInOrder`).  The token of the abstract ring is where a drone has it, or
else where a drone is being handed it (`TheHolder`).  A sender that is told that
the target has the token makes the step `Give` (`PassOkGives`), the target that claims
it the step `Take` (`ClaimTakes`); `HolderStays` and `PowerOffStutters` show
that no other step moves it.  That it goes to the *next* drone that is on needs
one more invariant, `PassedOverAreOff`: a target that answered none of
`ATTEMPTS > MaxLoss` exchanges is off (`PassedOverStep`).  The fairness of
`TokenPassing` stays with TLC (`ImplementsTokenPassing`).

## 3. Scan acquisition: `ScanManager`, `ScanManagerProofs`

One drone; three tasks and the GAP9 that the UWB task drives.

| Actor | Actions | Code |
|---|---|---|
| mission task | `AcquirePose`, `SendToQueue`, `ResetQueue`, `AddToScanBuffer`, `GetScanId`, `LockScan` | the body of the loop in `app_main.c`, `send_aug_pose_to_queue`, `add_pose_to_scan_buffer` |
| flight task | `StartSpin`, `ValidateScan`, `StopSpin` | the spin of `explore()` and `is_scan_valid` |
| UWB task | `TakeToken`, `DrainPose`, `DrainDone`, `CheckNewScan`, `SendPacket`, `SendDone`, `NotifyGap9`, `Decide`, `Optimize`, `Correct`, `PassOn` | transmit mode of `uwb_ranging_task`, `uwb_send_scan_to_drone`, `ekf_correct_position`; on the GAP9 `SCAN_CMD` |

Every action is a piece of a task between two accesses to shared state, so TLC
interleaves the tasks where FreeRTOS can preempt them; `send_aug_pose_to_queue`
too is in pieces, as the UWB task may take poses out between its look at the
free places, the reset of a full queue and the sending.  A pose is its id.

*Abstractions.* `send_token_with_opt` and the passing of the token are in
`TokenRing`; here `TakeToken` brings the token, with or without a request.  That
the drone has spun for 2 s and the distance condition of `is_scan_valid` are
left open: a scan may be validated at any time of a spin.
Sizes are scaled: 20 poses a scan become 2 or 3, a queue of 100 becomes 2 or 4.

*A stop before the first pose.*  `explore()` takes `get_last_pose_id()` for the
start of a scan without a look at it (`exploration.c:224`).  That is -1 as long
as the mission task has skipped every frame, near another drone or after a
ranging that failed and was stored as 0 m (`app_main.c:142-146`,
`uwb_ranging.c:399-403`); the drone flies meanwhile.  Such a scan may be validated
later, is announced to the PC as -1, is complete with 19 poses
(`app_main.c:167`), and is sent from a history whose last slot nothing was
written to, so that it is shared under the id 0.  The model has these behaviours
(`None`), and the properties say what is left of them: but for its first pose such a
scan is in order (`ScanIntact`), it holds the poses 0 to 18 behind an empty slot
(`ScanFromItsStart`), and it is the one scan that is shared under another id than it was
announced with (`EveryScanShared`).  `Stored` is what a slot holds for an id.

*Pace.* How fast the tasks are relative to each other is not in the code.  Four
constants bound it: `TokenBy` (poses acquired between two drains), `MaxLocked`
(poses acquired while a scan is locked), `ValidateBy` (poses between proposal and
validation), `SpinGap` (poses between two proposals, counted from an announced one).

| Run | Pace | Shows |
|---|---|---|
| `scan_race` | any | what locks and order of statements guarantee alone: `ScanIntact`, `TablesAgree`, `PosesInOrder`, `OptEveryFourth`, `Inv` |
| `scan_paced` | `TokenBy = QUEUE_SIZE`, `ValidateBy = SCAN_LEN - 2`, `SpinGap = SCAN_LEN + MaxLocked` | `EveryScanShared`, `ScanFromItsStart`, `IndexIsId`, `ScanUnlocked`: the pace a mission needs |

The paced bounds are needed, not just sufficient: `TokenBy` one larger violates
`IndexIsId` (the full queue is emptied), `ValidateBy` one larger violates
`ScanFromItsStart` (the history has moved on), and `MaxLocked` one larger, with
the same `SpinGap`, violates `EveryScanShared` (the next scan is announced and
locked on top of the one that waits).

Two things the code leaves to chance have no property: a scan that is completed
between the drain of the pose queue (`uwb_ranging.c:388`) and the check for a
scan (`:408`) is announced to the GAP9 before its last poses, and the pose by
which the estimate is corrected is read twice, before and after the optimisation
(`:440`, `:351`), while the mission task acquires others.  Both are hazards in
`PROJECT.json`, and behaviours of the model.

*Bounds:* `MaxPoses` ends a behaviour.  With scans of two poses, four are room for
two scans that overlap and a third that is proposed, one of them before the first pose;
two scans are enough for one to overtake, hide or shift the other, and for the schedule of
the optimisation to come round.  At the pace of a mission nine poses are
room for two scans of three that are apart and a third one proposed.

*Fairness:* weak fairness of the UWB task; that the token comes back is
`EveryDroneGetsToken` of the ring.  The other tasks may stop.

**Proved** (`ScanManagerProofs`), for any length of scan, queue, schedule and
number of poses, in three layers.

* *At any pace:* `TypeCorrect`, `RaceInvariant` (`Inv`), `ScanIntactTheorem`,
  `TablesAgreeTheorem`, `PosesInOrderTheorem`, `OptEveryFourthTheorem`.  None of
  these is inductive.  `Inv` adds where a pose is on its way (`QueueInv`: what
  the queue was offered, also when it was full and emptied), that the history is
  filling up and not locked, or full and in order, or, for a scan that begins before the
  first pose, full but for its last slot (`HistoryInv`), that the lock is held
  from the first packet to the end of the
  UWB task's branch (`SendInv`), and between which multiples the counters of the
  schedule lie (`OptInv`).
* *If the token is in time* (`TokenInTime`: `TokenBy <= QUEUE_SIZE`):
  `IndexIsIdTheorem`.  The queue is then never full when a pose is sent to it
  (`NoPoseDropped`), so table and queue hold all poses from 0 on.
* *If scans are apart* (`ScansApart`: `ValidateBy <= SCAN_LEN - 2` and
  `SpinGap >= SCAN_LEN + MaxLocked`): `ScanFromItsStartTheorem` and
  `EveryScanSharedTheorem`.  The invariant follows one scan from its proposal to
  the table: it may begin where no earlier scan is near and the history has no
  gap since (`MayBegin`), and of a scan proposed, validated, acquired and locked
  there is one at a time.  None of this needs a first pose: a scan that begins at -1
  is followed like any other.

The assumptions on the pace are those whose necessity TLC shows above.

## 4. Pose graph: `PoseGraph`, `PoseGraphProofs`

The GAP9 keeps every pose of the drone in a table.  A pose is its index there,
which is the id the STM32 gave it as long as no pose is lost (`IndexIsId` of
`ScanManager`).

| State | Code |
|---|---|
| `pose_counter`, `int_scan_pose_ids` | the pose table and the first poses of the scans |
| `constraints` | the table up to `constr_counter`, as it is *stored* |
| `found` | a history variable: the same constraints, as they were *found* |
| `ext_const_table` | only `cur_pose_id`; who made them is in `ExternalScans` |
| `job` | the graph that the last optimisation solved: its poses, its key poses, the edges the solver got and the constraints they should be |

| Action | Code |
|---|---|
| `pcl_add_augmented_pose` | `POSE_CMD` |
| `add_scan_pose_id` | `SCAN_CMD`: a constraint with one of the earlier scans or none, then the scan is stored |
| `Optimize` | `OPTIMIZE_CMD`: matches with other drones, then all of `pcl_optimize` |

`pcl_optimize` is made of operators that follow its parts:
`delete_duplicates_and_sort`, `pcl_reduce` (which meets the scan poses with one
moving index, so it stops at one out of order), `RemappedFirst` (as many
constraints as there are scan poses, and the search that ends at `fromIdx`),
`KeepInternal` and `Written`, the poses a subgraph writes back.

*Left open:* the positions.  So which scans match (`ICP`) and which poses are
more than 0.8 m from the last key pose (`far`) are nondeterministic, which covers
every maze.  *Assumed:* scans arrive in the order of their first poses
(`ScanManager`), each once.  A scan may begin with pose 0, to which the constraints with
other drones are tied; its external constraint then ties pose 0 to itself.  The update of the
constraints' values in `update_external_constraints` does not move their ends
and is in `ExternalScans`.  The GAP9 executes one command after the other, so
each command is one action.

| Run | Shows | Bounds |
|---|---|---|
| `graph_any` | `FirstGraphSolved`, `EdgesInGraph`, `EveryPoseMovedOnce` | 5 poses, 2 closures, 3 matches with other drones, 2 optimisations |
| `graph_second` | violates `SolvesItsGraph`: a second optimisation after one closure | 4 poses, 1 closure |
| `graph_ext` | violates `LaterScansSolved`: one optimisation with three matches with other drones | 5 poses, 2 closures, 3 matches |

Five poses suffice for three scans with a key pose before and between them; the second
optimisation is the first that sees what one has left, and three external constraints
are the fewest that the loop over the scan poses (`point_cloud.c:305`) can
miss.  It runs over the *different* scan poses and not over the constraints.
With at most two external constraints, and no scan that begins with pose 0, the
constraints are never more (the closures form a forest, since a scan gets at most one
when it arrives); with three they can be.  The last ones then keep pose
ids, which the solver takes for numbers of key poses: this is what `graph_ext` shows.
The properties say what holds for all numbers of constraints.  `EdgesInGraph`:
a constraint that was reached is an edge of the graph, the internal ones are
always reached, and all are in the case above.  `FirstGraphSolved`: if all are reached
(`AllReached`), the first optimisation solves its graph.

**Proved** (`PoseGraphProofs`), for any number of poses, scans, closures and
optimisations, any number of external constraints and any choice of key poses:

| Theorem | Says |
|---|---|
| `TypeCorrect` | renumbering yields poses again, however often |
| `EveryPoseMovedTheorem` | `EveryPoseMovedOnce` |
| `PoseGraphInvariant` | `Inv`, the inductive invariant |
| `EdgesInGraphTheorem` | `EdgesInGraph`: what the loop over the scan poses reaches, and that this is an edge |
| `FirstGraphTheorem` | `FirstGraphSolved` |

None of them has an assumption.  (The tables are sequences here: that the code's
50 constraints and 100 scans are enough is not proved, and not so in general.)

The argument:

* `PlaceIn` numbers a set of poses in their order: it grows with the pose, it
  is below the size of the set, and it takes every number there (`PlaceTaken`,
  an injection between sets of one size).  So the list that
  `delete_duplicates_and_sort` returns is strictly increasing and has every scan
  pose, `pcl_reduce` meets all of them (`SortedList`), and each is a key pose.
* Constraints between scans start at different poses, and the first of them ends
  before all these (`ClosuresInOrder`).  So `n` of them have `n + 1` different ends and
  the loop over `scan_pose_nr` reaches them all.  If no scan begins with pose 0, the external ones
  add that pose, where they all end: `n + 2`, enough for two of them.
* Renumbering keeps the order and never raises a number, so `ClosuresInOrder`
  survives any number of optimisations although they confuse poses with places.
  This is why the edges stay legal (`EdgesInGraph`) when the graph is no longer
  the one that was found.
* The first key pose is pose 0 (`KeysOfGraph`); a pose is written back by the
  subgraph of the greatest key pose that does not come after it, and by no other
  (`WrittenOnce`).

## 5. Scans of other drones: `ExternalScans`, `ExternalScansProofs`

A scan on its way: packets over UWB, the buffer of a higher drone `ME`, the
stream over SPI, batches of 20 on the GAP9, the table of external scans, a
constraint, and the updates of its pose whenever its drone has optimised.

| Actor | Actions | Code |
|---|---|---|
| a lower drone, in its turn | `StartTurn`, `PacketArrives`, `PacketLost`, `ScanSent`, `SendUpdates`, `NoUpdates` | `uwb_send_scan_to_drone`, `uwb_send_updated_poses`; what arrives is added to the buffers of `ME` in its listening mode |
| `ME`, in its turn | `Skipped`, `StartOwnTurn`, `ForwardPose`, `ForwardUpdate`, `Forwarded` | transmit mode, `send_ext_aug_poses_to_gap9`, `add_ext_aug_pose_to_buf`, `add_pose_upd_to_buf` |
| GAP9 of `ME` | `Optimize` | `check_for_external_constraints`, `update_external_constraints` |

A pose is its drone, the number of the scan (for the id of its first pose) and
its place in it; its value is the *version*, how often its drone has optimised.
`latest` is a history variable: the newest version that arrived.  Turns follow
the ring of `TokenRing`, where a receiver is skipped when it does not answer in
time; drones above `ME` send it nothing.  Which scans match is left open, but each
match uses an own scan that has none, and entries are tried in their order: the
matches of one optimisation are an increasing sequence of entries (`Matches`),
each with an own scan of its own.
Any turn may optimise here; `TokenRing` says when it does.

*Bounds on faults* (`MaxFaulty`, `MaxUpdLost`, `MaxSkipped`) say how many packets of
scans fail in all attempts or arrive more than once, how many packets of updates
fail, and how many turns are skipped.  A packet whose acknowledgements are lost
arrives up to `ATTEMPTS` times (`uwb_ranging.c:117`).  Packets damaged
between STM32 and GAP9 are in `Gap9Link`.

| Run | Shows | Bounds |
|---|---|---|
| `ext` (`MCExternalScans`) | `Inv`, `IntactBatch`, `MatchedOnce`, `BufferFits`, `UpdatesApplied` | 2 senders with 2 scans and 2 optimisations, and 1 scan; an own drone with 2 scans; a packet that is lost or arrives up to three times, a packet of updates lost, a turn skipped; 3 entries |

`IntactBatch` holds until the first fault: batches are cut by counting poses, so
one lost packet leaves this batch and all later ones made of two scans.
Room for every scan is needed in `IntactBatch`: with fewer entries
(`MAX_SCANS = 1`) the second scan goes into the entry of the first and keeps its
header.  `BufferFits` says what the code relies on without a check: `BUF_SIZE`
must have room for a scan of every lower drone in each round of the ring that
ends at `ME` or skips it.  `UpdatesApplied` speaks of constraints that
exist when the GAP9 optimises, before the first fault (a scan that came twice can
have two constraints, and an update changes only the first); an update that precedes the match of its scan
is dropped, and the constraint then starts from the older value.

A scan of two poses has a first and a last one, which is all that the code
treats differently.  Two senders can mix their packets in a batch; a second
scan of one sender meets what its first has left in the table, and its second
optimisation the values of the first.  The buffer has
room for five scans in the code (100 poses) and here for the three scans of the run and the two
copies of a packet (`RoomForPoses`, which counts a scan for every turn, asks for
more): what matters is how many turns are skipped in a row.

**Proved** (`ExternalScansProofs`), for any number of drones, scans, poses and
faults:

| Theorem | Assumes |
|---|---|
| `TypeCorrect`: the entry and the place in it where the GAP9 stores a pose are within the table, whatever arrives | - |
| `OwnScansOnce`: a scan of `ME` has one constraint at most, whatever arrives | - |
| `BufferFitsTheorem` | `RoomForPoses`: `SCAN_LEN * ME * (1 + MaxSkipped) + (ATTEMPTS - 1) * MaxFaulty <= BUF_SIZE` |
| `ExternalInvariant` (`Inv`), `IntactBatchTheorem`, `MatchedOnceTheorem`, `UpdatesAppliedTheorem` | `RoomForScans`: `ME * MaxScans <= MAX_SCANS` |

The code checks neither of the two assumptions; in the code's sizes, 20 entries
hold the scans of two lower drones that make ten each, and 100 poses are five
turns with a scan.  The argument: what waits for `ME` is counted by the turns
since its last one (`WaitingBounded`), which needs nothing of the medium but
that the copies of packets are counted.  `ScansWhole` is the part that holds
until the first fault.  The stream of poses, from what the GAP9 has already read
to the packet that is sent next, has no gap and no copy (`StreamWhole`), and
the entry that is open has the poses read so far (`EntryOpen`); this makes the
counted batch a scan.  The name of a scan, its drone and first pose, is known
to the GAP9 once, as an entry or as a constraint, and a scan that is on its way
is not known yet (`NamesDiffer`, `YetToCome`); so a free entry is left for it
(by counting names), it is matched once, and an update has one constraint to
change.  `LastIsLatest` says that the last update of a scan in the table is its
newest.

## 6. Sparse matrices: `Csr`, `SparseMatrix`, `SolverProofs`

`Csr` translates `sparse-matrix.c` function by function: a matrix is a record of
its arrays (`data`, `col_idx`, `row_ptr`) and counters, a function that changes
it an operator that returns the new one.  `nz_cnt` counts as in the code (the
number of elements less one), and a row that no element was ever put behind has
the pointers the code leaves it with.  The values are integers; 0 stands for one
below `NZ_THRESHOLD`.  `overrun` is set when line 31 lets an element in that the
arrays have no place for; nothing is said of such a matrix.

`SparseMatrix` calls these operators in any order beside a *dense* matrix that
does what the calls mean.

| Run | Shows | Bounds |
|---|---|---|
| `sparse` | `RowsInOrder` (with `MatrixTypeOK`), `ReadsDense` | 3 rows, 5 places, values -1, 0, 1 |

Three rows have a first, a last and one between that can be empty; five places
are less than the elements a matrix of three rows can have, so a matrix gets
full.  A matrix whose arrays were overrun makes no further step.

**Proved** (first part of `SolverProofs`), for any number of rows and places and all
values, with no assumption but that the matrix has a row and no more rows than
the line table:

| Theorem | Says |
|---|---|
| `SparseInvariant` | `MatrixInv` holds under any sequence of calls |
| `RowsInOrderTheorem` | so does `RowsInOrder` |
| `ReadsDenseTheorem` | and `ReadsDense` |

`RowsInOrder` is not inductive: `MatrixInv` adds that the line table is 0 behind the last
row, that columns are below `N` (`Sorted`), and that `max_order` is the order of the
last element, which is in the last row (`LastIsLast`), for the code decides by
`max_order` alone whether an element goes inside or behind all others.  The
argument: the search along a row ends at the one place a column can have
(`SearchFinds`, `HoldsIs`); either branch of an insertion puts the element between
those before and behind it (`Inserted`, with `InsertInside` and `InsertLast`), which
keeps the order (`InsertedSorted`) and moves every other element without loss
(`InsertedReads`); a value that is replaced is in no other row (`RowsApart`).  The
transposition is a fold of insertions: that the fold's function exists
(`FoldExists`), and that it holds the first `k` elements after `k` steps
(`StepHolds`), is shown by a least counterexample.

## 7. The solver: `GraphSlam`, `Rcm`, `CholeskyTeam`, `LsSlam`, `SolverProofs`

One iteration of `ls_slam`, each module on top of the one before.

| Module | Code | Content |
|---|---|---|
| `GraphSlam` | `build_H_and_b` | the calls to `insert_element` and `add_to_element` of the prior, the odometry and the constraints, in their order; `Cumulative` is what the elements of *H* should be |
| `Rcm` | `rcm_fast`, `circular-queue.c`, `heapsort.c` | queue, sort and ordering; `CuthillMcKee` is the reference definition |
| `CholeskyTeam` | `cholesky.c` | the master and the cores: dot products, critical sections, barriers, insertion in two steps, arrays then row pointers |
| `LsSlam` | `ls_slam`, `solve_for_x` | the order of all this, permutations, the two substitutions |

All matrices of the solver have `N` rows (`matrix_size` in the code), three for
each pose.

*Numbers* are abstracted to where they come from.  An element of *H* is the sum
of `4 ^ e` over the edges `e` it is made of; an element of the factor is the
element of *H* and the columns over which products were summed; a place of *b*
is the unknown it was computed for and those put into its equation.  So an edge
that is lost, added twice or put in the wrong place, a partial sum that is lost
and a permutation in the wrong direction all show.  What this does not say is
whether the floating-point results are right.

`HAssembled` compares *H* with "the cumulative contribution of the jacobians"
(`graph-based-slam.h:48`): every element is the sum over all edges of the
graph, `Cumulative`.  It asks for that in the blocks on the diagonal, whatever the edges,
and between two poses that at most one edge joins (`JoinedOnce`).  Where several edges
join the same two poses (a closure between neighbouring key poses, which the odometry joins
too, or a second one between the same two) the code does *not* do what its header says: the
block between them is put in with `insert_element`, so the last edge replaces
the others (`graph-based-slam.c:200`, `208-211`), while the blocks on the diagonal and
*b* have all of them.  The model follows the code: without `JoinedOnce` TLC finds
`HAssembled` violated in the same run.  (The odometry inserts into diagonal blocks
too, at `148-151`; nothing is lost there, because no edge before it has written to these places.)

| Run | Shows | Bounds |
|---|---|---|
| `solver` | `HAssembled`, `InCuthillMcKeeOrder` (with `TypeOK` and `NeighborsBounded`), `FactorIsCholesky`, `SolutionInPlace`, no deadlock of the team | any graph of 3 poses with up to 2 constraints, 2 cores at any relative pace, 2 iterations |

Three poses are nine unknowns, so the counters of the queue come round and the heap
sort has heaps of several levels; two constraints can close the same or different loops; two
cores race for the sum and for the insertion; and the second iteration starts
from what the first left in the matrices.  `NeighborsBounded` gives the size
that `nodes_line` needs: its 100 places are enough for 31 constraints, and
nothing checks that there are no more.

**Proved** (`SolverProofs`), for any number of poses, constraints, cores, places
and iterations:

| Theorem | Says |
|---|---|
| `PermutationTheorem` | what `rcm_fast` leaves in `perm` is a permutation of the unknowns, for any graph |
| `SolverInvariant` | `SolverInv` holds as long as no insertion finds a matrix full |
| `AssembledTheorem` | then `HAssembled` holds: whatever the graph, *H* has the sum of the edges on its diagonal and between poses that one edge joins |
| `FactorTheorem` | and `FactorIsCholesky` does, in whatever order the cores make their steps |
| `SolutionTheorem` | and so does `SolutionInPlace` |
| `RoomTheorem` | if a matrix that is full below its diagonal has room (`RoomForFactor`), no insertion finds one full |
| `AssembledInRoom`, `FactorInRoom`, `SolutionInRoom` | so the three hold without that condition |

*The condition.*  `HasRoom` says that no insertion has met a matrix whose places
are all taken; there `insert_element` writes behind its arrays (section 6).  Which
graphs fill a matrix depends on the fill-in of their factor.  `RoomForFactor` is
what a count of the places can guarantee for all of them: with the 7020 places of
the code `N <= 117`, a graph of 39 poses.  `PermutationTheorem` needs no condition,
because the queue orders every unknown whatever neighbours a matrix gives it; only
for a matrix that was overrun, which the model leaves as it was, does the theorem
say nothing about the code.

*The argument*, along the phases of `SolverInv`:

* *Assembly.*  Insertions and additions of positive numbers leave what is there
  positive, and every pose is in an edge or in the prior, so *H* has something on its
  whole diagonal (`Decomposable`, by `BuildResult`; the loops of `build_H_and_b` are
  folds, followed step by step with `FoldExists`).
* *What is assembled.*  One element at or below the diagonal is followed through
  the operations of an edge: it gets the weight of the edge added or is replaced,
  as the position of its row and column in the edge says (`WithEdge`; `OdometryReads`,
  `ConstraintReads`).  The odometry inserts on the block of its
  second pose and does not add; that overwrites nothing because what no earlier edge has
  written is zero (`Fresh`), which is carried along the chain of poses.  On the
  other side, `Assembled` is what the edges leave: the last value of a chain of the same
  steps, of the sum in a block, and between two poses of the greatest of the
  first `k` edges.  The two chains agree step by step (`AssembledResult`); and where
  at most one edge joins two poses, what the edges leave is their sum (`AssembledIsSum`).
* *Ordering.*  The queue is an array in which everything that ever joined
  stays, because at most `N <= MAX_SIZE` do (`QueueInv`): an unknown joins once, `visited`
  says that it has, and `perm` is what is before the head (`OrderInv`).  The heap
  sort only swaps.  When `perm_index` is `N`, `N` different unknowns are in `perm`, so
  all are (`Permutation`), and reversing keeps that.
* *Team.*  `TeamInv` says of column `j` what has been computed of it.  Before it,
  all columns are done, behind it all are empty (`FactorUpTo`).  While the cores
  add up (`SumInv`), `sum_global` is the sum over the shares of those that have left
  the critical section; shares are disjoint and cover the row, so at the barrier
  it is the whole dot product.  Then each core computes its own rows
  (`RowsInv`): for a row, it has still to compute it, or has the element waiting in
  `new`, or the matrix has it.  Nobody reads a row of the matrix while one is
  inserted into: the barrier between "computed" and "enter" sees to that
  (`ColumnInv`).  An insertion is two steps, and between them the matrix is not in
  order; the invariant therefore speaks of `Complete`, the matrix as it
  will be when the one core at "link" has linked its row.
* *Substitutions.*  With the factor in place, the columns of a row are the unknowns
  that go into its equation, and after the transposition the rows of a column
  (`TransposeResult`); `permutation_inverse` puts the solution of `perm[i]` back at
  `perm[i]`.

`SolverInv` and `HasRoom` were checked by TLC on the instance of `solver` before
they were proved.

*With TLC only:* `InCuthillMcKeeOrder`, of which the permutation is proved and the
order by degree (that the heap sort sorts, and that the parents of the unknowns are
in order) is not.

## 8. The flight task: `FlightScan`, `Exploration`, `ExplorationProofs`

`FlightScan` is what the mission task and the UWB task rely on: at each stop the
drone proposes one scan at most, and it starts at the pose where it stopped.

| Actor | Actions | Code |
|---|---|---|
| flight task | `enable_commander`, `ReadDistance`, `update_flight_commands` | `flight_task`; an iteration in two steps, the distance to the next drone first, then `explore()` with both of its switches |
| UWB task | `Ranging` | `// 1. Do ranging`, with a failed ranging as a distance of 0, and `filter_dist` |
| mission task, time | `AcquirePose`, `Second` | `pose_cnt`; the ages of spin, caution and measurement |

*Left open:* what the ToF sensors see (`FrontDistances`, `SideDistances`), the
slope of the wall (`Angles`), where the other drone is and whether the zones
overlap.  *Not modelled:* the speed sideways and the rate of turn.
*Fairness:* the flight task runs periodically and time passes.

| Run | Shows | Bounds |
|---|---|---|
| `explore` | `ZoneIsBearing`, `FarIsSeen`, `NotIntoWall`, `CautionEnds`, refinement of `FlightScan`, `TypeOK` | one other drone, three distances ahead (too near, slow, free), two to the sides, 2 poses, times in seconds with 5 s of caution as 2 |

`ZoneIsBearing` compares `theta` with a table for the eight directions and the
yaws in steps of 45 degrees.  `NotIntoWall` has an exception that the code makes:
the first iteration after a caution cruises without a look at the distance.
`FarIsSeen` says that a ranging that failed, which is filed as 0 m, is forgotten
after two that succeed.

**Proved** (`ExplorationProofs`), for any distances, times and number of poses:
`FlightImplementsScans`, the refinement of `FlightScan`.  The invariant is
`FlightInv`, the types of what the scans depend on.  `SwitchedStep` says what the
first switch of `explore()` may do to a scan (`ScanStep`), one case per state;
`NearStep`, that the reaction to a drone near adds nothing to it, because it
leaves a drone that spins alone.  The other actions stutter.

`TypeCorrect` needs the speeds as well (`SpeedInv`).  `NotIntoWallTheorem` assumes
`Braking`: the drone stops no nearer to a wall than 30 cm and can brake from its
cruising speed in one iteration, as with the constants of `config.h`.
`FarIsSeenTheorem` assumes `FineUnit`: the unit in which distances between drones
are modelled is fine enough for the integer arithmetic of `filter_dist`, so that
half of a half of a far distance is not near.  `ZoneTheorem` needs no assumption:
`theta` is computed from direction and yaw alone.

## 9. The SPI link: `Gap9Calls`, `Gap9Link`, `Gap9LinkProofs`

`Gap9Calls` is what the tasks of the STM32 take the functions of `spi_comm.c`
for: commands are executed one after the other; a call with a result, or one that
waits, returns when its command has been executed.  A call is lost when its packet is
damaged, and may be when it follows an answer before the GAP9 is back at its
receive (`answering`); if it is a request it costs the calls up to the
next command without an answer as well.

| State of `Gap9Link` | Code |
|---|---|
| `pc`, `call`, `delay` | where the UWB task is in `spi_send_...`, and what is left of its `vTaskDelay` |
| `gap`, `cmd`, `age` | where the GAP9 is in `slam_loop`, the packet in `spi_buf`, the ticks since |
| `busy` | the line between `set_cf_gpio` and `digitalRead(DECK_GPIO_IO2)` |
| `skewed` | the receive that is under way has got bytes that are of no packet |
| `result`, `damaged`, `inStep` | history variables |

Commands differ in what they wait for: poses and updates only pause, `SCAN` and
`OPTIMIZE` poll the line, `OPTIMIZE` and `POSE_REQ` clock an answer.  Time is in
ticks of the STM32.  A delay of *n* ends with the *n*-th tick, the first of which
may come at once; so the `vTaskDelay(1)` between two poses (`uwb_ranging.c:391`)
guarantees nothing, and the GAP9 must have stored the pose before that tick:
`GAP9_TICKS = 0`.  With `GAP9_TICKS = 1` TLC finds the second pose lost.

*Behind an answer.*  When the STM32 has clocked the answer in, its call returns
and the next one may follow at once, without a delay: the pose request and
`OPTIMIZE` of `uwb_ranging.c:442-446`, then `OPTIMIZE` and the pose request of
`uwb_send_updated_poses` or `ekf_correct_position`.  The GAP9 has still to return from `spi_send_blocking`,
to print a line, and to get round its loop into `spi_rcv_blocking`
(`main.c:116-118`, `57-59`): `gap = "sent"`, which it leaves with `Rcv`.  No tick need pass
in between, so nothing in the code makes it faster than the STM32.  A packet sent by then is
missed, or its end is taken for the start of another (`HalfArrives`),
although nothing was damaged.  `OPTIMIZE` is then lost, and what the STM32 takes for its
answer is of no command; the GAP9 is back in step after the next command
that has no answer.  `CallsReturn` holds all the same.

*External:* the SPI peripheral gives `spi_rcv_blocking` what arrives while it
waits and loses the rest.  A damaged packet is taken to fail its checksum, or
its S and E.  That is an assumption on the medium: the byte of the command is under no
checksum (`main.c:32-37`, `spi_cmds_decode.c`), `OPTIMIZE_CMD` has none at all, and that of an update
leaves out its ids.  A flipped bit that makes another valid command of a packet is not modelled.
*Fairness:* both processors run and a command ends.  The STM32 may stop calling.

| Run | Shows | Bounds |
|---|---|---|
| `link` | `Inv`, refinement of `Gap9Calls`, `CallsReturn`, no deadlock | any calls, any number of packets missed behind an answer, 3 damaged packets: a request, one lost behind it, and one more |

**Proved** (`Gap9LinkProofs`), from `InTime` (`GAP9_TICKS = 0`), for any number
of damaged packets and of packets missed behind an answer: `LinkInvariant`, that `Inv` holds, and
`LinkImplementsCalls`, the refinement.  `Inv` is inductive: it says for every
place of the GAP9 where the STM32 can be.  The assumption is used in one step
only, a tick of the clock: a packet that has not been handled lets no tick pass,
so the STM32's delay is not over before the GAP9 waits again
(`BeforeTheWait`, which also says what may have been missed behind an answer).
From `Inv` each step of the link is a step of `Gap9Calls` or
leaves its variables alone.

## 10. The ToF sensors: `TofDaq`, `TofDaqProofs`

`tof_task` reads four sensors in turn into `tof_data_buf`, retries a failed read
for ever, and gives a semaphore after each round; the mission task takes it and
makes a pose of the four matrices.  Nothing locks them.

A matrix is the parity of the round it was read in.  The driver, the values, and
`tofSemaphore1`, which nobody takes, are left out.  *Assumed* (`MissionRuns`):
what the mission task does between the end of its wait and the copy of the
matrices is shorter than a read over I2C.  What it does with a pose afterwards
(radio, queues) may last any number of rounds.

`FrameWhole`, that all four matrices of a pose are of one round, holds by a chain
that no line of the code mentions: a semaphore given while the task was busy is
stale when it is taken, but a pose was acquired just before, so this frame is one
of those skipped by `loop_cnt++ % 2`.  The first frame is the exception: its
semaphore was given during the two seconds the mission task waits
(`app_main.c:126`), and TLC finds a first pose made of two rounds.  The flight
task reads single matrices without any semaphore and is not in this module.

| Run | Shows | Bounds |
|---|---|---|
| `tof` | `FrameWhole` (with `TypeOK`), `PosesKeepComing` | none: 4 sensors and 10 retries as in the code |

*Fairness:* both tasks run, and a sensor that was started has a new frame again
and again (strong fairness of `ReadSucceeds`: reads that fail may come between).
A sensor that does not start leaves the drone without poses: `tof_matrix_init`
returns an error that nobody reads.

**Proved** (`TofDaqProofs`), for any number of sensors and retries:
`FrameWholeTheorem`.  `FrameInv` adds to `FrameWhole` that the sensors before the
one being read have been read in this round, and that a frame which will be used
is whole from the give of its semaphore on.

## 11. What is checked and what is proved

Proved for every value of the constants, under the assumptions named in the
sections above: the safety properties of the ring, of `ScanManager` and of
`ExternalScans` (among them the action property `UpdatesApplied`), those of
`PoseGraph`, `SparseMatrix` and `Exploration`, `Inv` of the link, `FrameWhole`;
of the solver the matrix *H*, the permutation, the factor and the solution;
and three refinements, of `TokenPassing`, `Gap9Calls` and `FlightScan`.
Only model-checked: `InCuthillMcKeeOrder` of the solver, that its team never
deadlocks, and liveness.  Liveness (`EveryDroneGetsToken`,
`AllOptimize`, `ScanUnlocked`, `CautionEnds`, `CallsReturn`, `PosesKeepComing`)
rests on fairness and ENABLED, which are out of the prover's reach.  So are the
library's induction theorems, as they take an operator as a parameter.  A loop of the
code is therefore a fold over a sequence of numbers, and each theorem about one an
argument of its own: the function of the fold exists (`FoldExists`), and a claim about
its first `k` steps that fails has a least `k` at which it does.

Deadlock is checked in `TokenRing`, `ScanManager`, `Exploration`, `LsSlam` (where
the end of the optimisation is a step of its own, `Finished`), `Gap9Link` and
`TofDaq`.  In `PoseGraph`, `ExternalScans` and `SparseMatrix` bounded histories
(poses, scans, optimisations, an overrun matrix) end every behaviour, so their
configurations turn the check off.

Where the code does not do what its comments say:

* A second optimisation after a loop closure solves another graph (`graph_second`,
  section 4).
* An optimisation with three external constraints may leave one of them with a
  pose id where the solver takes a key pose (`graph_ext`, section 4).
* Between two poses that several edges join, *H* has the last of them and not
  their sum (section 7); `HAssembled` leaves these pairs of poses out.

A hazard in `PROJECT.json` without a property is one the code does not prevent, or
one whose size is out of a run's reach; its note says which.

Every property of a run that passes has a mutant: an operator next to the definition it
changes, marked *Mutant* in its comment, that breaks that property under the
same configuration.

## 12. Not modelled

* **Numerics**: linearisation, the values of the substitutions, ICP, projections
  and the median filter.  Floating-point results are data to the control
  modelled here; where control depends on one (a match or none, a distance) the
  model leaves it open.
* **Vendored code**: the ToF driver under `tof-matrix/drivers`, 24 000 of the
  repository's 31 000 lines of C, of which 22 000 are the sensor's firmware as a
  table of bytes.  It is external to `TofDaq`.
* **Two users of the SPI link**: after four minutes the mission task requests
  poses while the UWB task still runs; the buffers are static and nothing
  serialises them.  The mission is over then.
* **A damaged packet that passes for another command**: the command byte is under no
  checksum (section 9).
* **Capacities** of the tables on the GAP9, but for that of external scans, and what
  happens when they are exceeded.
* **Loss of the token's holder**: the code creates no second token.
* Radio logging and the ground station do not feed back; DMA transfers are
  copies that complete before they return; the deck is hardware.

## 13. Plan

1. Upon `SolverProofs`: the order by degree of `InCuthillMcKeeOrder`, from a proof
   that `heapsort` sorts.
2. The composition of `Exploration` with `ScanManager`'s view of a spin, so that
   the pace of two scans, `ScansApart`, follows from the times of the flight task.
3. A second drone in `Exploration` with a state of its own: whether two drones
   that see each other can hold one another in caution.
