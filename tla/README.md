# TLA+ models of arm_control

`arm_control` drives robot arms, single or in pairs, from a Python supervisor
process through `arm_rt`, a C++ real-time servo process. This directory models
the parts whose correctness depends on the order in which threads, processes and
packets act; TLC checks the models on small instances, and TLAPS proves theorems
about some of them for every value of their constants.

## 1. The system

A client (console, planner, teleoperation loop) calls a supervisor over a local
socket. The supervisor owns one arm: it keeps the ledger of motion executions,
grants ownership to one client connection, asks the RT server to ARM and DISARM,
and runs a 100 Hz loop that steps an `ArmController` and sends its command. The
RT server runs the servo at a fixed rate: it admits commands from UDP, writes the
plant, latches faults, and streams state packets back. Three things decide
correctness: authority (who may move the arm, in which ARM generation), evidence
(what the supervisor may conclude from packets that are lost, repeated and
reordered), and ends (every execution and every authority request ends, once).
Around this core stand the coordinator that plays two arms as a pair, the
teleoperation node, the gripper behind a bridge process of its own, and the RT
servers' shared-memory record that keeps several arms of a group together.

| Part | Source | State | Operations | Talks to |
|---|---|---|---|---|
| Mailbox | `rt/include/arm_rt/mailbox.hpp` | three slots, the middle word with its FRESH bit | `write`, `read` | between any two RT threads |
| RT server | `rt/src/server.hpp`, `control_session.cpp`, `udp_link.cpp`, `rt_loop.cpp` | fault latch, `armed`, ARM and DISARM generations, session, command mailbox, `plant_ok`, `seen_gen`, `stop_epoch` | ARM, DISARM, session end, fault notice, datagram admission, servo tick | client over TCP and UDP; plant backend |
| Group records | `rt/include/arm_rt/group_record.hpp`, `rt/src/control_session.cpp`, `rt_loop.cpp` | shared-memory slots under a seqlock; `g_slot`, `group_done`, `group_peer` of each server | join, commit, release, watch the peers, leave | the other arms' RT servers |
| Native references | `rt/include/arm_rt/reference_selection.hpp`, `mode_selection.hpp`, `rt/src/control_session.cpp`, `rt_loop.cpp` | uploaded references, the published command, the servo's selection, selected mode | upload, commit, revise, cancel, select, retire | control thread to servo |
| Hand bridge | `rt/src/hand_admission.hpp`, `hand_*.cpp` | admitted action, entered flag, stop token, result queue | admit, enter, stop, answer | gripper SDK, bridge client |
| APPLIED rule | `arm_control/plants/remote_rt/observation.py` | newest packet, candidate and confirmed seq of the ARM epoch, fault seen | feed a packet, note a DISARM, what is confirmed, whether a fault was seen | client, supervisor |
| RT client | `arm_control/plants/remote_rt/client.py` | latest packet, ARM epoch, fault latch of the session | `enable_all`, `safe_stop`, receive and control threads | RT server |
| Supervisor runtime | `arm_control/supervisor/runtime.py` | `_executions`, `_owner`, `_pending`, `_authority_fault`, `_tracker` | claim, submit, release, cancel, supersede, arm, disarm, hold, setpoint, the loop's step | clients, controller, RT client |
| Execution contract | `arm_control/execution/contract.py` | phase of an execution | receipts, supersession | supervisor, clients |
| Arm controller | `arm_control/control/arm_controller.py` | staged plan, running leg, jog, pose hold, armed, readiness | one per event, and `tick` | supervisor |
| Pair coordination | `arm_control/multi_arm`, `arm_control/ui/supervised_hardware.py` | the pair's members, staged, released, cancelled; a handle per member | stage, release at one stamp, cancel, watch | two supervisors |
| Teleoperation | `arm_control/leader_follower`, `nodes`, the Dora bridge of one arm | leader sample and its age, engaged, safety verdict, jog in flight | prime, open, align, loop, close | leader bus, bridge, supervisor, controller deadman |
| End effectors | `arm_control/end_effectors` | request under way, grasp state, what the bridge last said | grasp, move, stop, tick | hand bridge, authority of the arm |

`PROJECT.json` lists every part, with the ones that are not modelled.

What is hard here, and what would make each part correct:

* **Fault latch.** Servo and control thread claim one word by compare-and-swap;
  a DISARM clears it, an ARM prepares a new generation under it. One owner at a
  time, the first cause whole, no ARM over a fault, and every fault of an armed
  generation latched.
* **Generations.** `armed` is a level and `arm_gen` an edge, read one after the
  other by the servo while both may change. Commands and torque sessions must
  not cross a generation, and a DISARM must be confirmed only by a tick that saw
  it.
* **Evidence.** `last_cmd_seq` advances before the plant has accepted the write,
  and the packet that says so may arrive late or twice: APPLIED must mean that the
  plant accepted, across the wrap of the packet numbers too.
* **Authority round trips.** An ARM or DISARM times out, its answer arrives
  later and may be taken for the answer to another request.
* **Ledger.** Client calls, controller events, RT evidence, timeouts and
  disconnections all end executions. Each receipt must be legal where it falls,
  one execution is live at most, and the controller holds exactly what the ledger
  says.
* **Ownership.** A connection may end with its operations still queued; nothing
  may go on moving for an owner that is gone.
* **Pairs.** A release is two calls to two processes, each of which may time out
  with its call still queued. A confirmed cancel must be one, no member may start
  after the other, and a member left alone must be stopped.
* **Groups.** A slot has two writers in one process and readers in others, and a
  writer may be killed inside a write. Nobody may follow a reference of the group
  before all have committed, and nobody may go on after a peer has gone.
* **References.** A cancel may overtake the commit it withdraws on its way to the
  servo. A withdrawn reference must not be followed.
* **Deadmen.** A teleoperation node that ends, hangs or loses its leader must leave
  neither a jog nor an ARM behind.
* **Gripper.** A stop may reach the device before the action it stops has entered
  it, an answer may belong to an earlier request, and a lost session may leave the
  fingers moving.

The `hazards` of `PROJECT.json` list these at their lines, with the properties
that would catch each one. The few that no property covers say why.

## 2. Modules

| Module | Models | Correspondence |
|---|---|---|
| `Mailbox` | the triple buffer `Mailbox<T>` of `mailbox.hpp` | one action per shared access: `FillLo`, `FillHi`, `Number`, `Publish` for `write`, `Look`, `Take`, `CopyLo`, `CopyHi` for `read`; a value has two halves, so that a torn copy is visible |
| `RtServer` | control thread, `udp_rx` and servo of one RT server | every store of `latch()`, `CTL_ARM` and `CTL_DISARM` and every sample by the servo is a step (`LatchFill`, `LatchFault`, `LatchSet`; `Arm`, `Prepare`, `FreeWord`, `Raise`; `Disarm`, `ClearClaim` or `ClearTimeout`, `ClearFault`, `ClearReset`, `Bump`; the tick from read to publication) |
| `AppliedRule` | `AppliedTracker` and the serial-number comparison | pure operators: `Newer` (modulo `SeqMod`), `Enter`, `Judge`, `Feed`, `DisarmSent`, `Confirmed`, `FaultSeen` |
| `GroupRecord` | one slot of `group_record.hpp` | the seqlock one access at a time: `Load`, `Cas`, `Check`, `PutState`, `PutBody`, `Leave` for the two writers of a server, `ReadLoad` to `ReadCheck` for a reader; `Kill` inside a write and `ResetSlot` by the successor |
| `Reference` | references and modes between control session and servo | one action per session request (`BeginUpload`, `Seal`, `AbortUpload`, `Commit`, `Cancel`, `ModeSelect`, `Disarm`, `OptIn`, `ArmEpoch`, session end, accept); the tick in four steps, `TickSample`, `TickMode`, `TickSelect`, `TickReport` |
| `Group` | one member of a group and its peers | extends `Reference` with joining (`GJoin`), committing (`GCommitCheck`, `GCommitWrite`), cancelling, the control thread's watch over its hold (`WatchReleases`, `WatchEnds`) and the tick's stamps and check of the peers; a peer is any process that keeps `SlotStep` |
| `Pair` | the pair coordinator over two supervisors | the console's pump, the coordinator's thread, one worker per SDK call, the calls that time out and stay queued, the supervisors' executions; cancels go out in either order, since `_send_cancels` goes over a set |
| `Teleop` | the teleoperation node, its bridge and the arm's deadman | `prime`, `open`, align, the loop's tick with the safety monitor, `close`; the bridge's inbox and worker; the supervisor's loop and `jog_hold` |
| `Hand` | the gripper from request to fingers | the node's tick and grasp machine, the bridge client's lines, `HandAdmission` with server, actor and stopper threads, the device; the simulated bridge is a choice in `Init` |
| `StateStream` | RT server and client joined by UDP | composes `AppliedRule` with the servo at a coarser grain and a network that loses, repeats and reorders |
| `ExecutionContract` | `contract.py` | phases, which receipt may follow which, when a supersession is refused |
| `ArmController` | `arm_controller.py` | one operator per handler, from a controller record to the record after it, with the events and ARM/DISARM outputs it emits |
| `Supervisor` | `runtime.py` with `client.py` and the server it talks to | composes the three modules above: client operations, the loop's `Step` (health, authority drain, packet history, controller tick, send, reconciliation), the authority worker, the server's answers |
| `LatestRegister` | what `mailbox.hpp` promises | abstract: a read returns a value that was the newest at some moment of the call; `Mailbox` implements it with `newest <- published`, `asked <- rpc # "idle"`, `got <- out.version` |
| `RtServerProofs`, `RecordsProofs`, `SupervisorProofs`, `PairProofs`, `GroupProofs`, `NodeProofs` | | theorems about `RtServer`, the three parts of the records (`StateStream`, `GroupRecord`, `Reference`), `Supervisor`, `Pair`, `Group`, and three that share nothing: `Teleop`, `Hand` and `Mailbox` |
| `SupervisorOpsProofs` | | what each operation of the supervisor's loop does, for `SupervisorProofs` |
| `FoldProofs` | | folds over sequences and induction along them, for `SupervisorOpsProofs` |
| `MC*` | | what TLC instantiates; each `.cfg` names a run. `MCThreads` (mailbox and hand), `MCRecords` (state stream, slot, references) and `MCClients` (teleoperation and pair) are sums of parts that share nothing: one variable says which part runs |

Each module's `TypeOK` documents the values of its fields. The proofs establish those
of `Mailbox`, `RtServer`, `StateStream`, `Supervisor` and `Pair`, and state types of
their own for the parts whose module has none; no run spends a property on one.

A definition whose comment begins with `Mutant:` is a plausible mistake in the
definition that follows it. It is used by no specification; replacing the
definition by it makes one property of a run fail.

### What the models leave out of the code they cover

* `Mailbox`: the contents are one number per half; memory orders are taken as
  they are given (acquire and release on the exchanged word), so a slot's writes
  precede its publication.
* `RtServer`: ages and deadlines are choices. A command in the mailbox may be too
  old at any tick, and a silent stream may pass its CMD_LOST deadline at any tick
  without a fresh command. The group interlock, native references, mode selection
  and the fault journal's ring are not there. The 50 failed reads in a row that
  end the process appear only as fairness: reads do not fail for ever.
* `StateStream`: the servo's own latch is one step, since only its effect on later
  packets matters there. `MaxStall` bounds the ticks that may pass while the
  control thread is preempted inside `latch()`.
* `Supervisor`: streamed plans (`open_stream`, `revise_stream`), the native
  reference, the payload revision and the pruning of history are not there. A
  repeated `request_id` and a refusal that changes no state are stutters. State
  packets arrive in order or not at all (`StateStream` has the reordering), and a
  lost link is not reconnected. Commands are numbered by the latest execution
  whose first command has been sent: that is all the ledger can tell of a seq. A
  packet may arrive in the middle of a step (`mid`), after the health has been
  read and before the history. An illegal or repeated receipt leaves the entry
  `RAISED`, where the code would raise; `LedgerLegal` says that does not happen.
  `beat` is the parity of the loop's steps, so that fairness of the loop can be
  stated; it does not count unless `Paced`.
* `GroupRecord`: a slot's fields are two halves with the number of their write; the
  values themselves are in `Group`, where a write is one step.
* `Reference`: curves and their evaluation, the deadline of a reference's start and
  the dynamics envelopes are data or choices: a reference may underflow at any tick.
  The floor under the age of commands in a mode change is not there (remark f).
* `Group`: one server step by step, its peers by what the record lets them do
  (`SlotStep`, which the server itself is shown to keep: `SlotKept`). The mode does
  not change inside a group, and a client commits once per group, as
  `multi_arm/group.py` does.
* `Pair`: a trajectory is its identity; the start stamp is a time that has or has
  not passed. A supervisor is its executions and the queue of its loop; the ledger
  in full is in `Supervisor`.
* `Teleop`: joint values are "near" or "far"; time is a tick of ages saturated at
  their limits. The mapping from leader to follower and the leader's own reading
  are data.
* `Hand`: widths are open, closed and on the object; waits end by a choice, a device
  action ends when it likes or never.
## 3. Runs

| Run | Bounds | Shows |
|---|---|---|
| `threads` | mailbox: 3 writes; hand: 1 request and a loss of authority at any time; fair | mailbox reads are whole, the last value is read in the end, `Mailbox` implements `LatestRegister`; an action under way when the arm loses its authority is stopped |
| `rt_server` | 2 generations, 1 DISARM, 2 sessions, 1 command, 2 faults; ARM at any time | the latch is coherent, notices are true, commands and torque sessions stay in their generation |
| `rt_server_live` | 2 generations, 2 DISARMs, 2 faults; ARM after a confirmed stop; fair | a refused write is latched; a DISARM reaches the state stream; a latched fault reaches the client or is cleared |
| `rt_dead_plant` | as above, 1 fault | *finding*, below |
| `records` | stream: 2 generations, 2 commands, 3 packets numbered modulo 8 from 7; slot: 2 writes, 1 kill, 2 tries of a read; references: 2 with 2 revisions, 2 commits, 4 cancels, 1 mode change in one epoch, and 1 over 2 epochs and 2 sessions | APPLIED means accepted; a fault closes the generation; a slot is read whole and never stays shut; a withdrawn reference is not followed |
| `supervisor_ledger` | 2 executions, gated or not; RT faults | legal receipts, ledger and controller agree, APPLIED means the servo took a command of this execution |
| `supervisor_scenes` | 2 clients, 1 execution, with jog, preset, hold, disconnection, stale state; 2 ARMs and a DISARM beside those of `_owner_lost` and faults, with late answers | nothing moves without an owner; one source of motion; a supervisor at rest and disarmed is followed by no ARM |
| `supervisor_live` | 1 execution, 1 ARM; late answers, lost link; fair | a finished leg is judged, every authority request is answered, a fault stops the leg |
| `pair` | 2 pairs, 1 trouble, 1 undelivered event, 2 queued calls | a confirmed cancel is one; no member is released after its partner plays |
| `clients` | teleoperation: 1 upset, timeouts of 0 or 1 ticks, a collision check every 2nd tick, 1 queued jog; pair: 1 pair, 1 trouble; fair | at most one jog follows bad news; a node that is over leaves no jog and no ARM; silence ends it; a pair ends, and an arm left alone is stopped |
| `hand` | 2 requests, 1 upset of each kind, 2 undelivered lines | what the node takes for idle is idle; a voided action inside the device is being stopped; a success is one; no position move starts over a held object |
| `group` | a 2nd group right after a DONE first one, 2 references, 2 commits, 1 contended write or cancel, 1 peer | nobody follows a reference of the group before all have committed; no slot that says FAULTED or DONE is overwritten but as listed; nobody goes on after a peer has gone |

Why the bounds are enough to meet the cases. Two ARM generations make every
stale-generation case possible: a third repeats the second. Two faults let one be
latched over, or behind, the clearing of another; two sessions let a command of a
dead session arrive in a live one. Three packets starting at 7 modulo 8 cross the
wrap of the packet numbers with at least one packet on either side, and
`2 * MaxTicks < SeqMod` keeps the live window below half of the numbers, as the
code's comparison needs. Two executions are what supersession, cancellation and
a late event of an ended execution take; two pairs are what a call left over from
the first takes to meet the second; two requests of the hand, an answer that
arrives for the wrong one. `Earlier = 1` starts the group run where a first group
has just ended DONE: that state is one `Group` reaches from `Earlier = 0`, and it is
where leftovers of the first group can harm the second. One trouble or upset at any
moment is what the code handles; two at once leave nobody to act. `Trouble`, `Uses`
and `Upsets` choose what goes wrong; between the runs every action occurs.

Deadlock is not checked: bounded counters let every model stop for that reason
alone. Where a thread could wait for ever, a liveness property says that it does
not.

### Fairness

* `Mailbox`: the reader (the servo's tick, which never stops) goes on; a writer may
  fall silent for ever, also inside `write`.
* `RtServer`: the servo never stops for ever, and its reads do not fail for ever
  (after 50 failures in a row the process exits, `rt_loop.cpp`); the control
  thread finishes what it began. Clients and the network owe nothing.
* `Supervisor` (`FairSpec`): the loop takes steps for ever; the worker, whose
  waits have deadlines, the server's control thread and the client's control
  thread go on; queued `_owner_lost` calls run; the completion grace period ends.
  No client need do anything and no state packet need arrive.
* `Pair`: the console's pump ticks, the coordinator's thread and the workers go on
  (each SDK call has a timeout), the supervisors' loops run, a lost connection is
  noticed, the lead time passes. No user need press anything.
* `Teleop`: the node's code goes on until it ends, unless it hangs (an upset); the
  bridge takes messages and notices the end of its node; worker, supervisor and
  controller run; time passes.
* `Hand`: the threads go on and lines arrive; an action inside the device need not
  end by itself, and a lost session need not return.
* `Group`: the server's control thread watches and its servo ticks. Peers owe
  nothing.

### Findings

`rt_dead_plant`. A comment in `rt_loop.cpp` says that a plant that fails to read
while disarmed needs no latch, because the first armed write latches again. If the
tick that consumes the new generation's edge sampled `armed = FALSE`, a failed read
just after it clears `plant_ok`, and no edge is left to set it: every armed tick
suppresses its write, and nothing latches.

### Remarks

Met while modelling: places where a comment says more than the code does. The
properties above are stated so that they hold with these.

* RT server. `server.hpp` says that every fault of a new generation can latch. A
  servo that sampled `armed` before a DISARM and the generation of the ARM behind
  it meets the word `ARMING` with a refused write: the cause is journaled, not
  latched. A client that waits for its stop to be confirmed before it arms, as this
  supervisor does, does not meet it (`RejectedWriteLatched`).
* RT client. `safe_stop` says it returns True only when the drop of authority is
  confirmed. An ack carries no request number; the late ack of an earlier DISARM
  can confirm a later one while an ARM, queued between them, waits at the server.
  `DisarmWins` is what remains true: the DISARM behind that ARM is on its way.
* Supervisor. Armed state packets may overtake the ARM ack that carries the epoch;
  the execution's first command is then sent and recorded with epoch 0, the server
  drops it, and the execution can only end FAULTED.
* Pair. `ui/supervised_hardware.py:222-228` says that one arm never plays a pair leg
  alone. A release that is refused or lost on one side leaves the other playing
  until the coordinator cancels it: `LoneLegStopped` is what holds.
* Teleoperation. `_startup_align` runs before the `try` of `loop.py:130-131`: if it
  raises, ARM has been sent and no DISARM follows, against the comment of
  `dataflows/leader_teleop_franka.yml:12-16`. A STOP during `prime()` lets `run()`
  ARM, align to zeros and send one jog, against the docstring of
  `dora_feedback.py:189-193`. Motor health that still says disarmed when the first
  tick runs is a safety stop. `motor_state` is stamped when it is drained. In the
  warning zone the monitor's `_prev_target` is the unscaled target
  (`safety.py:340`, `loop.py:113-116`).
* Hand. Homing is guarded by `is_grasped` when it is requested, not when it starts
  (`franka_adapter.py:97-98` says "never with an object"). A loss of authority
  can report a failed grasp twice.
* Groups and references:
  (a) a session's end writes CANCELLED from any state (`control_session.cpp:870-878`),
  also over FAULTED, which `group_record.hpp:17-19` calls sticky;
  (b) COMMITTED is written from any state (`control_session.cpp:547`) and may replace a
  FAULTED that the servo mirrored just before;
  (c) a GROUP_CANCEL handled between the tick's store of `reference_done`
  (`rt_loop.cpp:388`) and of its feedback (393), with no earlier reference in the
  epoch, finds nothing to retire and answers OK while the reference just selected
  goes on, against `control_session.cpp:242`;
  (d) a member that trips may still be released for one tick;
  (e) `reset_slot` makes the sequence even over a killed writer's half-written slot,
  and a reader may take it for whole until the successor has written
  (`group_record.hpp:74`);
  (f) the mode's floor is sampled (`rt_loop.cpp:259`) before the command is read (273):
  an envelope stamped between the two passes it in the confirming tick;
  (g) a member whose reference expired, or was cancelled on its own, keeps its slot
  RUNNING: the peers go on until CMD_LOST latches or the group is cancelled;
  (h) a second COMMIT in the same group after DONE would run unsupervised; the clients
  commit once per group.

## 4. Proofs

A theorem below holds for every value of the constants that the named assumption
admits: any number of commands, generations, sessions, clients, pairs, packets. Each
inductive invariant was checked by TLC on the run's instance before it was proved.
The proofs have one lemma per action, or per handler where an action calls several.

**The mailbox** (in `NodeProofs`), assuming `MaxWrites \in Nat`: `MailboxTypes`,
`MailboxSlotsDisjoint`, `MailboxReads` (never torn, never older than what had been
published when it began), `MailboxVersionsForward` (an action property) and
`MailboxImplementsRegister` (every step is a step of `LatestRegister` or a
stutter; it needs `NewestPlaced` for `Publish` and `ReadBound` for `CopyHi`). That
reads are whole is not inductive by itself. `IInv` adds that every slot but the
writer's holds a whole value and how far the writer's is filled (`SlotsWhole`),
that the newest published value is in transit while FRESH and the reader's
otherwise (`NewestPlaced`), and what a read in progress has taken and copied
(`ReadBound`).

**`RtServerProofs`**, assuming only that the bounds are naturals and `ConfirmedStop`
is Boolean (`RtServerAssumption`). Three arguments, one on top of the other.

* The latch: `RtServerTypes`, `RtLatchOwned`, `RtLatchCoherent`, `RtNoticesTrue`. The
  inductive invariant `IInv` is the types and `LatchInv`: `LatchOwned` and
  `LatchCoherent` themselves, what a thread inside `latch()` has stored so far
  (`LatchProgress`), that the control thread latches only as its session ends
  (`ControlInside`), that a reset that has lowered the flag keeps it low
  (`ResetProgress`), that the notice being sent was read from a latch that was set
  (`NoticeHeld`), and that what a bound admitted still fits it (`Bounded`).
  `LatchCoherent` alone is not preserved: the step that stores SET needs
  `LatchProgress` to know that cause and flag are in place, the step that frees the
  word after a DISARM needs `ResetProgress`, and both need `LatchOwned` to know that
  no other thread is inside.
* Generations: `RtCommandsScoped` and `RtPlantSessionScoped`. `CommandInv` follows a
  command from `udp_rx`'s hand through the mailbox to the servo's sample: at each
  place its generation is the epoch it was sent with, and the sample's is the
  generation the tick sampled. `SessionInv` says where a tick finds the torque session
  stopped: before it acts, if the tick before ran disarmed; when it publishes, if it
  ran disarmed itself. With it, the generation edge needs to stop the session only if
  the tick before was armed, as the code does.
* Rejected writes: `RtRejectedWriteLatched`, under `ConfirmedStop`, which is a
  hypothesis and not a convenience: without it the property is false (first remark
  above). `StopInv` follows the number of a DISARM from the control thread to the
  servo's sample, to `stop_epoch` and to the packet (`Handed`), so that a client that
  has seen it finds no armed tick under way (`Quiet`), and an ARM is not prepared over
  a servo that has just given up (`GaveUp`).

**`RecordsProofs`**, three parts that share nothing.

* The state stream: `StreamApplied` (APPLIED means that the plant accepted) and the
  action property `StreamFaultCloses`. `StreamInv` says what a *misleading* packet is,
  one that shows a refused command, armed and without a fault, and that no newer packet
  of its generation says the same (`LastWord`, `Unfollowed`), since by then the refusal
  is latched or the authority gone; with the numbers below half of `SeqMod` a later
  packet is known to be later across the wrap (`Numbered`), and the tracker, which asks
  for two, never confirms it (`Candidate`, `Evident`). `StreamApplied` has the
  hypothesis `MaxStall <= 1`: the thread inside `latch()` may miss one whole tick. With
  `MaxStall = 2` TLC finds it violated, two packets being published while the word is
  held unwritten, so the hypothesis cannot be dropped; what it asks is that no thread
  is preempted between two stores of `latch()` for two periods of the servo.
  `StreamFaultCloses` does not need it.
* A slot: `RecordReadWhole` and `RecordSlotOpen`, over any writes, kills and resets. The
  sequence number is a lock (`Locked`), the fields are as they were left unless its
  owner is past its check or was killed there (`Left`), and as long as a reader's number
  is still the slot's, its copy is what the slot was left with (`Copying`).
* References: `RefWithdrawnStops`. A withdrawn reference that is still followed is under
  a fence that the tick has yet to read (`FenceAhead`); that a commit overtaken by its
  cancel is not fresh, and that ids are not used again, is `NotReused`, for which the
  cancel generations must not run ahead (`Behind`) and ids and generations must have
  been handed out (`Known`).

**`FoldProofs`**. The loops of the supervisor are folds over sequences of unknown length,
and the library's induction theorems take an operator as a parameter, which no installed
prover can instantiate. Here the operator and the predicate are constants of the module:
`FoldKeeps`, proved from the least element of a set of naturals (`NoneFirst`), is instantiated
for the loops in `SupervisorOpsProofs`.

**`SupervisorOpsProofs`** and **`SupervisorProofs`**, from `SupervisorAssumption` (bounds are naturals, scenes are well
formed). The first has one lemma for each operation of the loop thread, as a function of
the record of the state; the second the steps and the theorems. The inductive invariant
`Inv` (`SupervisorInv`) has five parts.

* What surrounds the supervisor: clients, wire, server and link have their types, a lost
  session carries no request, and no packet reports more than the server has taken, nor a
  fault but one of its generation (`LinkOK`, `Warned`).
* The faults: a server at fault is armed, and while the session is up the fault is the arm's
  (`ServerOK`); a fault that a packet or the tracker tells of and that is still on is shown
  by the last packet (`Shown`).
* `Rest`, which holds whenever the loop thread is between two operations: every entry of
  the ledger is one that legal receipts lead to and one is live at most (`Ledger`), the
  outbox is empty and the plan the controller holds is carried by the ledger (`Steady`),
  and every unfinished execution is that plan (`Held`). Inside an operation it holds with
  exceptions (`Mid`, `Ending`), which the handlers' lemmas pass on to each other.
  The controller's leg runs past a FAULTED receipt only while the fault that the tracker has
  seen is on at the server (`Runs`, `Excuse`).
* `Whole`: what the tracker and the ledger take for applied, the servo has taken, and with
  no time-outs the leg under way is of the generation the server is armed with (`Evid`,
  `Dated`); the authority requests not yet answered are in an order in which the last one
  is what the controller wants (`Guarded`), and with no time-outs what the link knows of
  the generation is the server's (`Agreed`).
* With no owner nothing is left to finish and no setpoint is live (`Idle`).

From it: `SupervisorTypes`, `SupervisorLedgerLegal` (no receipt is ever refused or
repeated), `SupervisorAppliedTaken`, `SupervisorOneSource`, `SupervisorTracked`, and three
with a hypothesis on the scenes:

* `SupervisorDisarmWins`, where no scene is both slow and down. With both, the late ack of
  one DISARM passes for that of another that was lost with its session (TLC finds the
  behaviour).
* `SupervisorPlanTracked` and `SupervisorNoOwner`, where no scene is both slow and faulty.
  With both, a DISARM that timed out arrives late and clears the fault at the server, and a
  packet without it is the latest before the next step looks (TLC finds that one too). The
  argument: the receipt is FAULTED because a packet of the leg's generation told of the
  fault; with no time-outs that generation is the one the server is armed with (`Dated`)
  and stays so while the controller wants the arm armed, since a DISARM comes from the
  controller only after it has dropped the leg; so the fault is still on, and the last
  packet shows it (`Shown`). `SupervisorTracked` states the clauses that need no hypothesis.

**`PairProofs`**, from `PairAssumption` (two arms, positive bounds): `PairSafe`, `PairTypes`,
`PairClearedIsOver` and the action property `PairNoLateStart`. `PairInv` says:

* nothing is known of a pair before it is staged (`Fresh`), staging is the first thing
  done for it (`Staging`), and an arm holds one execution at a time (`OneLive`);
* a handle knows what its supervisor holds or knows that it does not know: a submission that
  timed out and is still queued is always a staging of unknown outcome (`Known`). This
  is why a confirmed cancel is one: what is reported cleared is over from the report on,
  and the outcome of its staging is settled (`Truth`, `Cancelling`);
* no member has been released before the release is sent, and both are held when it is
  (`Held`, `Ready`); sending is the last thing the thread has to do, and nothing plays while a stamp
  is ahead. A supervisor takes a release only while it is ahead (`SelectsAhead`), hence no
  late start.

Most actions are *mild*: they move no execution towards playing and add no release
(`MildStep`, `CoreStep`), and share one argument. `StagePair`, `StageMember`,
`ExecutePair` and `Send` have their own.

**`GroupProofs`**, from `GroupAssumption` (this member is not one of its peers, at most one
group came before): `GroupSafe`, `GroupStartTogether` and the action property
`GroupSlotKept`. Of the peers nothing is assumed but that they change their slots as
`SlotStep` allows or start again, and `GroupSlotKept` shows that this member does no more, so
what is assumed of the others holds of every member that runs this code. That nobody starts
alone is about one reference, the one followed; `GroupInv` traces it back to the slots:

* a commit that is published, read or followed is of no group or of one that all have
  committed to, and a peer whose slot says COMMITTED, RUNNING or DONE has (`OnTheWay`);
* a commit that is held is of the joined group, its ticket the next to be published. One that
  is released but not yet published is complete already, and stays so whatever the slots say
  by then (`Holding`);
* tickets are answered after they are published (`Tickets`), so that a held commit is never
  taken for answered;
* the member's slot is of the group it has joined, or was in last, and says STAGED or FAULTED
  until it has committed (`Mine`). The tick writes under the id it finds in the shared group
  state, the control thread under its own; that both are the slot's is what makes every write
  go on in the same group.

The tick's three writes in a row (a stamp, DONE, the mirrored fault), and the CANCELLED of a
trip after them, are shown to amount to one step that `SlotStep` allows (`RecordedIs`).

**`NodeProofs`**, the nodes beside the supervisors: two parts that share nothing (the third is
the mailbox, above).

* `TeleopBlindAtMostOnce`. Past a feedback check that let the loop go on the node knows of
  no bad news, and it takes in none before the next check, so one jog at most is sent in
  between (`BlindInv`).
* `HandStopMeansStopped`, for the RT box's bridge and the simulated one, whatever a client
  sends. `StopInv`: what is inside the device is the action the admission has committed to,
  and that one is current unless a stop is under way. The actor is where the admission says it
  is, so that a stop that finds nothing acting (`Final`) knows that nothing is between
  `begin_action` and the SDK call; a disconnect asks for a stop whenever something is
  committed, so that the next `Accepts` finds none that only the epoch would withdraw.
* `HandIdleMeansStill`, `HandOkIsTrue` and the action property `HandNoMoveWhileHeld`, all from
  one invariant (`HandSafe`), for any number of requests, lost links, lost sessions, failed
  stops and dropped objects. The properties speak of the node and of the device, which
  never meet: between them are lines in both directions, of more than one connection, and the
  epochs they carry. So the invariant says where everything may be.
  * *What was measured stays true of its epoch* (`ViewInv`). A state line that says "measured,
    not busy" of epoch `e` was true when it was written: the bridge was ready in `e`. It is still
    ready there if `e` is still its epoch, and whatever it does later was admitted in `e` or after
    (`Quiet`); if no object was held, none is while the epoch lasts (`Empty`). Every step of
    the bridge keeps both (`Evolves`, `MeasuredStays`), so they hold of a view wherever it is: in
    a line, with the client, or in the command decided on it.
  * *One command at most is of the epoch in flight* (`TokenInv`). With nothing in flight and
    no stop under way every command, pending action and verdict is of an epoch before the
    client's (`Below`); with one in flight there is one exception, and it is that action:
    on its way up, pending, with the actor, finished, or its verdict on its way down
    (`AllBut`). The bridge's threads only pass it on (`HandsOn`, `PassedOn`). That is why a DONE
    that carries the epoch of the action in flight is about that action.
  * *One stop at a time* (`StopLines`): unsent, on its way, acknowledged on its way, or
    acknowledged, and in the last two cases everything else is of an earlier epoch. A view
    that ends the wait is therefore one that nothing older can contradict.
  * A line is read, and an epoch known, only on a connection that the bridge serves
    (`LinkInv`); a move that is pending or under way has met no held object (`BridgeInv`).
  * *The node was told the truth* (`NodeInv`): the verdicts kept for it name actions that the
    device finished well, the ones for the grasp machine are about the grasp it waits for, and the
    pending request was told nothing yet. A tick of the node passes six stages; `Ticks` is what
    each may do to node, client and results, and is closed under composition (`TicksTwice`).

  Idle means still then follows: an idle view is of an epoch `e` in which the bridge was
  ready, everything on its way or under way is of an epoch before `e`, and what is under way
  would have to be of `e` or later.

Proved and not run: the type theorems, the inductive invariants, `MailboxSlotsDisjoint`,
`MailboxVersionsForward`, `RtLatchOwned`, `SupervisorTracked` and `FoldKeeps`. The other
theorems state properties that a run checks too.

Model-checked only: every liveness property, since the prover has no fairness (`PairEnds`,
`LoneLegStopped` and the rest), and the finding, which is a counterexample. Every safety
invariant that a run checks is a theorem.

## 5. Plan

Modelled and checked: the mailbox, the RT server, evidence, supervisor, pair,
teleoperation, hand, group records, references and groups. Left, in order of weight:

1. The native reference of the supervisor (`plants/remote_rt/reference.py`, the native
   and stream parts of `runtime.py`): staging, approval, polling and cancelling with one
   worker, the drop of an execution confirmed by the RT server, a selection that stays
   unresolved, revisions of a running stream. Properties: a CANCELLED receipt means that
   the RT server holds no such reference; a candidate slot is freed in the end.
2. The group start (`multi_arm/supervised_group.py`): one member failing to join, to be
   staged or to be released.
3. Receipts redelivered (`contract.py`), the fault journal's ring (`server.hpp`), the
   dynamics envelopes and the floor of a mode change.
4. Refinement: an execution's phases in `Supervisor` implement the contract's
   automaton; a group record implements an atomic one.

## 6. Not modelled, and why

Control laws, planning, calibration and model identification are floating-point
computations with no protocol state. Wire layouts, argument parsing, rendering and
consoles have no order to get wrong. Plant backends and the leader's serial bus
are device I/O: the models take read, write and stop as operations that succeed or
fail. The parts under 5 are to be modelled.
