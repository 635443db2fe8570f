# Formal verification of the QCC514x/QCC304x earbud

TLA+ models of the earbud application, the configurations that model-check them, and TLAPS proofs.
All paths are relative to the repository root, which is `src/` in `PROJECT.json`; `adk/src/topologies`
is written `topologies`, `adk/src/domains` `domains` and so on where nothing else has that name.

## 1. The system

A pair of earbuds runs one event-driven program. There are no threads in the application: every component
is a *task*, a handler called by the OS message queue for one message at a time, so a handler is atomic
and all interleaving is the interleaving of messages, timers and answers of the Bluetooth stack and of the
other earbud. What is hard is therefore order: a decision and the completion of what it overrides, a cancel and
the completion already in the queue, a timeout and the answer it gave up waiting for.

The core of the earbud is the *topology*, which turns events (in the case, link lost, shutdown) into work:

    events --> rules engine --decision message--> goals engine --start/cancel--> procedure
    (62-bit set)  |   ^                              |  queue of decisions        or script engine
                  |   +------ rule complete ---------+  conditional on locks       |  one procedure
                  |                                  ^                             |  after the other
                  |                                  +--- complete / cancelled ----+
    TwsTopology_Start/Stop, stop timeout, shutdown lock --> events, and TWS_TOPOLOGY_STOP_CFM back
    ------------------------------------------------------------------------------------------------
    application message queue: order by due time, delays, conditions, multicast, cancel, flush, retain

### Inventory

| component | state | operations | hard behaviour | what makes it correct |
|---|---|---|---|---|
| goals engine, `topologies/common/goals_engine` | active goals mask, pending slots with a lock each, number of queued messages | ActivateGoal (start, queue, flush, cancel, exclude), ClearGoal | decisions cross completions and confirmations; locks rewritten whenever a goal starts | only compatible goals together; a queued goal waits for active goals only, in turn, and always leaves the queue; the count and the slots match the messages |
| script engine, `topologies/common/script_engine`, `procedures` | state, script, next step, client callbacks | StartScript, CancelScript, step complete, cancel confirmed; delayed callbacks | completions already posted when the script is cancelled; late answers | each step reports once, a script answers once with what it was asked |
| TWS topology, `topologies/tws/common` | stopping state, role, handset, goal and rule sets | Start, Stop, stop timeout, about forty event handlers, goal decision handler | stop races its timeout, the shutdown handover and the goals under way | every stop confirmed once, cleanly; nothing left over from before it |
| application message queue, `os/.../trap_api_message.c` | ordered queue, delivered list, timer, event flag | send (later, conditionally, multicast), deliver, cancel, flush, retain, free, combine | clock wrap, conditions nobody watches, shared recipients | delivered in order, when due, to whom it was sent, freed once |
| rules engine, `common/rules_engine` | event bits, status per rule, parameter buffer | SetEvent, ResetEvent, SetRuleComplete, Check | a rule in progress blocks its events; completion by message id | an event stays set until its rules are done; no action twice for it |
| peer find role, `services/peer/peer_find_role` | state of the election, score, advertising and scan activity | find, cancel, score exchange over GATT | both sides act at once, links drop | one primary and one secondary |
| handover profile, `domains/bt/profiles/handover_profile` | role, state of the primary's procedure and of the secondary, device list, session | start, veto, marshal, halt, prepare, commit, cancel | any of 26 states may fail; both earbuds wait for each other with timeouts; messages of a cancelled handover arrive in the next | one primary; what was done is undone; the secondary is in step |
| mirror profile, `domains/bt/profiles/mirror_profile` | mirrored links, stream states | connect, start, stop | prims of the controller crossing | mirrors what the primary has |
| handover decision, `services/peer/hdma` | timestamps and recommendations | evaluate, throttle, timeout | timers racing events | a request answered once, none dropped |
| peer signalling, key sync, device sync, state proxy | channels, pending transmissions | marshalled messages | confirmations, disconnection | state converges |
| connection manager, pairing, peer pairing | links and their locks | connect, disconnect, pair | crossing connects | one record per link |
| scan, advertising, Fast Pair managers | client requests | request, release, pause | reference counts | scan type is the strongest asked |
| case comms, `domains/case*` | transmissions, retry timers | poll, response, reset | single wire, lost frames | delivered once |
| upgrade and DFU, `domains/dfu`, `libs/upgrade*` | persistent stage, block requests | sync, data, validate, commit, reboot | reboot at any step, relay to peer | both images or none |
| RWCP server, `libs/rwcp_server` | protocol state, last number in sequence, gap signalled | SYN, DATA and RST segments; acks and gaps | numbers modulo 64, lost segments and answers, sessions given up and begun again | data in order, once; nothing confirmed that was not delivered |
| GAIA, its GATT transport and the upgrade plugin, `domains/gaia` | packets in process, ATT streams, plugin and library connected or not | commands, data, more data, packet handled, connect, disconnect | answers to an earlier client on their way to the next one; flow control by a count | the source is read again unless a packet leaks; a count that is never wrong downwards; a handover meets no upgrade |
| power, `domains/power` | sleep and power-off state, clients | register, veto, prepare, cancel | clients that answer late | no power-off before all are ready |
| audio, telephony, media, UI, sensors, USB | DSP graphs, routes, volumes, lookup tables | mostly synchronous calls | preemption of routes | - |
| device database | attributes and their serialised form | get, set, store | power loss while storing | - |

`PROJECT.json` lists all components with what is left out and why, and 40 hazards, each at its line, with
the properties that cover it.

## 2. Modules

| module | models | composed with |
|---|---|---|
| `GoalsEngine` | the goals engine, its messages and its procedures | |
| `GoalScheduling` | what `goals_engine.h` promises of contention and exclusion, without queue, slots or locks | implemented by `GoalsEngine` |
| `GoalsEngineProofs` | theorems about `GoalsEngine` | |
| `ScriptEngine` | the script engine, nine kinds of procedures, the services that answer them | |
| `ScriptEngineProofs` | theorems about `ScriptEngine` | |
| `Procedure` | what `procedures.h` promises of a procedure | implemented by `ScriptEngine` |
| `TwsTopologyStop` | start, stop, stop timeout, shutdown lock, late pairing results, decisions | extends `GoalsEngine` |
| `TwsTopologyStopProofs` | theorems about `TwsTopologyStop` | |
| `RulesEngine` | the rules engine and the client that carries out its decisions | |
| `RulesEngineProofs` | theorems about `RulesEngine` | |
| `VmMessageQueue` | the application message queue | |
| `VmMessageQueueProofs` | theorems about `VmMessageQueue` | |
| `ReliableStream` | what the sender of a transfer relies on | implemented by `RwcpServer` and by `GaiaTransportGatt` |
| `RwcpServer` | the RWCP server, a client that keeps to the protocol, a link that loses segments and answers | |
| `RwcpServerProofs` | theorems about `RwcpServer` | |
| `GaiaTransportGatt` | the GATT transport, the upgrade plugin, the transport side of the upgrade library | extends `RwcpServer` |
| `GaiaTransportGattProofs` | theorems about `GaiaTransportGatt` | extends `RwcpServerProofs` |
| `HandoverProfile` | the handover of the primary role between two earbuds, failures and timeouts included | |
| `HandoverProfileProofs` | theorems about `HandoverProfile` | |
| `MC...` | tables and scripts for TLC | |

### GoalsEngine

`active`, `pending`, `count` are `active_goals_mask`, `pending_goals[]`, `queue_msg_count`. `msgs` are the
undelivered messages the engine has a part in, stamped when they are sent: decisions, queued
decisions, answers to procedures and confirmations of cancels. `Deliver` handles the oldest that is not
blocked, as the message queue does (module `VmMessageQueue` has that queue itself). `ActivateGoal` is one
disjunct for each path through `GoalsEngine_ActivateGoal`, each the whole handler with the queue reset and the
relocking it ends in; `ClearGoal` is `GoalsEngine_ClearGoal`. `proc` is what carries a goal out: a procedure
confirms a cancel at once, or (`AsyncCancel`) only when the answer it waits for has come; scripts share the
one script engine, and starting one while another runs is the panic of `script_engine.c:256`. A goal in
`Concurrent[g]` is one that the table lists for `g`; the assumptions `ConcurrencyLists`, `ScriptsRunAlone` and
`ExclusiveGoals` are facts of the table in `tws_topology_goals.c:85-238`.

The decision of a rule in `HandoverRules` has no goal of its own: the topology works the goal out of HDMA's recommendation whenever
the decision is delivered, from the engine's queue too. `recommended` is `handover_info.reason`, which `HandleHDMARequest` sets and
`HandleHDMACancelHandover` and `CreateHdma` zero; without it the goal is `GOAL_ID_NONE`, and `IgnoreNone` is the return at
`goals_engine.c:824-828`, before the decrement of `queue_msg_count`. `lost` counts the queued messages that have left the queue without
the count being told since it was last flushed, and is read by properties only.

`GoalScheduling` keeps a count of decisions asked for by each rule, and the goals that are active and
executing. A goal begins only if it fits those that are active; a cancel goal may drop others' decisions, an
exclusive goal the one it excludes, and a withdrawn recommendation (`Recommend`, `Forget`) the handover's; nothing else may. The refinement maps the two kinds of decision messages to
`asked` and procedures that are not idle to `executing`.

### ScriptEngine

`state`, `script`, `step` are the fields of `ScriptEngineTaskData`; `armed[p]` is the callback a procedure holds
(`complete_fn`, `cancel_fn`), `open[p]` the requests its service has not answered. The kinds were read from all
procedures of `topologies/tws/common/procedures`; the header of the module lists them. Five of the nine end with their step; the other four are
the step that stops LE broadcasts and the one that disables page scan, which may forget a cancel, pairing with the peer, which confirms a
cancel and goes on, and the dynamic handover, which may answer a cancel with the failure of an earlier attempt (`gave_up` is its
`handover_result`). The attempts of a handover that time out and are repeated are followed only where a repetition makes a difference. `DelayedCancel` is
`Procedures_DelayedCancelCfmCallback`, which withdraws a completion still in flight. `Procedure` is the
contract of `procedures.h`, from the caller's side.

### TwsTopologyStop

Adds the topology's own messages (`mail`), the stopping state, the shutdown prepare lock, the stop timeout, the
status of the stop rule, the role, and an application that starts and stops in turn and waits for one confirmation.
Both queues share one clock, so a decision and a stop request are handled in the order they were sent. The first
step of the stop script, which tells the topology that it has started, is part of the step that starts
the goal; the last two are `FinishStopScript`. The other event handlers are the environment's `DecideGoal`.

The shutdown prepare lock (`held`) is taken when a static handover command is sent and released by the confirmation of its
transmission, PEER_SIG_MARSHALLED_MSG_CHANNEL_TX_CFM, if the topology handles that: `twsTopology_HandleMessage` drops it while it is not
running (`HandlesTxCfm`). `commands` counts the confirmations to come. `pairing` is a search for the peer that goes on: `FindPeer` is the last step of its script, `FinishPairing`
its result in time and `PairLate` its result after the script was cancelled. Either result starts the topology if it is running, also
while it is stopping (`HandleProcPeerPairResult`), and the late one completes a step of another script, which then ends one answer early (`CompleteEarly`).

### RulesEngine

`set` is `struct rule_set_tag`: the events and the status of each rule. `RunRules` is the pass over the table, with the
local copy of the events the code keeps (`local`), and gives every outcome that the answers of the rules' functions
allow; `Complete` is `RulesEngine_UpdateRuleStatus`, by message id. `SetRuleComplete` is the client that has handled the
oldest decision and marks its rules complete, which runs the table again; `DropDecision` is the topology that is not
started. `answered` is history: how often a rule has been run or settled since its event was set. The rules of the
run are all those of the primary earbud for three events, in the order of the generated table (common rules first).

### VmMessageQueue

`queue` and `delivered` are the two lists, `event` and `timer` the two reasons the scheduler task runs,
`blocked` the conditions that are not zero. `left` is the rest of the recipients of the message being
handled: while it is not empty a handler runs and may do everything the API offers; system messages are raised
between handlers. `RunScheduler` is `trap_api_sched_msg_handler` up to the first handler, `Return` what follows
each handler. Time wraps at `W`; `Diff` is the signed 32-bit difference `VM_DIFF` (its overflow
wraps in the compiler used). The `at` of a message, its due time on a clock that never wraps, is read by
properties only. `Tick` keeps the distance between the due times in the queue below half the wrap distance, which
is 24 days in the code. A system message that is similar to a queued one is dropped or overwrites it: `Updates` stand for
the ids `replace()` knows, and of the ids of `similar()` (`Notices`) those in `Bare` are similar by their id alone; MESSAGE_PSFL_FAULT and
MESSAGE_TX_POWER_CHANGE_EVENT have no content (`system_message.h:189, 247`), so `Contents` gives them none and dropping the newer loses nothing.
Two ids that `replace()` exchanges are one id with two values. Out of the model: stream task handlers, pending queries, the log.

### RwcpServer

`protocol_state`, `last_sequence_number` and `out_of_sequence_status` are the fields of `SERVER_DATA_T`; the three cases
of a DATA segment are `InSequence`, `OutOfSequence` and `Duplicate`, in the order of `handleDataSegment`, and
`RwcpServerHandleMessage` is the switch over state and command. `rwcpSendNotification` may lose the answer: the sink
has no room, or notifications are off. `delivered` is what reached `GaiaRwcpProcessCommand` since the last SYN, and `upto`
in an answer is the payload it speaks of; both are read by properties only. The client is external: it sends
any payload of its window, again as often as it likes, takes cumulative acknowledgements, and gives a session up
with RST until the server has answered it. The ATT bearer does not reorder. The reserved command falls into the default branch, as an unexpected one
does. `accept_segments` is always TRUE (nothing calls `RwcpServerFlowControl`) and is left out.

What the sequence numbers need is in `RwcpAssumption`: `WindowMax + Window <= SequenceMax`, which the code meets
exactly (32 + 32 <= 64). With a smaller modulus a segment sent twice looks ahead of its turn instead of repeated, is
never acknowledged, and the transfer stalls.

### GaiaTransportGatt

`rx_packets_pending` is the count of `gaia_transport_gatt.c:42`; `reading` is the loop of
`gaiaTransport_GattReceiveDataPacketFromSource`, one packet at a time, because segments arrive while it runs; no message
is delivered meanwhile. `queue` is the message queue as far as these parts use it: commands and packets go to the framework by
message (`Gaia_ProcessCommand`), the library answers by message, and the stream raises at most one MORE_DATA. Each
operator named after a function of `upgrade_gaia_plugin.c` is that function with the library call it makes. GATT has
no `disconnect_req`, so a request to disconnect is confirmed and the link stays (`DisconnectReq`; the framework
does so before a handover). The next client finds the count, the RWCP server and the plugin as the last one left them.
The library sends data for its client by UPGRADE_TRANSPORT_DATA_IND whenever it has a transport (`SendDataInd`); `UpgradeDataInd` hands it to
the plugin's transport and, like the code, does not ask for one: without, the device panics and nothing is handled any more.

Left out: RFCOMM and accessory transports, the other GAIA features, upgrade data written to the command endpoint, the
marshalling of a transport at handover, and the plugin's notifications of role changes. `rx_packets_pending` is
eight bits wide; it cannot wrap before 250 commands are queued.

### HandoverProfile

Both earbuds run the same code and change roles, so every variable is a function of the earbud. `primary_state` is the index into
`States`, the table `state_handler_map`, of the state the blocking call `HandoverProfile_Handover` is in; each state is an action, or one
of an action's cases, and `Fail` is `handoverProfile_HandleFailureAsPrimary`: it goes through the completed
states and calls what `state_failure_map` has for each (`UndoneFor`), and CANCEL_IND is sent if START_REQ was. `undone` holds the work that is done and not undone; a state that fails may
have done part of its own (`PartlyDone`), and resuming a link, cancelling its preparation and putting the peer link back into sniff mode may fail, which
the code ignores: the work in `Unreliable`. The secondary's `HandleMessage` handles one message, whole; `waiting` says that the handler is
still blocked in `handoverProtocol_HandleMessage` for the next, at most two seconds (`MessageTimeout`). `inbox` is the L2CAP channel and
the source behind it: reliable and in order, as L2CAP is, but as slow as it likes, so every wait may run out of time; a message may not fit
the sink. `seen` is history, read by properties only.

Left out: connecting and disconnecting the profile and the loss of the link; the exchange of firmware versions (the self veto goes either
way); allocation failure in `HandleStartReq`; the contents of what the clients marshal; a handover without any handset. Assumed of the
libraries: the calls the code panics on succeed, and the busy wait for AclHandoverPrepared (`handover_profile_primary.c:367`), which has no timeout, ends.

## 3. Runs

Passing runs (all under 300 s with two workers):

| run | instance | what it shows |
|---|---|---|
| `goals` | two concurrent goals, one of which excludes and is excluded by a wait goal, a wait goal of two rules, two scripted cancel goals, one of them a handover that is recommended and withdrawn; 2 slots, 4 decisions | queue size, slots, locks and active goals agree with messages and procedures, and what executes is active, whatever order decisions, answers and confirmations come in; goals that wait start in turn, the queue drains, a panic needs every slot taken, and the engine implements `GoalScheduling` |
| `script` | two scripts of four and three steps over the five kinds that end with their step; 3 starts | each step reports once, nothing survives its step, a cancel is on its way to be confirmed, and a script is a `Procedure` that answers |
| `script_kinds` | four scripts over all nine kinds; 3 starts | no panic, and the client is answered once at most and with nothing it did not ask for, whatever its procedures outlive, forget or mistake |
| `topology_stop` | one concurrent and three scripted goals, pairing and becoming primary among them; 2 decisions, 6 requests, 1 shutdown | no timeout outlives its stop, a stop confirmed unasked needs one that has timed out, a panic while a slot is free that or a late pairing result, a successful stop leaves nothing running, every stop is confirmed unless it waits for a lock that stays set or was taken for repeated |
| `messages` | two tasks, lists `<<t1>>`, `<<t2>>`, `<<t1, t2>>`, delays 0 and 2, clock wrapping at 8 and starting at 6, timer limit 1, 3 messages, system messages with and without content | order, no lost wakeup, combining, retaining, cancelling for one of several recipients, delivery |
| `rules` | six rules for three events, two ids shared by two rules each; 4 settings, any resets, 1 lost decision | a rule in progress has its decision on the way; rules of an event run one at a time, once; an event is cleared when and only when they are done |
| `gaia` | modulus 4, windows 2, a transfer of 2 payloads from number 3 (it wraps), room for 2 segments and 1 answer; 2 packets pending, three commands, connects, disconnects and throttling at any time | data arrives in order and once; the source is read again unless a packet has leaked; nothing panics but data of the library that finds no transport; a handover meets no upgrade; a transfer that goes on completes |
| `handover` | two earbuds, the mirrored handset and one more, three sessions from each earbud; halting the active link may not be undone | a primary goes on only with answers of its own session; two primaries only between takeover and commitment, none only while the data is on its way, apart from two ways to lose that (below); of what completed states did only what cannot be undone is left; requests for performance add up; both earbuds come out of a handover |

Runs that find a violation, each of a statement in the repository:

| run | statement | what the code does |
|---|---|---|
| `goals_stale_cancel` | a cancel goal runs once no goals are active (`goals_engine.h:111`) | a goal cancelled twice is confirmed twice; the second confirmation clears its next run, beside which a cancel goal then starts |
| `script_stop_le` | after a cancel the engine is ready for a new script (`script_engine.h:145`) | cancelling the stop script at its LE broadcast step is never confirmed |
| `topology_stop_pending` | IsAnyGoalPending says whether goals are pending (`goals_engine.h:464`) | a queued decision dropped while the topology stops stays counted, which vetoes every handover from then on |
| `gaia_leak` | `rx_packets_pending` is the number of packets being processed (`gaia_transport_gatt.c:42`) | a packet that reaches the plugin once the upgrade is disconnected is never confirmed and stays counted; after four of them no data is read any more, over all later connections |

Seen while modelling and not kept as runs; the first seven are in the models, and the properties that meet them name them as exceptions:

- a handover decision whose recommendation is withdrawn while it is queued leaves the queue by the return on `GOAL_ID_NONE`, before the count is decremented:
  `GoalsEngine_IsAnyGoalPending` says TRUE until a cancel goal flushes the queue (`lost` in `QueueAccounted`);
- a cancel goal decided on again while another cancel goal is cancelling it is dropped as a duplicate together with the queue, so that neither
  runs (`Supersede` in `GoalScheduling`);
- a pairing whose step was cancelled reports all the same, and completes a step of the script that runs by then, though the comment at
  `tws_topology_procedure_pair_peer.c:69` takes it that nobody cancels it (`EndWithTheirStep` in the theorems about steps); a second search for the peer panics in most states of `peer_pair_le_init.c:129-141`;
- a dynamic handover that is cancelled after an attempt has failed answers with one more completion, which the engine ignores while it is cancelling, and the cancel is
  never confirmed; the step that disables page scan loses a cancel between the answer of peer find role and its own posted completion (`CancelsConfirmed`);
- the result of a pairing that a stop has cancelled starts the topology that is stopping, and a stop taken for a repetition meanwhile, which has no
  timeout, may not be confirmed (`restarted`); the cancel function of the stop script's last step panics and can be reached then, or once a stop has timed out;
- a confirmation of the static handover command that comes while the topology is not running is dropped, and start and stop requests wait for the shutdown
  prepare lock for ever (`LockIsReleased`);
- data of the upgrade library queued behind the loss of the link finds no transport and panics (`gaia_transport.c:343`; `DataIndPanics`);
- with a deferring rule before another rule of its event (`STATIC_HANDOVER_FAILED`, `tws_topology_twm_primary.rules:16-27`) the pass of `RulesEngine_RunRules` that
  clears the event runs the next rule again outside of it, and the next setting of the event is cleared before that rule is answered, where `rules_engine.h:143` says
  that setting an event makes its rules run (the tables of `rules` have deferring rules last, as the others have);
- `GoalsEngine_IsGoalQueued` reads slots that are given back only when the whole queue is empty; an excluded goal that is only queued stays queued;
- `MessageCancelFirst` goes on after a multicast that keeps other recipients; a task flushed while a multicast is being delivered to it is still called;
- a stop goal that outlived its timeout runs after the next start and confirms a stop that nobody asked for, where `tws_topology_client_msgs.h:29` says that the confirmation
  goes to the caller of Stop (`AskedUnlessLate` says that this needs a timed out stop).

In the handover profile, each named in the property that allows it:
a secondary that waits two seconds for the stack data gives up and tells nobody, while the primary may take 750 + 500 + 500 ms to halt a link
and twice 500 ms for the peer link, and then commits, after which no earbud is primary (`gave_up`); if the acknowledgement of that data does not
come before the supervision timeout the primary resumes its links and stays primary beside the new one, a state listed under "not expected to fail
under any circumstances" in `handover_profile_primary.c:131` (`unacked`); each takeover leaves a performance request that is never given back, as
`handoverProfile_SecondaryBecomePrimary` resets the state that the cleanup after it looks at (`takeovers`), where `power_manager.h` promises
balanced mode once no requestors remain; a halt that times out in `AclReceivedDataProcessed` leaves the link with reception disabled, and clients of
the first handset stay marshalled when those of the second do not fit the sink, because only the states before the failing one are undone, where `handover_profile_primary.c:108`
speaks of each action (`PartlyDone`; `acl.h:39-41` asks the caller to enable reception again); a secondary that refuses a
handover waits two seconds for a message, blocking the application, because the result of sending START_CFM replaces that of the veto.

### Bounds

Every bound is a constant: `MaxDecisions`, `MaxStarts`, `MaxRequests`, `MaxSends`, `Horizon`, `MaxSets`, `MaxDrops`, `MaxSessions`, `Length`, `SegmentRoom`, `QueueRoom`, `MaxShutdowns`. When they are used up the
system comes to rest, which is why the configurations switch deadlock checking off; that it does not come to rest
*early* is what `QueueDrains`, `StopAnswered` and `DueIsDelivered` check (`rules` never stops: events can always be reset). Four decisions are enough for a goal to
be active, one to wait for it, one to cancel both, and one to start or to wait while the confirmations are
still coming; two slots make the queue overflow. That all the safety properties of `goals` hold for any number of decisions and slots is proved. In `script`, three starts put an answer to a
cancelled script into the one after the next. Six requests are three starts and three full stops, with a timeout in the first
and its leftovers meeting the others; one shutdown is enough to leave the lock set. In `messages`, two ticks cross the wrap, and three messages are a
neighbour on either side of the one that is cancelled, blocked or overtaken. Four settings in `rules` are an event that is set,
taken back and set again while decisions of another with the same id are on their way. In `gaia` two payloads and a window of two are the smallest transfer in
which one is ahead of its turn, the wrap falls inside it, and a client that comes back finds answers, commands and counted packets of the one before; two
pending packets are reached by data and by commands. The instance is small because the link, the client and the plugin multiply; that order and
delivery hold for every modulus, window and length is proved. In `handover` three sessions of each earbud
let leftovers of two cancelled handovers meet a third, and the role go there and back; `Others` = 1 gives the secondary data for a handset before and
after the one that decides, and session numbers do not wrap: 256 sessions would have to be on their way. The clock of `GoalsEngine` and `ScriptEngine` only orders
messages; nothing compares it to a duration.

Symmetry is not used: the goals of a table differ, and liveness is checked in the runs where tasks do not.

### Fairness

`Deliver`, `DeliverMail`, `DeliverMsg`, `RunScheduler`, `Return` and `SetRuleComplete` are weakly fair: the scheduler takes the next message as
long as there is one and handlers return. `Respond`, `Answer`, `RespondProcedure` and `FinishStopScript` are weakly fair:
a Bluetooth request is answered or times out in the stack. `HandleStopTimeout`: the five second timer fires.
`HandleMarshalledMsgChannelTxCfm`: peer signalling confirms each transmission, sent or failed, which is not to say that the topology handles the
confirmation. `FindPeer`: a pairing script gets to its last step. The result of a pairing whose script was cancelled may never come. Nothing is assumed of rules, the application
or conditions. 
In `handover` a primary's call goes on (each wait has a timeout) and a handler that waits gets a message or times out; a handler need not be called.
In `gaia` the application thread is weakly fair (`Device`), and so is the client's reading of its answers. The link is fair-lossy: the first segment a client misses is sent again until
one copy gets into the source (strong fairness of `GetsThrough`, as losses and full queues disable it again and again), and if the server
takes it infinitely often, infinitely many answers find room. The phone writes commands finitely often: one that
keeps writing keeps the count from zero and the data unread. The transfer of `TransferCompletes` is excused by what the client
itself does (it resets or disconnects) and by packets leaked as in `gaia_leak`.

## 4. Proofs

`GoalsEngineProofs` proves, for all goal tables that satisfy the named assumptions of `GoalsEngine` and any number of slots and decisions:

| theorem | property |
|---|---|
| `TypeCorrect` | `TypeOK`, with `queue_msg_count` never below zero |
| `NoStaleLock` | `LocksHeldByActive` |
| `QueueIsAccounted` | `QueueAccounted` |
| `NoSecondSlot` | `OneSlotPerGoal` |
| `Compatible` | `GoalsCompatible` |
| `Inductive` | the inductive invariant `IInv` behind them |
| `ExecInductive` | the inductive invariant `ExecInv` behind the next three |
| `ActiveAnswers` | `ActiveIsExecuting` |
| `PanicsForSlotsOnly` | `PanicOnlyWhenFull` |
| `WaitersKeepOrder` | `WaitersInOrder` |
| `ExecutingStaysActive` | `ExecutingIsActive`, in behaviours with `NoneStale` |
| `SchedulingImplemented` | `ImplementsScheduling`, in behaviours with `NoneStale`, for tables with `CancelGoalsConfirmLate` |

`QueueAccounted` says that the count is that of the queued messages and of the handovers lost from the queue. It is not inductive: that the count stays right when a decision is dequeued by the *rule* of a slot needs
that queued messages of one rule belong to one goal, and that every slot that is not free belongs to a goal, has its rule and is unique; that a started
cancel goal leaves the active set compatible needs that locks are subsets of the active goals and that a queued message
is deliverable only with an empty lock. The invariant is the conjunction of these, and the proof has one step per
branch of `ActivateGoal`, one for `ClearGoal`, and lemmas about `Relocked`, `ResetIfEmpty`, slots and the
cardinality of the queue. It uses the assumptions `TableTypes`, `Bounds`, `ConcurrencyLists` and `ExclusiveGoals`.

`ExecInv` adds what executes an active goal (its procedure, or the confirmation on its way), that a goal that confirms late is active as long as
its procedure is not idle and never posts a confirmation beside its answer, that no two queued messages were sent together, and that the
engine has panicked only with every slot taken.

`NoneStale` says that no goal runs again while a confirmation of its cancellation is on its way. It is false of the system: `goals_stale_cancel` is
the behaviour that breaks it, and after that an executing goal is not active and nothing of the abstract scheduling is left to prove. The
theorems that need it have it as a temporal hypothesis, so that they speak of every table and of all behaviours up to that finding. `CancelGoalsConfirmLate` *is* a fact of `tws_topology_goals.c`: every cancel goal there is a script.

`ScriptEngineProofs` proves two things of the engine. For scripts of any length over all nine kinds of procedures: `EngineTypes` (`TypeOK`), `EngineNeverPanics` (`NoPanic`), and the
safety part of `Procedure` (`EngineIsAProcedure`, `AnswersAsAsked`). Their invariant `CInv` (`EngineInductive`) follows confirmations only: at most one is posted or due,
and only while the engine and its client are cancelling. For procedures that end with their step (`EndWithTheirStep`: neither pairing nor a handover), `EveryStepInTurn`
(`StepsReportInTurn`), by `IInv` (`StepsInductive`), which says that at most one report is on its way and that it is of the current step, posted or due from its service; that a callback is armed only while its service owes an
answer; and which kinds may leave a completion behind their cancellation. `CancelIsConfirmed` (`CancelOnItsWay`) needs `CancelsConfirmed` as well, which sets aside the kinds
`stop_le` and `connectable_off`: for these it is false, which is the finding of `script_stop_le` and the step that disables page scan. The two assumptions are about the
procedures of a table; the tables of `script` meet both.

`TwsTopologyStopProofs` proves, for every goal table with a scripted `system_stop`, `TimeoutOwned` (`TimeoutBelongsToStop`), `OnlyTheLateStray`
(`AskedUnlessLate`) and `StopsClean` (`StopIsClean`). Until a stop times out there is at most one stop anywhere: in the mail, as a decision,
in the running script, or as its answer, each excluding the others, and each tied to what the application waits for; nothing else
is active meanwhile, unless a late pairing result has started the topology below the stop (`restarted`). `TopologyInv` is that, or the history variable `late`.

`RulesEngineProofs` proves `RulesTypes` (`TypeOK`) and `DecisionsOnTheirWay` (`InProgressOnItsWay`) for every table of rules, and
`OneRuleRuns` (`OneRuleAtATime`), `EventsInStep` (`EventsMatchRulesLeft`) and `RulesAnsweredOnce` (`AnsweredOnce`) for the tables with `TableInOrder`: a rule that may
defer is the last of its event, and no two rules of an event decide the same, as in all tables of the code but for `STATIC_HANDOVER_FAILED` (see section 3). Both
invariants hold within a pass over the table as well, which `RunRules` describes by a recursive function; that they hold at its
end is proved by induction in the form the prover accepts: the set of rules after which it fails is empty, as it has no least member.

`VmMessageQueueProofs` proves, for any tasks, conditions, lists of recipients, delays and clock, with `W` more than twice the longest delay:

| theorem | property |
|---|---|
| `QueueInductive` | the inductive invariant `QueueInv` |
| `TypeCorrect` | `QueueTypeOK` |
| `WakesInTime` | `NoLostWakeup` |
| `RetainedStay` | `RetainedIsKept` |
| `RaisedStay` | `RaisedIsQueued` |
| `InOrderDelivered` | `DeliveredInOrder` |
| `OthersKeep` | `OthersKeepTheirs` |

The code orders messages by the sign of a difference of times that wrap. `QueueInv` says that every due time in the queue is within half a
round of now and of whatever may be sent now, so that `Diff` to it is the true distance, that the queue is in order of
due time and then of number, that numbers are unique and no message is without recipients. What cancelling leaves is described by a map
from the new positions to the old that keeps the order (`Thins`, `Picks`). `RetainInv` counts the references of a delivered message: one for each task that
retains it and one for the handler that runs. `RaisedInv` says that an update is queued once, so that combining finds it.

`RwcpServerProofs` proves, for every modulus, window, room and length of a transfer that `RwcpAssumption` allows:

| theorem | what |
|---|---|
| `TypeCorrect` | `RwcpTypeOK` |
| `SessionsInStep` | the inductive invariant `SessionInv` |
| `DeliveredInOrder` | the payloads reach GAIA in order and once each |
| `StreamImplemented` | `ImplementsStream`, the refinement of `ReliableStream` |

That the payloads come in order is not inductive: a number identifies a payload only among those less than a modulus apart, so the
invariant has to bound everything on its way. Of the segments of a session come SYN first, then DATA, then RST, and of the answers
likewise; a segment is less than a window ahead of what is acknowledged and at most a window behind what
is wanted, and of two segments the later one is at most a window behind; acknowledgements are bounded in the same way. Then lemmas about `%`
(`ModInjective`, `ModDistance`) give that `isNextSequence` accepts only the payload that is wanted and that what is neither next nor
ahead was delivered before. There is one lemma for each action, and the refinement follows from what a step does to `delivered` and to `base`.

`GaiaTransportGattProofs` proves, for every client and every `MaxRxPending`, that an upgrade over GATT is a behaviour of
`RwcpServer` (`RunsRwcp`), hence `UpgradeStreamImplemented`, and by an invariant of plugin, count and queue
`GaiaTypeCorrect`, `NothingElsePanics` (`OnlyDataIndPanics`), `HandoverIsSafe` and `SourceWillBeRead` (`DataWillBeRead`, unless a packet has leaked). The invariant adds that CONNECT_FAILED
is never on its way and that there are no segments without a client; the count is related to the queue by lemmas about the cardinality of
its packets.

`HandoverProfileProofs` proves, for any number of handsets and sessions, `HandoverTypeCorrect` (`TypeOK`, so that the counts of data to come
stay in range) and `RequestsAddUp` (`RequestsAccounted`). The invariant `Inv` says of each earbud that its
requests are those of the state its own procedure is in, of the state it is in as secondary, and of its takeovers; that a secondary that takes P1 data expects some;
and that after the commitment only the device list is left to be undone, which is why the cleanup undoes everything. `StateTable` and `Positions` turn the
names of the states into positions; `PrimaryStep` and `SecondaryStep` say what a step of either role may change, `FailStep` and `AdvanceStep`
what a state that fails or succeeds does, and each action is a lemma on top of them. The one assumption is `HandoverAssumption`.

`PeersInStep` (`PeerInStep`) and `OnePrimaryAtATime` (`OnePrimary`) are about both earbuds and the channels between them, and rest on a second
invariant, `RoleInv`, of each ordered pair of earbuds. The properties are not inductive: the confirmation of the P1 data names no
session, so that a primary goes on with the right one only because of what is in the channels. `RoleInv` says that session numbers on their way
from an earbud are newer than any its peer accepted and grow along the channel (`Sessions`; here `SessionIds > MaxSessions` is used, no number is
used twice); that at most one of the earbuds has an accepted session, and one that is primary has no session as secondary (`Roles`); that data in a channel
has only data before it and a secondary at the end of it (`DataInTurn`) that is counting down at least that much, the mirrored handset's being the last (`DataFits`); what channel
and secondary hold before, during and after the exchange of the P1 data as long as the secondary has not timed out (`Opened`, `Marshalled`, `Confirmed`); and that an earbud that commits has a peer that took
the role over, will with what it has been sent, or gave up (`Committing`, `SomePrimary`, `TwoPrimaries`). `Moves` is a step of the primary as seen from outside, of which
every action of it is an instance; the handler's steps fall into six kinds, `Stops`, `Drops`, `Accepts`, `Unmarshals`, `CountsDown`, `TakesOver`. `Passes` says by positions what a step does to the
two channels.
What these two theorems do not cover is a number met again after 256 handovers: `session_id` is a uint8 and the code compares for equality only, so a START_CFM
would have to stay in the channel that long.

Only model-checked: liveness (`QueueDrains`, `StopAnswered`, `DueIsDelivered`, `EventSettles`, `TransferCompletes`, `EarbudsSettle`, and the part of `Procedure` that
says a script that is started answers), which is beyond the prover, and `CompletedIsUndone`. The type invariants are in no run: they are proved, and the runs leave their time to the properties.

## 5. Plan

In this order; each module comes with its run, its mutants and its hazards.

1. *Done*: `GoalsEngine`, `GoalScheduling`, `GoalsEngineProofs`, `ScriptEngine`, `Procedure`, `TwsTopologyStop`, `VmMessageQueue`, `RulesEngine`,
   `ReliableStream`, `RwcpServer`, `GaiaTransportGatt`, `HandoverProfile`, and the module of proofs about each.
2. `RulesEngine` composed with `GoalsEngine`: rules that defer on what is active or queued, goals whose ends set events;
   abstract specification "each rule is answered once for each setting of its event".
3. `PeerFindRole`: two earbuds and a link that drops, one primary; `HandoverProfile` with the loss of the link.
4. `PowerManager`, `CaseComms`, `UpgradePeer`, in the order of their hazards.
