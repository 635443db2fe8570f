--------------------------- MODULE VmMessageQueue ---------------------------
(***************************************************************************)
(* The application message queue of the Hydra OS                           *)
(* (customer/core/trap_api/trap_api_message.c), which every library and    *)
(* service of the earbud application runs on.                              *)
(*                                                                         *)
(* Messages are kept in the order they are due.  One scheduler task takes  *)
(* the first message whose condition is zero, calls the handlers of its    *)
(* recipients, and comes round again; when that message is not due yet it  *)
(* sets a timer, and when there is none it sleeps.  Nothing watches the    *)
(* conditions: they change in handlers, and the queue is looked at again   *)
(* after every handler.                                                    *)
(*                                                                         *)
(* Time is a millisecond counter that wraps at W.  "at", the time a        *)
(* message is due on a clock that never wraps, serves the properties and   *)
(* is not looked at by any action.                                         *)
(***************************************************************************)
EXTENDS Integers, Sequences, SequencesExt, FiniteSets

CONSTANTS
    Tasks,       \* the tasks messages are sent to
    Recipients,  \* the recipient lists messages are sent to: one or more tasks
    AppIds,      \* ids the application sends; never combined
    Notices,     \* ids of which a second, similar message is dropped
    Bare,        \* the notices similar by their id: MESSAGE_PSFL_FAULT and
                 \* MESSAGE_TX_POWER_CHANGE_EVENT, which have no content
                 \* (system_message.h:189, 247); the others, MESSAGE_MORE_DATA and
                 \* MESSAGE_MORE_SPACE, have a source or a sink for content
    Updates,     \* ids whose later message overwrites the earlier; ids that replace()
                 \* puts in place of each other (MESSAGE_USB_ATTACHED and _DETACHED,
                 \* _ENUMERATED and _DECONFIGURED) are one here, and the value says which
    Values,      \* contents of the other notices and of updates
    Conditions,  \* the variables messages are conditional on
    Delays,      \* delays the application sends with
    W,           \* the counter wraps at W: 2^32 in the code
    Limit,       \* the longest timer: a quarter of the wrap distance of the OS timer
    Start,       \* the time the first message may be sent
    Horizon,     \* bound: the time the behaviour ends
    MaxSends,    \* bound: messages put in the queue
    NoValue, NoCondition, NoTimer

ASSUME ListsOfTasks ==
    \A to \in Recipients : to \in Seq(Tasks) /\ to # <<>> /\ IsInjective(to)

ASSUME IdsDiffer ==
    /\ AppIds \cap Notices = {} /\ AppIds \cap Updates = {} /\ Notices \cap Updates = {}
    /\ Bare \subseteq Notices

ASSUME Numbers ==
    /\ Delays \subseteq Nat /\ 0 \in Delays
    /\ W \in Nat /\ Limit \in Nat \ {0}
    /\ \A d \in Delays : 2 * d < W
    /\ Start \in Nat /\ Horizon \in Nat /\ MaxSends \in Nat /\ NoTimer \notin Nat

VARIABLES
    queue,      \* vm_message_queue
    delivered,  \* vm_delivered_messages: the head is the message being handled
    left,       \* its recipients still to be called, the one running first
    held,       \* <<task, number>>: the task retains that message
    event,      \* sched_event_pending
    timer,      \* when the run_timer expires, or NoTimer
    blocked,    \* the conditions that are not zero
    registered, \* the tasks registered for system messages
    now,        \* the time
    sent,       \* messages put in the queue so far, and the number of the last
    owed        \* <<task, id, value>>: raised by the system and not handled since

vars == <<queue, delivered, left, held, event, timer, blocked, registered, now, sent, owed>>

NotSending == <<delivered, left, held, timer, blocked, registered, now>>
Unscheduled == <<left, event, timer, now, sent>>

(***************************************************************************)
(* Time.  get_milli_time() is now % W, and VM_DIFF is a signed difference. *)
(***************************************************************************)
\* Fault: due times are compared as they are.
DiffUnsigned(t, u) == t - u

Diff(t, u) == ((t - u + W \div 2) % W) - W \div 2

(***************************************************************************)
(* Sending.                                                                *)
(***************************************************************************)
Ids == AppIds \cup Notices \cup Updates

Message ==
    [num : Nat, id : Ids, value : Values \cup {NoValue}, to : Seq(Tasks),
     cond : Conditions \cup {NoCondition}, due : 0..W-1, at : Nat]

Msg(id, value, to, cond, delay) ==
    [num |-> sent + 1, id |-> id, value |-> value, to |-> to, cond |-> cond,
     due |-> (now + delay) % W, at |-> now + delay]

Similar(m, n) ==
    /\ m.to = n.to /\ m.id = n.id
    /\ m.id \in Bare \/ (m.id \in Notices /\ m.value = n.value)

\* what a message the system raises may hold
Contents(id) == IF id \in Bare THEN {NoValue} ELSE Values

\* where insert() puts message m: before the first that is due later
Place(m) == SelectInSeq(Append(queue, m), LAMBDA n : n = m \/ Diff(m.due, n.due) < 0)

\* vm_message_send_later: a message similar to its predecessor is destroyed
SendLater(m) ==
    /\ sent < MaxSends
    /\ IF Place(m) > 1 /\ Similar(queue[Place(m) - 1], m)
       THEN UNCHANGED <<queue, event, sent>>
       ELSE /\ queue' = InsertAt(queue, Place(m), m)
            /\ event' = TRUE
            /\ sent' = sent + 1

(***************************************************************************)
(* The scheduler task (trap_api_sched_msg_handler).  It runs for the event *)
(* it was sent or for its timer, and cancels the timer in either case.     *)
(***************************************************************************)
Clear(m) == m.cond \notin blocked

Release(d, i) ==
    IF d[i].refs = 1 THEN RemoveAt(d, i) ELSE [d EXCEPT ![i].refs = @ - 1]

\* the message vm_message_next decides by, or 0
NextMessage == SelectInSeq(queue, Clear)

StartDelivery(i) ==
    /\ queue' = RemoveAt(queue, i)
    /\ delivered' = <<[num |-> queue[i].num, id |-> queue[i].id, refs |-> 1]>> \o delivered
    /\ left' = queue[i].to
    /\ owed' = owed \ {<<queue[i].to[1], queue[i].id, queue[i].value>>}
    /\ timer' = NoTimer

TimerFor(i) == now + IF Diff(queue[i].due, now % W) > Limit
                     THEN Limit ELSE Diff(queue[i].due, now % W)

\* Fault: a message due at this very millisecond is not due yet.
IsOverdue(i) == Diff(queue[i].due, now % W) < 0

IsDue(i) == Diff(queue[i].due, now % W) <= 0

RunScheduler ==
    /\ left = <<>>
    /\ event \/ (timer # NoTimer /\ now >= timer)
    /\ event' = FALSE
    /\ \/ /\ NextMessage = 0
          /\ timer' = NoTimer
          /\ UNCHANGED <<queue, delivered, left, owed>>
       \/ /\ NextMessage # 0 /\ ~IsDue(NextMessage)
          /\ timer' = TimerFor(NextMessage)
          /\ UNCHANGED <<queue, delivered, left, owed>>
       \/ /\ NextMessage # 0 /\ IsDue(NextMessage)
          /\ StartDelivery(NextMessage)
    /\ UNCHANGED <<held, blocked, registered, now, sent>>

\* The handler of one recipient returns; after the last one the message is
\* released and the scheduler asked to come round again.
\* Fault: the scheduler comes round again only if something was sent.
ReturnUntriggered ==
    /\ left # <<>>
    /\ left' = Tail(left)
    /\ delivered' = IF Tail(left) = <<>> THEN Release(delivered, 1) ELSE delivered
    /\ UNCHANGED <<queue, held, event, timer, blocked, registered, now, sent, owed>>

Return ==
    /\ left # <<>>
    /\ left' = Tail(left)
    /\ IF Tail(left) = <<>>
       THEN delivered' = Release(delivered, 1) /\ event' = TRUE
       ELSE UNCHANGED <<delivered, event>>
    /\ UNCHANGED <<queue, held, timer, blocked, registered, now, sent, owed>>

(***************************************************************************)
(* What the application does in a handler.                                 *)
(***************************************************************************)
MessageSendLater(to, id, delay) ==
    /\ left # <<>>
    /\ SendLater(Msg(id, NoValue, to, NoCondition, delay))
    /\ UNCHANGED <<NotSending, owed>>

MessageSendConditionally(to, id, c) ==
    /\ left # <<>>
    /\ SendLater(Msg(id, NoValue, to, c, 0))
    /\ UNCHANGED <<NotSending, owed>>

\* A task is in a list once, and is marked invalid; a message left with no
\* recipient is freed.
Without(m, t) == [m EXCEPT !.to = RemoveFirst(@, t)]

Kept(q) ==
    LET kept[i \in 0..Len(q)] ==
            IF i = 0 THEN <<>>
            ELSE IF q[i].to = <<>> THEN kept[i - 1] ELSE Append(kept[i - 1], q[i])
    IN  kept[Len(q)]

Hit(m, t, ids) == m.id \in ids /\ Contains(m.to, t)

\* MessageCancelFirst goes on past a message that keeps other recipients.
LastCancelled(t, id) ==
    SelectInSeq(queue, LAMBDA m : Hit(m, t, {id}) /\ Len(m.to) = 1)

\* Fault: the whole message is cancelled, other recipients or not.
CancelWhole(t, ids, upto) ==
    SelectSeq(queue, LAMBDA m : ~Hit(m, t, ids))

Cancelled(t, ids, upto) ==
    Kept([i \in DOMAIN queue |->
            IF i <= upto /\ Hit(queue[i], t, ids) THEN Without(queue[i], t) ELSE queue[i]])

MessageCancelFirst(t, id) ==
    /\ left # <<>>
    /\ queue' = Cancelled(t, {id}, IF LastCancelled(t, id) = 0 THEN Len(queue)
                                   ELSE LastCancelled(t, id))
    /\ UNCHANGED <<delivered, held, blocked, registered, owed, Unscheduled>>

MessageCancelAll(t, id) ==
    /\ left # <<>>
    /\ queue' = Cancelled(t, {id}, Len(queue))
    /\ UNCHANGED <<delivered, held, blocked, registered, owed, Unscheduled>>

MessageFlushTask(t) ==
    /\ left # <<>>
    /\ registered' = registered \ {t}
    /\ queue' = Cancelled(t, Ids, Len(queue))
    /\ owed' = {o \in owed : o[1] # t}
    /\ UNCHANGED <<delivered, held, blocked, Unscheduled>>

Register(t) ==
    /\ left # <<>>
    /\ registered' = registered \cup {t}
    /\ UNCHANGED <<queue, delivered, held, blocked, owed, Unscheduled>>

SetCondition(c) ==
    /\ left # <<>>
    /\ blocked' = IF c \in blocked THEN blocked \ {c} ELSE blocked \cup {c}
    /\ UNCHANGED <<queue, delivered, held, registered, owed, Unscheduled>>

\* The running handler keeps the message; it frees it once, in any handler.
MessageRetain ==
    /\ left # <<>>
    /\ <<Head(left), delivered[1].num>> \notin held
    /\ held' = held \cup {<<Head(left), delivered[1].num>>}
    /\ delivered' = [delivered EXCEPT ![1].refs = @ + 1]
    /\ UNCHANGED <<queue, blocked, registered, owed, Unscheduled>>

\* Fault: the message being handled is the one freed.
HeadOf(num) == 1
PlaceOf(num) == SelectInSeq(delivered, LAMBDA d : d.num = num)

MessageFree(t, num) ==
    /\ left # <<>>
    /\ Head(left) = t /\ <<t, num>> \in held
    /\ held' = held \ {<<t, num>>}
    /\ delivered' = Release(delivered, PlaceOf(num))
    /\ UNCHANGED <<queue, blocked, registered, owed, Unscheduled>>

(***************************************************************************)
(* What the system does between handlers: a message from the other         *)
(* processor is combined with one that is queued, if it can be             *)
(* (trap_api_send_message_filtered).  The sender may allow duplicates of a *)
(* notice; of an update it never does, so that one is queued at most.      *)
(***************************************************************************)
Replaceable(m, n) == m.id \in Updates /\ m.to = n.to /\ m.id = n.id

Already(m) == \E i \in DOMAIN queue : Similar(queue[i], m) \/ Replaceable(queue[i], m)

\* Fault: the payload in the queue is kept.
CombinedKeepOld(m) == queue

Combined(m) ==
    LET i == SelectInSeq(queue, LAMBDA n : Similar(n, m) \/ Replaceable(n, m))
    IN  [queue EXCEPT ![i].value = m.value]

Raise(t, id, value, duplicates) ==
    LET m == Msg(id, value, <<t>>, NoCondition, 0)
    IN  /\ left = <<>>
        /\ t \in registered
        /\ id \in Updates => ~duplicates
        /\ IF ~duplicates /\ Already(m)
           THEN queue' = Combined(m) /\ UNCHANGED <<event, sent>>
           ELSE SendLater(m)
        /\ owed' = {o \in owed : id \in Updates => o[1] # t \/ o[2] # id} \cup {<<t, id, value>>}
        /\ UNCHANGED NotSending

\* No message waits, or will wait, longer than half the wrap distance.
Tick ==
    /\ now < Horizon
    /\ \A i \in DOMAIN queue, d \in Delays : 2 * (now + 1 + d - queue[i].at) < W
    /\ now' = now + 1
    /\ UNCHANGED <<queue, delivered, left, held, event, timer, blocked, registered, sent, owed>>

Init ==
    /\ queue = <<>> /\ delivered = <<>> /\ left = <<>> /\ held = {}
    /\ event = FALSE /\ timer = NoTimer
    /\ blocked = {} /\ registered = Tasks
    /\ now = Start /\ sent = 0 /\ owed = {}

Next ==
    \/ RunScheduler
    \/ Return
    \/ \E to \in Recipients, id \in AppIds :
          \/ \E d \in Delays : MessageSendLater(to, id, d)
          \/ \E c \in Conditions : MessageSendConditionally(to, id, c)
    \/ \E t \in Tasks :
          \/ \E id \in AppIds : MessageCancelFirst(t, id) \/ MessageCancelAll(t, id)
          \/ MessageFlushTask(t) \/ Register(t)
          \/ \E num \in 1..sent : MessageFree(t, num)
          \/ \E id \in Notices \cup Updates, dup \in BOOLEAN :
                \E v \in Contents(id) : Raise(t, id, v, dup)
    \/ \E c \in Conditions : SetCondition(c)
    \/ MessageRetain
    \/ Tick

Spec == Init /\ [][Next]_vars

\* The OS runs its tasks, and handlers return.
FairSpec == Spec /\ WF_vars(RunScheduler) /\ WF_vars(Return)

(***************************************************************************)
(* Correctness.                                                            *)
(***************************************************************************)
QueueTypeOK ==
    /\ queue \in Seq(Message)
    /\ delivered \in Seq([num : Nat, id : Ids, refs : Nat \ {0}])
    /\ left \in Seq(Tasks)
    /\ held \subseteq Tasks \X Nat
    /\ event \in BOOLEAN
    /\ timer \in Nat \cup {NoTimer}
    /\ blocked \subseteq Conditions /\ registered \subseteq Tasks
    /\ now \in Nat /\ sent \in Nat
    /\ owed \subseteq Tasks \X Ids \X (Values \cup {NoValue})

\* No message is delivered early, and none before another that may be delivered
\* and was due earlier, or was due at the same time and sent earlier: across
\* the wrap of the counter, cancelled neighbours and blocked messages
\* (insert, vm_message_next).
DeliveredInOrder ==
    [][\A i \in DOMAIN queue :
          (left = <<>> /\ left' # <<>> /\ queue[i].num = delivered'[1].num) =>
              /\ queue[i].at <= now
              /\ \A j \in DOMAIN queue \ {i} : Clear(queue[j]) =>
                    \/ queue[j].at > queue[i].at
                    \/ queue[j].at = queue[i].at /\ queue[j].num > queue[i].num]_vars

\* While no handler runs, a message that may be delivered has the scheduler
\* coming for it: at once, or by a timer no later than the message is due.
\* Conditions, cancels and sends never leave it waiting for an unrelated event.
NoLostWakeup ==
    (left = <<>> /\ ~event) =>
        \A i \in DOMAIN queue : Clear(queue[i]) => timer # NoTimer /\ timer <= queue[i].at

\* What the system raised is in the queue until it is handled, with its latest
\* payload and nothing outdated: combining messages loses none, even while an
\* equal message is being handled (already, similar, replace, insert).
RaisedIsQueued ==
    /\ \A o \in owed : \E i \in DOMAIN queue :
          queue[i].to = <<o[1]>> /\ queue[i].id = o[2] /\ queue[i].value = o[3]
    /\ \A i \in DOMAIN queue : queue[i].id \in Updates =>
          <<queue[i].to[1], queue[i].id, queue[i].value>> \in owed

\* A retained message stays on the delivered list with a reference for each of
\* its holders, and the message being handled is at the head of the list, where
\* MessageRetain and the release after the handler take it from.
RetainedIsKept ==
    /\ \A i \in DOMAIN delivered :
          delivered[i].refs = Cardinality({h \in held : h[2] = delivered[i].num})
                                + (IF i = 1 /\ left # <<>> THEN 1 ELSE 0)
    /\ \A h \in held : \E i \in DOMAIN delivered : delivered[i].num = h[2]

\* A recipient loses a queued message only when it is called for it or when the
\* message is cancelled for that very recipient: cancelling a multicast message
\* for one task leaves it to the others.
OthersKeepTheirs ==
    [][\A i \in DOMAIN queue, t \in Tasks :
          (/\ Contains(queue[i].to, t)
           /\ ~\E j \in DOMAIN queue' : queue'[j].num = queue[i].num /\ Contains(queue'[j].to, t))
          => \/ delivered' # delivered /\ delivered'[1].num = queue[i].num
             \/ MessageCancelFirst(t, queue[i].id)
             \/ MessageCancelAll(t, queue[i].id)
             \/ MessageFlushTask(t)]_vars

\* A message that is due and may be delivered is handled, cancelled, or blocked
\* again: the scheduler does not fall asleep on it.
DueIsDelivered ==
    \A num \in 1..MaxSends :
        LET Waits == \E i \in DOMAIN queue :
                        queue[i].num = num /\ Clear(queue[i]) /\ queue[i].at <= now
        IN  Waits ~> ~Waits
=============================================================================
