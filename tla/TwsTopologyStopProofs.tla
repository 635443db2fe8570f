----------------------- MODULE TwsTopologyStopProofs -----------------------
(***************************************************************************)
(* Proofs about starting and stopping the TWS topology, for every goal     *)
(* table and every number of requests and decisions.                       *)
(*                                                                         *)
(* Until a stop times out, one stop at a time is somewhere between the     *)
(* application and its confirmation: in the mail, decided on, or carried   *)
(* out by its script (OneStop), which goes on if a pairing result starts   *)
(* the topology meanwhile.  That is what the safety properties rest on; it *)
(* is conditional, because after a timeout the old stop lives on beside    *)
(* the requests that follow.                                               *)
(***************************************************************************)
EXTENDS TwsTopologyStop, TLAPS

In(what) == {x \in mail : x.what = what}
StopDecisions == {m \in msgs : IsDecision(m) /\ m.goal = system_stop}
Answers == {m \in msgs : m.kind = "response" /\ m.goal = system_stop}

\* The part of the types the argument needs.
EngineTypes ==
    /\ active \in SUBSET Goals
    /\ msgs \in SUBSET Message
    /\ clock \in Nat
    /\ proc \in [Goals -> {"idle", "running", "cancelling"}]
    /\ panicked \in BOOLEAN

Types ==
    /\ EngineTypes
    /\ stopping \in {"stopped", "stopping", "started"}
    /\ mail \in SUBSET Mail
    /\ timers \in Nat
    /\ asked \in {"none", "up", "down"}
    /\ owed \in {0, 1} /\ unasked \in BOOLEAN /\ late \in BOOLEAN
    /\ restarted \in BOOLEAN

Stamped ==
    /\ \A m \in msgs : m.at < clock
    /\ \A x \in mail : x.at < clock

\* The goal of a script is active exactly while the script runs or is being
\* cancelled, and its cancellation is not confirmed by a message of its own.
ScriptsTracked ==
    /\ \A g \in Scripted : proc[g] # "idle" <=> g \in active
    /\ \A m \in msgs : m.kind = "cancelled" => m.goal \notin Scripted

\* No other goal is active while the topology is stopping.
StopsAlone == stopping = "stopping" => active \subseteq {system_stop}

PanicsExplained == panicked => late \/ restarted \/ \A s \in Slots : ~IsFree(pending, s)

\* A timeout is armed once, for the stop that is waited for.
TimersOwed ==
    ~unasked =>
        /\ timers =< 1
        /\ timers > 0 => owed = 1 /\ asked = "down" /\ In("stop") = {}
        /\ In("stop") # {} => owed = 1 /\ asked = "down"
        /\ \A x, y \in In("stop") : x = y

\* Where the one stop can be.  It is pursued once it has been handled.
Pursued == owed = 1 /\ In("stop") = {}

Asking ==
    /\ \A x, y \in In("stop") : x = y
    /\ \A x \in In("start"), y \in In("stop") : x.at < y.at
    /\ In("stop") # {} => owed = 1
    /\ Pursued => In("start") = {} /\ stopping # "stopped"

Deciding ==
    /\ \A m, n \in StopDecisions : m = n
    /\ StopDecisions # {} => Pursued /\ stopping = "started" /\ proc[system_stop] = "idle"

\* The script outlasts the stop when its last step is confirmed after the stop is,
\* and runs or is cancelled while the topology is started only after a restart.
Stopping ==
    /\ stopping = "stopping" => Pursued
    /\ stopping = "started" /\ proc[system_stop] # "idle" => Pursued /\ restarted
    /\ stopping = "stopped" /\ proc[system_stop] = "running" => Answers # {}
    /\ proc[system_stop] = "cancelling" => stopping = "started"
    /\ proc[system_stop] = "idle" => Answers = {}
    /\ \A m, n \in Answers : m = n
    /\ \A x \in In("start"), m \in Answers : m.at < x.at
    /\ \A x, y \in In("finished") : x = y
    /\ In("finished") # {} =>
          Pursued /\ StopDecisions = {} /\ (proc[system_stop] = "running" => Answers # {})

OneStop == Asking /\ Deciding /\ Stopping

Base == Types /\ Stamped /\ ScriptsTracked /\ StopsAlone /\ PanicsExplained

Watched ==
    /\ TimersOwed
    /\ unasked => late
    /\ late \/ panicked \/ OneStop

TopologyInv == Base /\ Watched

(***************************************************************************)
(* What a decision that is carried out does to the engine.                 *)
(***************************************************************************)
LEMMA StopIsScripted == system_stop \in Goals /\ system_stop \in Scripted
BY StopGoal, TableTypes

\* The messages of a step are old ones or the queued goal g and confirmations of
\* cancels, sent from now on.
Sends(g) ==
    /\ clock' \in Nat /\ clock =< clock'
    /\ \A n \in msgs' \ msgs :
          /\ n.at >= clock /\ n.at < clock'
          /\ \/ n.kind = "queued" /\ n.goal = g
             \/ n.kind = "cancelled" /\ n.goal \notin Scripted
    /\ \A m, n \in msgs' \ msgs : m.kind = "queued" /\ n.kind = "queued" => m = n

\* Starting a goal, with fewer messages; a scripted one starts alone.
LEMMA StartEffect ==
    ASSUME EngineTypes, ScriptsTracked, NEW g \in Goals, NEW q \in SUBSET msgs, NEW pend, NEW n,
           g \in Scripted => active = {},
           StartGoal(g, q, pend, n, proc)
    PROVE  /\ EngineTypes' /\ ScriptsTracked' /\ Sends(g)
           /\ ~panicked'
           /\ active' = active \cup {g} /\ msgs' = q
           /\ proc' = [proc EXCEPT ![g] = "running"]
<1>1. active' = active \cup {g} /\ msgs' = q /\ clock' = clock + 1
      /\ proc' = [proc EXCEPT ![g] = "running"]
      /\ panicked' = (g \in Scripted /\ \E h \in Scripted : proc[h] # "idle")
  BY DEF StartGoal
<1>2. ~panicked' BY <1>1 DEF ScriptsTracked
<1>3. panicked' \in BOOLEAN BY <1>2, <1>1
<1>4. EngineTypes' BY <1>1, <1>3 DEF EngineTypes
<1>5. ScriptsTracked' BY <1>1, TableTypes DEF ScriptsTracked, EngineTypes
<1>6. Sends(g) BY <1>1 DEF Sends, EngineTypes
<1> QED BY <1>1, <1>2, <1>4, <1>5, <1>6

\* Cancelling leaves the idle procedures idle and, of the scripts, the others busy.
LEMMA CancelEffect ==
    ASSUME EngineTypes, NEW D \in SUBSET Goals
    PROVE  /\ ProcsAfterCancel(D) \in [Goals -> {"idle", "running", "cancelling"}]
           /\ \A h \in Scripted : /\ ProcsAfterCancel(D)[h] = "idle" <=> proc[h] = "idle"
                                  /\ ProcsAfterCancel(D)[h] = "running" => proc[h] = "running"
<1>1. ASSUME NEW h \in Goals
      PROVE  /\ ProcsAfterCancel(D)[h] \in {"idle", "running", "cancelling"}
             /\ h \in Scripted =>
                   /\ ProcsAfterCancel(D)[h] = "idle" <=> proc[h] = "idle"
                   /\ ProcsAfterCancel(D)[h] = "running" => proc[h] = "running"
  <2>1. proc[h] \in {"idle", "running", "cancelling"} BY DEF EngineTypes
  <2> QED BY <2>1 DEF ProcsAfterCancel, AtOnce
<1>2. \A h \in Scripted : h \in Goals BY TableTypes
<1> QED BY <1>1, <1>2 DEF ProcsAfterCancel

\* Queueing a goal, with fewer messages, after the goals of D have been cancelled.
LEMMA QueueEffect ==
    ASSUME EngineTypes, Stamped, ScriptsTracked, NEW g \in Goals, NEW r \in Rules, NEW wait,
           NEW q \in SUBSET msgs, NEW D \in SUBSET Goals, NEW pend, NEW n,
           QueueGoal(g, r, wait, MsgsAfterCancel(q, D), pend, n, ProcsAfterCancel(D))
    PROVE  /\ EngineTypes' /\ ScriptsTracked' /\ Sends(g)
           /\ active' = active /\ panicked' = panicked
           /\ proc' = ProcsAfterCancel(D)
           /\ msgs' \cap msgs \subseteq q
           /\ \A m \in q : m.goal \in Scripted \/ m.kind # "response" => m \in msgs'
<1> DEFINE confirmed == {Msg("cancelled", NoRule, h, 1, clock) : h \in AtOnce(D)}
<1>1. PICK s \in Slots : msgs' = MsgsAfterCancel(q, D) \cup {Msg("queued", r, g, s, clock + 1)}
  BY DEF QueueGoal
<1>2. clock' = clock + 2 /\ proc' = ProcsAfterCancel(D) /\ active' = active /\ panicked' = panicked
  BY DEF QueueGoal
<1> DEFINE new == Msg("queued", r, g, s, clock + 1)
<1>3. clock \in Nat BY DEF EngineTypes
<1>4. new \in Message /\ new.kind = "queued" /\ new.goal = g /\ new.at = clock + 1
  BY <1>3 DEF Message, Msg
<1>5. ASSUME NEW h \in AtOnce(D)
      PROVE  LET c == Msg("cancelled", NoRule, h, 1, clock)
             IN  c \in Message /\ c.kind = "cancelled" /\ c.goal \notin Scripted /\ c.at = clock
  BY <1>3, Bounds DEF Message, Msg, AtOnce, Slots
<1>6. \A c \in confirmed : c \in Message /\ c.kind = "cancelled" /\ c.goal \notin Scripted /\ c.at = clock
  BY <1>5
<1>7. msgs' = {m \in q : ~(m.kind = "response" /\ m.goal \in AtOnce(D))} \cup confirmed \cup {new}
  BY <1>1 DEF MsgsAfterCancel
<1> HIDE DEF new, confirmed
<1>8. EngineTypes' BY <1>2, <1>3, <1>4, <1>6, <1>7, CancelEffect DEF EngineTypes
<1>9. ScriptsTracked'
  BY <1>2, <1>4, <1>6, <1>7, CancelEffect DEF ScriptsTracked
<1>10. Sends(g)
  <2>1. ASSUME NEW m \in msgs' \ msgs PROVE m \in confirmed \/ m = new
    BY <2>1, <1>7
  <2>2. ASSUME NEW m \in msgs' \ msgs
        PROVE  /\ m.at >= clock /\ m.at < clock'
               /\ \/ m.kind = "queued" /\ m.goal = g
                  \/ m.kind = "cancelled" /\ m.goal \notin Scripted
    <3>1. CASE m \in confirmed BY <1>2, <1>3, <1>6, <3>1
    <3>2. CASE m = new BY <1>2, <1>3, <1>4, <3>2
    <3> QED BY <2>1, <3>1, <3>2
  <2>3. \A m, o \in msgs' \ msgs : m.kind = "queued" /\ o.kind = "queued" => m = o
    BY <2>1, <1>6
  <2> QED BY <1>2, <1>3, <2>2, <2>3 DEF Sends
<1>11. msgs' \cap msgs \subseteq q
  <2>1. \A m \in msgs : m.at < clock BY DEF Stamped
  <2> QED BY <2>1, <1>3, <1>4, <1>6, <1>7
<1>12. \A m \in q : m.goal \in Scripted \/ m.kind # "response" => m \in msgs'
  BY <1>7 DEF AtOnce
<1> QED BY <1>2, <1>8, <1>9, <1>10, <1>11, <1>12

\* GoalsEngine_ActivateGoal, as far as scripts are concerned: m is taken, the
\* answers to scripts stay, a script starts alone and only m's, and it panics
\* only for want of a slot.
LEMMA ActivateEffect ==
    ASSUME EngineTypes, Stamped, ScriptsTracked, ~panicked,
           NEW m \in msgs, ActivateGoal(m)
    PROVE  /\ EngineTypes' /\ ScriptsTracked' /\ Sends(m.goal)
           /\ panicked' => msgs' = msgs /\ \A s \in Slots : ~IsFree(pending', s)
           /\ ~panicked' => m \notin msgs'
           /\ \A n \in msgs : n.kind = "response" /\ n.goal \in Scripted => n \in msgs'
           /\ \A h \in Scripted :
                 IF h \in active' \ active
                 THEN /\ h = m.goal /\ active' = {h} /\ proc'[h] = "running"
                      /\ ~panicked' /\ msgs' \subseteq msgs
                 ELSE /\ proc[h] = "idle" <=> proc'[h] = "idle"
                      /\ proc'[h] = "running" => proc[h] = "running"
<1> USE DEF EngineTypes
<1> DEFINE rest == msgs \ {m}
<1>1. /\ m \in Message /\ m.goal \in Goals /\ m.rule \in Rules
      /\ m.kind \in {"decision", "queued"}
  BY DEF ActivateGoal, IsDecision, Message
<1>2. \A n \in QueuedIn(msgs) : n.kind # "response" BY DEF QueuedIn
<1>3. ASSUME NEW q \in SUBSET rest, NEW pend, NEW n,
             \A o \in msgs : o.kind = "response" => o \in q,
             m.goal \in Scripted => active = {},
             StartGoal(m.goal, q, pend, n, proc)
      PROVE  /\ EngineTypes' /\ ScriptsTracked' /\ Sends(m.goal)
             /\ ~panicked' /\ m \notin msgs'
             /\ \A o \in msgs : o.kind = "response" /\ o.goal \in Scripted => o \in msgs'
             /\ \A h \in Scripted :
                   IF h \in active' \ active
                   THEN h = m.goal /\ active' = {h} /\ proc'[h] = "running" /\ msgs' \subseteq msgs
                   ELSE /\ proc[h] = "idle" <=> proc'[h] = "idle"
                        /\ proc'[h] = "running" => proc[h] = "running"
  <2>1. /\ EngineTypes' /\ ScriptsTracked' /\ Sends(m.goal)
        /\ ~panicked'
        /\ active' = active \cup {m.goal} /\ msgs' = q
        /\ proc' = [proc EXCEPT ![m.goal] = "running"]
    BY <1>1, <1>3, StartEffect
  <2>2. ASSUME NEW h \in Scripted
        PROVE  IF h \in active' \ active
               THEN h = m.goal /\ active' = {h} /\ proc'[h] = "running" /\ msgs' \subseteq msgs
               ELSE /\ proc[h] = "idle" <=> proc'[h] = "idle"
                    /\ proc'[h] = "running" => proc[h] = "running"
    BY <1>1, <1>3, <2>1, TableTypes DEF ScriptsTracked
  <2> QED BY <1>3, <2>1, <2>2
<1>4. ASSUME NEW q \in SUBSET rest, NEW D \in SUBSET Goals, NEW wait, NEW pend, NEW n,
             \A o \in msgs : o.kind = "response" => o \in q,
             QueueGoal(m.goal, m.rule, wait, MsgsAfterCancel(q, D), pend, n, ProcsAfterCancel(D))
      PROVE  /\ EngineTypes' /\ ScriptsTracked' /\ Sends(m.goal)
             /\ ~panicked' /\ m \notin msgs'
             /\ \A o \in msgs : o.kind = "response" /\ o.goal \in Scripted => o \in msgs'
             /\ active' = active
             /\ \A h \in Scripted : /\ proc[h] = "idle" <=> proc'[h] = "idle"
                                    /\ proc'[h] = "running" => proc[h] = "running"
  <2>1. /\ EngineTypes' /\ ScriptsTracked' /\ Sends(m.goal)
        /\ active' = active /\ panicked' = panicked
        /\ proc' = ProcsAfterCancel(D)
        /\ msgs' \cap msgs \subseteq q
        /\ \A o \in q : o.goal \in Scripted \/ o.kind # "response" => o \in msgs'
    <3>1. q \in SUBSET msgs OBVIOUS
    <3> QED BY <1>1, <1>4, <3>1, QueueEffect
  <2>2. m \notin q OBVIOUS
  <2> QED BY <1>4, <2>1, <2>2, CancelEffect
<1>5. CASE IgnoreDuplicate(m)
  <2>1. msgs' = (msgs \ {m}) \ QueuedIn(msgs)
        /\ UNCHANGED <<active, clock, proc, panicked>>
    BY <1>5 DEF IgnoreDuplicate
  <2>2. ScriptsTracked' BY <2>1 DEF ScriptsTracked
  <2>3. Sends(m.goal) BY <2>1 DEF Sends
  <2> QED BY <1>1, <1>2, <2>1, <2>2, <2>3
<1>6. CASE RunNow(m)
  <2>1. active = {} /\ StartGoal(m.goal, rest, pending, QueueSize(m), proc)
    BY <1>6 DEF RunNow, CanRunNow
  <2>2. \A o \in msgs : o.kind = "response" => o \in rest BY <1>1
  <2> QED BY <1>3, <2>1, <2>2
<1>7. CASE FlushAndRun(m)
  <2>1. active = {} /\ StartGoal(m.goal, rest \ QueuedIn(msgs), EmptyQueue, 0, proc)
    BY <1>7 DEF FlushAndRun
  <2>2. \A o \in msgs : o.kind = "response" => o \in rest \ QueuedIn(msgs) BY <1>1, <1>2
  <2> QED BY <1>3, <2>1, <2>2
<1>8. CASE FlushCancelAndWait(m)
  <2>1. QueueGoal(m.goal, m.rule, active, MsgsAfterCancel(rest \ QueuedIn(msgs), active),
                  EmptyQueue, 0, ProcsAfterCancel(active))
    BY <1>8 DEF FlushCancelAndWait
  <2>2. \A o \in msgs : o.kind = "response" => o \in rest \ QueuedIn(msgs) BY <1>1, <1>2
  <2>3. rest \ QueuedIn(msgs) \in SUBSET rest OBVIOUS
  <2> QED BY <1>4, <2>1, <2>2, <2>3
<1>9. CASE RunBeside(m)
  <2>1. /\ Contention[m.goal] = "concurrent"
        /\ StartGoal(m.goal, rest, pending, QueueSize(m), proc)
    BY <1>9 DEF RunBeside
  <2>2. m.goal \notin Scripted BY <2>1, ScriptsRunAlone
  <2>3. \A o \in msgs : o.kind = "response" => o \in rest BY <1>1
  <2> QED BY <1>3, <2>1, <2>2, <2>3
<1>10. CASE WaitInQueue(m)
  <2> DEFINE D == Excluded(m.goal)
             out == Dequeued(rest, pending, D)
  <2>1. QueueGoal(m.goal, m.rule, WaitFor(m.goal), MsgsAfterCancel(rest \ out, D),
                  SlotsAfterDeque(pending, D), QueueSize(m) - Cardinality(out), ProcsAfterCancel(D))
    BY <1>10 DEF WaitInQueue
  <2>2. \A o \in msgs : o.kind = "response" => o \in rest \ out BY <1>1 DEF Dequeued
  <2>3. D \in SUBSET Goals BY DEF Excluded
  <2>4. rest \ out \in SUBSET rest OBVIOUS
  <2> HIDE DEF D, out
  <2> QED BY <1>4, <2>1, <2>2, <2>3, <2>4
<1>11. CASE SlotsExhausted(m)
  <2>1. /\ \A s \in Slots : ~IsFree(SlotsAfterDeque(pending, Excluded(m.goal)), s)
        /\ panicked'
        /\ UNCHANGED <<active, pending, msgs, clock, proc>>
    BY <1>11 DEF SlotsExhausted
  <2>2. \A s \in Slots : ~IsFree(pending, s)
    BY <2>1 DEF IsFree, SlotsAfterDeque, FreeSlot
  <2>3. \A s \in Slots : ~IsFree(pending', s) BY <2>1, <2>2 DEF IsFree
  <2>4. panicked' \in BOOLEAN BY <1>11 DEF SlotsExhausted
  <2>5. ScriptsTracked' BY <2>1 DEF ScriptsTracked
  <2>6. Sends(m.goal) BY <2>1 DEF Sends
  <2> QED BY <2>1, <2>3, <2>4, <2>5, <2>6
<1>12. ~IgnoreNone(m) BY StopGoal DEF IgnoreNone, IsForNone
<1> QED BY <1>5, <1>6, <1>7, <1>8, <1>9, <1>10, <1>11, <1>12 DEF ActivateGoal

(***************************************************************************)
(* The messages to the topology.                                           *)
(***************************************************************************)
\* Delivering x leaves the other messages, and x is the oldest that can go.
LEMMA MailTaken ==
    ASSUME Types, NEW x \in mail, mail' = mail \ {x}
    PROVE  /\ mail' \in SUBSET Mail /\ x \in Mail /\ x.at \in Nat
           /\ \A what : In(what)' = In(what) \ {x}
           /\ \A what : what # x.what => In(what)' = In(what)
BY DEF Types, In, Mail

LEMMA StartHandled ==
    ASSUME TopologyInv, ~panicked, NEW x \in mail, x.what = "start", ~Waits(x), Oldest(x.at),
           mail' = mail \ {x}, HandleInternalStart,
           UNCHANGED <<active, pending, proc, panicked, asked, late>>
    PROVE  TopologyInv'
<1> USE DEF TopologyInv, Base
<1>1. /\ stopping' = "started" /\ (restarted => restarted') /\ restarted' \in BOOLEAN
      /\ UNCHANGED <<timers, owed, unasked, msgs, clock>>
  BY DEF HandleInternalStart, Types
<1>2. /\ mail' \in SUBSET Mail /\ x.at \in Nat
      /\ In("start")' \subseteq In("start") /\ In("stop")' = In("stop") /\ In("finished")' = In("finished")
  BY MailTaken
<1>3. Base'
  BY <1>1, <1>2 DEF Types, EngineTypes, Stamped, ScriptsTracked, StopsAlone, PanicsExplained, IsFree
<1>4. TimersOwed' BY <1>1, <1>2 DEF Watched, TimersOwed
<1>5. ASSUME OneStop PROVE OneStop'
  <2>1. x \in In("start") BY DEF In
  <2>2. ~Pursued BY <1>5, <2>1 DEF OneStop, Asking
  <2>3. ASSUME NEW m \in Answers PROVE FALSE
    <3>1. m \in msgs /\ ~Blocked(m) /\ m.at \in Nat
      BY DEF Answers, Blocked, Types, EngineTypes, Message
    <3>2. x.at =< m.at BY <3>1 DEF Oldest
    <3>3. m.at < x.at BY <1>5, <2>1 DEF OneStop, Stopping
    <3> QED BY <1>2, <3>1, <3>2, <3>3
  <2>4. proc[system_stop] = "idle"
    <3>1. proc[system_stop] \in {"idle", "running", "cancelling"}
      BY StopIsScripted DEF Types, EngineTypes
    <3> QED BY <1>5, <2>2, <2>3, <3>1 DEF OneStop, Stopping, Types
  <2>5. Answers' = Answers /\ StopDecisions' = StopDecisions
    BY <1>1 DEF Answers, StopDecisions
  <2>6. ~Pursued' BY <1>1, <1>2, <2>2 DEF Pursued
  <2> QED BY <1>1, <1>2, <1>5, <2>2, <2>4, <2>5, <2>6 DEF OneStop, Asking, Deciding, Stopping
<1> QED BY <1>1, <1>3, <1>4, <1>5 DEF Watched

\* A pairing result starts a topology that is stopping: the stop is still pursued.
LEMMA PairedHandled ==
    ASSUME TopologyInv, ~panicked, NEW x \in mail, x.what = "paired",
           mail' = mail \ {x}, HandleProcPeerPairResult,
           UNCHANGED <<active, pending, proc, panicked, asked, late>>
    PROVE  TopologyInv'
<1> USE DEF TopologyInv, Base
<1>1. /\ restarted' \in BOOLEAN /\ (restarted => restarted')
      /\ UNCHANGED <<timers, owed, unasked, msgs, clock>>
      /\ \/ stopping = "stopped" /\ stopping' = stopping
         \/ stopping = "started" /\ stopping' = stopping
         \/ stopping = "stopping" /\ stopping' = "started" /\ restarted'
  BY DEF HandleProcPeerPairResult, HandleInternalStart, Types
<1>2. /\ mail' \in SUBSET Mail
      /\ In("start")' = In("start") /\ In("stop")' = In("stop") /\ In("finished")' = In("finished")
  BY MailTaken
<1>3. Base'
  BY <1>1, <1>2 DEF Types, EngineTypes, Stamped, ScriptsTracked, StopsAlone, PanicsExplained, IsFree
<1>4. TimersOwed' BY <1>1, <1>2 DEF Watched, TimersOwed
<1>5. ASSUME OneStop PROVE OneStop'
  <2>1. Answers' = Answers /\ StopDecisions' = StopDecisions /\ (Pursued' <=> Pursued)
    BY <1>1, <1>2 DEF Answers, StopDecisions, Pursued
  <2>2. Asking'
    BY <1>1, <1>2, <1>5, <2>1 DEF OneStop, Asking
  <2>3. Deciding' BY <1>1, <1>5, <2>1 DEF OneStop, Deciding
  <2>4. Stopping' BY <1>1, <1>2, <1>5, <2>1 DEF OneStop, Stopping
  <2> QED BY <2>2, <2>3, <2>4 DEF OneStop
<1> QED BY <1>1, <1>3, <1>4, <1>5 DEF Watched

\* The confirmation of a stop: no timeout is left.
LEMMA Confirmed ==
    ASSUME Types, NEW status, SendStopCfm(status)
    PROVE  /\ timers' = 0 /\ owed' = 0 /\ unasked' \in BOOLEAN
           /\ ~unasked' => ~unasked /\ owed = 1 /\ In("stop")' = {}
           /\ ~unasked /\ owed = 1 /\ In("stop")' = {} => ~unasked'
<1>1. /\ timers' = 0 /\ owed' = 0
      /\ unasked' = (unasked \/ owed = 0 \/ \E x \in mail' : x.what = "stop")
  BY DEF SendStopCfm
<1>2. (\E x \in mail' : x.what = "stop") <=> In("stop")' # {} BY DEF In
<1>3. unasked' \in BOOLEAN BY <1>1
<1>4. owed = 0 <=> owed # 1 BY DEF Types
<1> QED BY <1>1, <1>2, <1>3, <1>4 DEF Types

LEMMA TimersOwedWhenConfirmed ==
    ASSUME Types, NEW status, SendStopCfm(status)
    PROVE  TimersOwed'
BY Confirmed DEF TimersOwed

LEMMA StopHandled ==
    ASSUME TopologyInv, ~panicked, NEW x \in mail, x.what = "stop", ~Waits(x), Oldest(x.at),
           mail' = mail \ {x}, HandleInternalStop,
           UNCHANGED <<active, pending, proc, panicked, asked, late, restarted>>
    PROVE  TopologyInv'
<1> USE DEF TopologyInv, Base
<1>1. /\ mail' \in SUBSET Mail /\ x.at \in Nat /\ x \in In("stop")
      /\ In("stop")' = In("stop") \ {x}
      /\ In("start")' = In("start") /\ In("finished")' = In("finished")
  BY MailTaken DEF In
<1>2. TimersOwed => (~unasked => In("stop")' = {} /\ owed = 1 /\ asked = "down" /\ timers = 0)
  BY <1>1 DEF TimersOwed, Types
<1>3. ASSUME OneStop PROVE In("start") = {} /\ owed = 1 /\ In("stop")' = {} /\ StopDecisions = {}
  <2>1. ASSUME NEW y \in In("start") PROVE FALSE
    <3>1. y \in mail /\ y.what = "start" /\ y.at \in Nat BY DEF In, Types, Mail
    <3>2. x.at =< y.at BY <3>1 DEF Oldest, Waits
    <3>3. y.at < x.at BY <1>1, <1>3 DEF OneStop, Asking
    <3> QED BY <1>1, <3>1, <3>2, <3>3
  <2> QED BY <2>1, <1>1, <1>3 DEF OneStop, Asking, Deciding, Pursued
<1>4. CASE stopping = "stopped"
  <2>1. SendStopCfm("success") /\ UNCHANGED <<stopping, rule, msgs, clock>>
    BY <1>4 DEF HandleInternalStop
  <2>2. timers' = 0 /\ owed' = 0 /\ unasked' \in BOOLEAN
        /\ (~unasked /\ owed = 1 /\ In("stop")' = {} => ~unasked')
        /\ TimersOwed'
    BY <2>1, Confirmed, TimersOwedWhenConfirmed
  <2>3. Base'
    BY <1>1, <2>1, <2>2 DEF Types, EngineTypes, Stamped, ScriptsTracked, StopsAlone, PanicsExplained, IsFree
  <2>4. Answers' = Answers /\ StopDecisions' = StopDecisions
    BY <2>1 DEF Answers, StopDecisions
  <2>5. ASSUME OneStop PROVE OneStop'
    BY <1>1, <1>3, <1>4, <2>1, <2>2, <2>4, <2>5 DEF OneStop, Asking, Deciding, Stopping, Pursued
  <2> QED BY <1>3, <2>2, <2>3, <2>5 DEF Watched
<1>5. CASE stopping = "started"
  <2>1. /\ timers' = timers + 1 /\ UNCHANGED <<stopping, owed, unasked, result>>
        /\ SetShutdownEvent
    BY <1>5 DEF HandleInternalStop
  <2>2. /\ EngineTypes' /\ clock =< clock'
        /\ \A m \in msgs' : m \in msgs \/ (m.kind = "decision" /\ m.at < clock')
        /\ Answers' = Answers
        /\ \A m, n \in StopDecisions' : StopDecisions = {} => m = n
    <3>1. CASE rule = "in_progress"
      BY <2>1, <3>1 DEF SetShutdownEvent, EngineTypes, Types, Answers, StopDecisions
    <3>2. CASE rule # "in_progress"
      <4> DEFINE new == Msg("decision", SystemStop, system_stop, 1, clock)
      <4>1. msgs' = msgs \cup {new} /\ clock' = clock + 1
        BY <2>1, <3>2 DEF SetShutdownEvent
      <4>2. /\ new \in Message /\ new.kind = "decision" /\ new.at = clock /\ clock \in Nat
            /\ new.goal = system_stop
        BY StopIsScripted, StopGoal, Bounds DEF Message, Msg, Slots, Types, EngineTypes
      <4> HIDE DEF new
      <4> QED BY <4>1, <4>2 DEF EngineTypes, Types, Answers, StopDecisions
    <3> QED BY <3>1, <3>2
  <2>3. Types' BY <1>1, <2>1, <2>2 DEF Types
  <2>4. \A m \in msgs : m.at < clock' BY <2>2 DEF Stamped, Types, EngineTypes, Message
  <2>5. \A y \in mail' : y.at < clock' BY <2>2 DEF Stamped, Types, EngineTypes, Mail
  <2>6. Base'
    BY <2>1, <2>2, <2>3, <2>4, <2>5 DEF Stamped, ScriptsTracked, StopsAlone, PanicsExplained, IsFree
  <2>7. TimersOwed' BY <1>1, <1>2, <2>1 DEF Watched, TimersOwed, Types
  <2>8. ASSUME OneStop PROVE OneStop'
    BY <1>1, <1>3, <1>5, <2>1, <2>2, <2>8 DEF OneStop, Asking, Deciding, Stopping, Pursued
  <2> QED BY <2>1, <2>6, <2>7, <2>8 DEF Watched
<1>6. CASE stopping = "stopping"
  <2>1. UNCHANGED <<stopping, timers, rule, owed, unasked, result, msgs, clock>>
    BY <1>6 DEF HandleInternalStop
  <2>2. Base'
    BY <1>1, <2>1 DEF Types, EngineTypes, Stamped, ScriptsTracked, StopsAlone, PanicsExplained, IsFree
  <2>3. TimersOwed' BY <1>1, <2>1 DEF Watched, TimersOwed
  <2>4. ~OneStop BY <1>1, <1>6 DEF OneStop, Stopping, Pursued
  <2> QED BY <2>1, <2>2, <2>3, <2>4 DEF Watched
<1> QED BY <1>4, <1>5, <1>6 DEF Types

LEMMA FinishedHandled ==
    ASSUME TopologyInv, ~panicked, NEW x \in mail, x.what = "finished",
           mail' = mail \ {x}, HandleStopCompletion,
           UNCHANGED <<active, pending, proc, panicked, asked, late, restarted>>
    PROVE  TopologyInv'
<1> USE DEF TopologyInv, Base
<1>1. /\ mail' \in SUBSET Mail /\ x.at \in Nat /\ x \in In("finished")
      /\ In("finished")' = In("finished") \ {x}
      /\ In("start")' = In("start") /\ In("stop")' = In("stop")
  BY MailTaken DEF In
<1>2. UNCHANGED <<rule, msgs, clock>> BY DEF HandleStopCompletion
<1>3. Answers' = Answers /\ StopDecisions' = StopDecisions
  BY <1>2 DEF Answers, StopDecisions
<1>4. CASE stopping = "stopping"
  <2>1. stopping' = "stopped" /\ SendStopCfm("success")
    BY <1>4 DEF HandleStopCompletion
  <2>2. timers' = 0 /\ owed' = 0 /\ unasked' \in BOOLEAN
        /\ (~unasked /\ owed = 1 /\ In("stop")' = {} => ~unasked')
        /\ TimersOwed'
    BY <2>1, Confirmed, TimersOwedWhenConfirmed
  <2>3. Base'
    BY <1>1, <1>2, <2>1, <2>2
    DEF Types, EngineTypes, Stamped, ScriptsTracked, StopsAlone, PanicsExplained, IsFree
  <2>4. ASSUME OneStop PROVE OneStop' /\ (~unasked => ~unasked')
    BY <1>1, <1>3, <1>4, <2>1, <2>2, <2>4 DEF OneStop, Asking, Deciding, Stopping, Pursued
  <2> QED BY <2>2, <2>3, <2>4 DEF Watched
<1>5. CASE stopping # "stopping"
  <2>1. UNCHANGED <<stopping, timers, owed, unasked, result>> BY <1>5 DEF HandleStopCompletion
  <2>2. Base'
    BY <1>1, <1>2, <2>1 DEF Types, EngineTypes, Stamped, ScriptsTracked, StopsAlone, PanicsExplained, IsFree
  <2>3. TimersOwed' BY <1>1, <2>1 DEF Watched, TimersOwed
  <2>4. ASSUME OneStop PROVE OneStop'
    BY <1>1, <1>3, <2>1, <2>4 DEF OneStop, Asking, Deciding, Stopping, Pursued
  <2> QED BY <2>1, <2>2, <2>3, <2>4 DEF Watched
<1> QED BY <1>4, <1>5

LEMMA MailDelivered ==
    ASSUME TopologyInv, DeliverMail
    PROVE  TopologyInv'
<1>1. ~panicked /\ UNCHANGED <<active, pending, proc, panicked, asked, late>>
  BY DEF DeliverMail
<1>2. PICK x \in mail :
        /\ ~Waits(x) /\ Oldest(x.at)
        /\ mail' = mail \ {x}
        /\ \/ x.what = "start"    /\ HandleInternalStart
           \/ x.what = "paired"   /\ HandleProcPeerPairResult
           \/ x.what = "stop"     /\ HandleInternalStop /\ UNCHANGED restarted
           \/ x.what = "finished" /\ HandleStopCompletion /\ UNCHANGED restarted
  BY DEF DeliverMail
<1> QED BY <1>1, <1>2, StartHandled, PairedHandled, StopHandled, FinishedHandled

LEMMA TimedOut ==
    ASSUME TopologyInv, HandleStopTimeout
    PROVE  TopologyInv'
<1> USE DEF TopologyInv, Base
<1>1. /\ UNCHANGED <<vars, mail, asked, restarted>>
      /\ SendStopCfm("fail") /\ stopping' = "stopped" /\ late' = TRUE
  BY DEF HandleStopTimeout
<1>2. timers' = 0 /\ owed' = 0 /\ unasked' \in BOOLEAN /\ TimersOwed'
  BY <1>1, Confirmed, TimersOwedWhenConfirmed
<1>3. Base'
  BY <1>1, <1>2
  DEF vars, Types, EngineTypes, Stamped, ScriptsTracked, StopsAlone, PanicsExplained, IsFree
<1> QED BY <1>1, <1>2, <1>3 DEF Watched

(***************************************************************************)
(* Decisions, answers and confirmations.                                   *)
(***************************************************************************)
\* What the step of a goal leaves alone.
LEMMA RequestsUntouched ==
    ASSUME UNCHANGED <<mail, timers, asked, owed, unasked>>
    PROVE  /\ \A what : In(what)' = In(what)
           /\ Pursued' <=> Pursued
           /\ TimersOwed => TimersOwed'
BY DEF In, TimersOwed, Pursued

\* A pairing result in the mail changes no request.
LEMMA ResultSent ==
    ASSUME Types, Stamped, Paired, UNCHANGED <<timers, asked, owed, unasked>>
    PROVE  /\ mail' \in SUBSET Mail /\ \A x \in mail' : x.at < clock'
           /\ clock' \in Nat /\ \A m \in msgs : m.at < clock'
           /\ In("start")' = In("start") /\ In("stop")' = In("stop") /\ In("finished")' = In("finished")
           /\ Pursued' <=> Pursued
           /\ TimersOwed => TimersOwed'
<1> DEFINE new == [what |-> "paired", at |-> clock]
<1>1. mail' = mail \cup {new} /\ clock' = clock + 1 BY DEF Paired
<1>2. clock \in Nat BY DEF Types, EngineTypes
<1>3. new \in Mail /\ new.what = "paired" /\ new.at = clock BY <1>2 DEF Mail
<1> HIDE DEF new
<1>4. mail' \in SUBSET Mail BY <1>1, <1>3 DEF Types
<1>5. \A x \in mail' : x.at < clock' BY <1>1, <1>2, <1>3 DEF Types, Stamped, Mail
<1>6. \A m \in msgs : m.at < clock' BY <1>1, <1>2 DEF Types, EngineTypes, Stamped, Message
<1>7. In("start")' = In("start") /\ In("stop")' = In("stop") /\ In("finished")' = In("finished")
  BY <1>1, <1>3 DEF In
<1> QED BY <1>1, <1>2, <1>4, <1>5, <1>6, <1>7 DEF TimersOwed, Pursued

LEMMA DecisionDropped ==
    ASSUME TopologyInv, NEW m \in msgs, DropDecision(m), ~panicked,
           UNCHANGED <<timers, asked, owed, unasked, late, restarted>>
    PROVE  TopologyInv'
<1> USE DEF TopologyInv, Base
<1>1. /\ IsDecision(m) /\ stopping # "started" /\ msgs' = msgs \ {m}
      /\ UNCHANGED <<active, pending, clock, proc, panicked, stopping, mail>>
  BY DEF DropDecision, Ignore, AcceptsDecisions
<1>2. Base'
  BY <1>1 DEF Types, EngineTypes, Stamped, ScriptsTracked, StopsAlone, PanicsExplained, IsFree
<1>3. Answers' = Answers BY <1>1 DEF Answers, IsDecision
<1>4. StopDecisions' = StopDecisions \ {m} BY <1>1 DEF StopDecisions
<1>5. ASSUME OneStop PROVE OneStop'
  BY <1>1, <1>3, <1>4, <1>5, RequestsUntouched DEF OneStop, Asking, Deciding, Stopping, Pursued
<1> QED BY <1>1, <1>2, <1>5, RequestsUntouched DEF Watched

LEMMA CancelPanics ==
    ASSUME TopologyInv, NEW m \in msgs, PanicOnCancel(m), ~panicked,
           UNCHANGED <<timers, asked, owed, unasked, late, restarted>>
    PROVE  TopologyInv'
<1> USE DEF TopologyInv, Base
<1>1. /\ stopping = "started" /\ proc[system_stop] = "running" /\ panicked' = TRUE
      /\ UNCHANGED <<active, pending, msgs, clock, proc, stopping, mail>>
  BY DEF PanicOnCancel, AcceptsDecisions, CancelsLastStep
<1>2. late \/ restarted
  BY <1>1 DEF Watched, OneStop, Stopping
<1>3. Base'
  BY <1>1, <1>2 DEF Types, EngineTypes, Stamped, ScriptsTracked, StopsAlone, PanicsExplained
<1> QED BY <1>1, <1>2, <1>3, RequestsUntouched DEF Watched

LEMMA DecisionHandled ==
    ASSUME TopologyInv, NEW m \in msgs, HandleGoalDecision(m), ~panicked,
           UNCHANGED <<timers, asked, owed, unasked, late, restarted>>
    PROVE  TopologyInv'
<1> USE DEF TopologyInv, Base
<1>1. /\ stopping = "started" /\ ActivateGoal(m)
      /\ stopping' = IF system_stop \in active' \ active THEN "stopping" ELSE stopping
      /\ UNCHANGED mail
  BY DEF HandleGoalDecision, AcceptsDecisions
<1>2. /\ EngineTypes' /\ ScriptsTracked' /\ Sends(m.goal)
      /\ panicked' => msgs' = msgs /\ \A s \in Slots : ~IsFree(pending', s)
      /\ ~panicked' => m \notin msgs'
      /\ \A n \in msgs : n.kind = "response" /\ n.goal \in Scripted => n \in msgs'
      /\ \A h \in Scripted :
            IF h \in active' \ active
            THEN /\ h = m.goal /\ active' = {h} /\ proc'[h] = "running"
                 /\ ~panicked' /\ msgs' \subseteq msgs
            ELSE /\ proc[h] = "idle" <=> proc'[h] = "idle"
                 /\ proc'[h] = "running" => proc[h] = "running"
  BY <1>1, ActivateEffect DEF Types
<1>3. Types' BY <1>1, <1>2 DEF Types
<1>4. \A n \in msgs' : n.at < clock'
  BY <1>2 DEF Sends, Stamped, Types, EngineTypes, Message
<1>5. \A x \in mail' : x.at < clock'
  BY <1>1, <1>2 DEF Sends, Stamped, Types, EngineTypes, Mail
<1>6. StopsAlone' BY <1>1, <1>2, StopIsScripted DEF StopsAlone
<1>7. PanicsExplained' BY <1>2 DEF PanicsExplained, IsFree
<1>8. Base' BY <1>2, <1>3, <1>4, <1>5, <1>6, <1>7 DEF Stamped
<1>9. ASSUME OneStop, ~panicked' PROVE OneStop'
  <2>1. Answers' = Answers BY <1>2, StopIsScripted DEF Answers, Sends
  <2>2. IsDecision(m) BY <1>1 DEF ActivateGoal
  <2>3. ASSUME NEW n \in StopDecisions', n \notin msgs PROVE m.goal = system_stop /\ n.kind = "queued"
    BY <1>2, <2>3, StopIsScripted DEF StopDecisions, Sends
  <2>4. \A n, o \in StopDecisions' : n = o
    <3>1. ASSUME NEW n \in StopDecisions', NEW o \in StopDecisions', n \in msgs, o \notin msgs
          PROVE  FALSE
      <4>1. m \in StopDecisions /\ n \in StopDecisions
        BY <2>2, <2>3, <3>1 DEF StopDecisions
      <4> QED BY <1>2, <1>9, <3>1, <4>1 DEF OneStop, Deciding, StopDecisions
    <3>2. ASSUME NEW n \in StopDecisions', NEW o \in StopDecisions', n \in msgs, o \in msgs
          PROVE  n = o
      BY <1>9, <3>2 DEF OneStop, Deciding, StopDecisions
    <3>3. ASSUME NEW n \in StopDecisions', NEW o \in StopDecisions', n \notin msgs, o \notin msgs
          PROVE  n = o
      BY <1>2, <2>3, <3>3 DEF Sends, StopDecisions
    <3> QED BY <3>1, <3>2, <3>3
  <2>5. StopDecisions' # {} => StopDecisions # {}
    BY <2>2, <2>3 DEF StopDecisions
  <2>6. CASE system_stop \in active' \ active
    <3>1. stopping' = "stopping" /\ proc'[system_stop] = "running" /\ m.goal = system_stop
          /\ msgs' \subseteq msgs
      BY <1>1, <1>2, <2>6, StopIsScripted
    <3>2. m \in StopDecisions /\ m \notin msgs' BY <1>2, <1>9, <2>2, <3>1 DEF StopDecisions
    <3>3. StopDecisions' = {} BY <3>1, <3>2, <1>9 DEF StopDecisions, OneStop, Deciding
    <3> QED BY <1>1, <1>9, <2>1, <3>1, <3>2, <3>3, RequestsUntouched DEF OneStop, Asking, Deciding, Stopping, Pursued
  <2>7. CASE system_stop \notin active' \ active
    <3>1. /\ stopping' = "started"
          /\ proc[system_stop] = "idle" <=> proc'[system_stop] = "idle"
          /\ proc'[system_stop] = "running" => proc[system_stop] = "running"
      BY <1>1, <1>2, <2>7, StopIsScripted
    <3>2. Pursued' <=> Pursued BY <1>1, RequestsUntouched
    <3>3. Asking' BY <1>1, <1>9, <3>1, <3>2, RequestsUntouched DEF OneStop, Asking
    <3>4. Deciding' BY <1>1, <1>9, <2>4, <2>5, <3>1, <3>2 DEF OneStop, Deciding
    <3>5. Stopping' BY <1>1, <1>9, <2>1, <2>5, <3>1, <3>2, RequestsUntouched DEF OneStop, Stopping
    <3> QED BY <3>3, <3>4, <3>5 DEF OneStop
  <2> QED BY <2>6, <2>7
<1> QED BY <1>1, <1>8, <1>9, RequestsUntouched DEF Watched

\* A message of a procedure clears its goal; when it is the stop script's answer,
\* the stop has been confirmed, or will be, or is left to its timeout.
LEMMA GoalCleared ==
    ASSUME TopologyInv, ~panicked, NEW m \in msgs,
           active' = active \ {m.goal}, msgs' = msgs \ {m},
           \/ m.kind = "cancelled" /\ UNCHANGED proc
           \/ m.kind = "response" /\ proc' = [proc EXCEPT ![m.goal] = "idle"],
           UNCHANGED <<panicked, stopping, timers, asked, owed, unasked, late, restarted>>,
           UNCHANGED <<mail, clock>> \/ Paired
    PROVE  TopologyInv'
<1> USE DEF TopologyInv, Base
<1>1. /\ mail' \in SUBSET Mail /\ clock' \in Nat
      /\ \A x \in mail' : x.at < clock'
      /\ \A n \in msgs : n.at < clock'
      /\ In("start")' = In("start") /\ In("stop")' = In("stop") /\ In("finished")' = In("finished")
      /\ Pursued' <=> Pursued
      /\ TimersOwed'
  <2>1. CASE UNCHANGED <<mail, clock>>
    BY <2>1, RequestsUntouched DEF Types, EngineTypes, Stamped, Watched
  <2>2. CASE Paired BY <2>2, ResultSent DEF Watched
  <2> QED BY <2>1, <2>2
<1>2. m.goal \in Goals BY DEF Types, EngineTypes, Message
<1>3. Types' BY <1>1, <1>2 DEF Types, EngineTypes
<1>4. ScriptsTracked' BY <1>2, TableTypes DEF ScriptsTracked, Types, EngineTypes
<1>5. Base' BY <1>1, <1>3, <1>4 DEF Stamped, StopsAlone, PanicsExplained
<1>6. ASSUME OneStop PROVE OneStop'
  <2>1. StopDecisions' = StopDecisions BY DEF StopDecisions, IsDecision
  <2>2. CASE m \notin Answers
    <3>1. Answers' = Answers BY <2>2 DEF Answers
    <3>2. proc'[system_stop] = proc[system_stop]
      BY <2>2, StopIsScripted DEF Answers, Types, EngineTypes
    <3> QED BY <1>1, <1>6, <2>1, <3>1, <3>2 DEF OneStop, Asking, Deciding, Stopping
  <2>3. CASE m \in Answers
    <3>1. Answers' = {} /\ proc'[system_stop] = "idle"
      BY <1>6, <2>3, StopIsScripted DEF Answers, OneStop, Stopping, Types, EngineTypes
    <3> QED BY <1>1, <1>6, <2>1, <3>1 DEF OneStop, Asking, Deciding, Stopping
  <2> QED BY <2>2, <2>3
<1> QED BY <1>1, <1>5, <1>6 DEF Watched

LEMMA ProcedureHandled ==
    ASSUME TopologyInv, NEW m \in msgs, HandleProcedure(m) \/ FinishPairing(m), ~panicked,
           UNCHANGED <<timers, asked, owed, unasked, late, restarted>>
    PROVE  TopologyInv'
<1>1. /\ active' = active \ {m.goal} /\ msgs' = msgs \ {m}
      /\ \/ m.kind = "cancelled" /\ UNCHANGED proc
         \/ m.kind = "response" /\ proc' = [proc EXCEPT ![m.goal] = "idle"]
      /\ UNCHANGED <<panicked, stopping>>
      /\ UNCHANGED <<mail, clock>> \/ Paired
  <2>1. CASE HandleProcedure(m)
    BY <2>1 DEF HandleProcedure, ConfirmCancel, FinishProcedure, TakeAnswer, ClearGoal
  <2>2. CASE FinishPairing(m) BY <2>2 DEF FinishPairing, TakeAnswer, ClearGoal
  <2> QED BY <2>1, <2>2
<1>2. UNCHANGED <<panicked, stopping, timers, asked, owed, unasked, late, restarted>> BY <1>1
<1> QED BY <1>1, <1>2, GoalCleared

LEMMA MsgDelivered ==
    ASSUME TopologyInv, DeliverMsg
    PROVE  TopologyInv'
<1>1. ~panicked /\ UNCHANGED <<timers, asked, owed, unasked, late, restarted>>
  BY DEF DeliverMsg, application
<1>2. PICK m \in msgs :
        \/ DropDecision(m) \/ PanicOnCancel(m) \/ HandleGoalDecision(m)
        \/ HandleProcedure(m) \/ FinishPairing(m)
  BY DEF DeliverMsg
<1> QED BY <1>1, <1>2, DecisionDropped, CancelPanics, DecisionHandled, ProcedureHandled

(***************************************************************************)
(* The script, the services, the rules and the application.                *)
(***************************************************************************)
\* A message more for the engine, when nothing else of it changes.
LEMMA OneMore ==
    ASSUME Types, Stamped, ScriptsTracked, NEW n \in Message, n.at >= clock, n.kind # "cancelled",
           msgs' = msgs \cup {n}, clock' \in Nat, n.at < clock',
           UNCHANGED <<active, proc, panicked>>
    PROVE  /\ EngineTypes' /\ ScriptsTracked' /\ \A m \in msgs' : m.at < clock'
<1>1. n.at \in Nat BY DEF Message
<1>2. \A m \in msgs : m.at < clock' BY <1>1 DEF Stamped, Types, EngineTypes, Message
<1> QED BY <1>2 DEF Types, EngineTypes, ScriptsTracked

LEMMA ScriptFinishes ==
    ASSUME TopologyInv, FinishStopScript
    PROVE  TopologyInv'
<1> USE DEF TopologyInv, Base
<1> DEFINE told == [what |-> "finished", at |-> clock]
           answer == Msg("response", NoRule, system_stop, 1, clock + 1)
<1>1. /\ ~panicked /\ proc[system_stop] = "running" /\ Answers = {}
      /\ mail' = mail \cup {told} /\ msgs' = msgs \cup {answer} /\ clock' = clock + 2
      /\ UNCHANGED <<active, pending, proc, panicked,
                     stopping, timers, asked, owed, unasked, late, restarted>>
  BY DEF FinishStopScript, Answers, application
<1>2. clock \in Nat BY DEF Types, EngineTypes
<1>3. /\ answer \in Message /\ answer.kind = "response" /\ answer.goal = system_stop
      /\ answer.at = clock + 1
  BY <1>2, StopIsScripted, Bounds DEF Message, Msg, Slots
<1>4. told \in Mail /\ told.what = "finished" /\ told.at = clock BY <1>2 DEF Mail
<1> HIDE DEF told, answer
<1>5. EngineTypes' /\ ScriptsTracked' /\ \A m \in msgs' : m.at < clock'
  BY <1>1, <1>2, <1>3, OneMore
<1>6. Types' BY <1>1, <1>4, <1>5 DEF Types
<1>7. \A x \in mail' : x.at < clock' BY <1>1, <1>2, <1>4 DEF Stamped, Types, Mail
<1>8. Base' BY <1>1, <1>5, <1>6, <1>7 DEF Stamped, StopsAlone, PanicsExplained
<1>9. /\ In("start")' = In("start") /\ In("stop")' = In("stop")
      /\ In("finished")' = In("finished") \cup {told}
  BY <1>1, <1>4 DEF In
<1>10. Answers' = {answer} /\ StopDecisions' = StopDecisions
  BY <1>1, <1>3 DEF Answers, StopDecisions, IsDecision
<1>11. TimersOwed' BY <1>1, <1>9 DEF Watched, TimersOwed
<1>12. ASSUME OneStop PROVE OneStop'
  <2>1. Pursued /\ In("finished") = {} /\ In("start") = {} /\ StopDecisions = {}
    BY <1>1, <1>12 DEF OneStop, Asking, Deciding, Stopping, Types
  <2>2. Pursued' BY <1>1, <1>9, <2>1 DEF Pursued
  <2>3. Asking' /\ Deciding'
    BY <1>1, <1>9, <1>10, <1>12, <2>1, <2>2 DEF OneStop, Asking, Deciding
  <2>4. Stopping'
    BY <1>1, <1>9, <1>10, <1>12, <2>1, <2>2 DEF OneStop, Stopping
  <2> QED BY <2>3, <2>4 DEF OneStop
<1> QED BY <1>1, <1>8, <1>11, <1>12 DEF Watched

\* A late pairing result, and what it completes early.
LEMMA Strayed ==
    ASSUME TopologyInv, FindPeer \/ PairLate \/ CompleteEarly
    PROVE  TopologyInv'
<1> USE DEF TopologyInv, Base
<1>1. CASE FindPeer
  <2>1. UNCHANGED <<active, pending, msgs, clock, proc, panicked, stopping, mail, timers,
                    asked, owed, unasked, late, restarted>>
    BY <1>1 DEF FindPeer, vars, application
  <2> QED BY <2>1, RequestsUntouched
      DEF Types, EngineTypes, Stamped, ScriptsTracked, StopsAlone, PanicsExplained, IsFree,
          Watched, OneStop, Asking, Deciding, Stopping, Pursued, Answers, StopDecisions
<1>2. CASE PairLate
  <2>1. /\ Paired
        /\ UNCHANGED <<active, pending, msgs, proc, panicked, stopping, timers,
                       asked, owed, unasked, late, restarted>>
    BY <1>2 DEF PairLate, application
  <2>2. /\ mail' \in SUBSET Mail /\ clock' \in Nat
        /\ \A x \in mail' : x.at < clock'
        /\ \A n \in msgs : n.at < clock'
        /\ In("start")' = In("start") /\ In("stop")' = In("stop") /\ In("finished")' = In("finished")
        /\ Pursued' <=> Pursued
        /\ TimersOwed'
    BY <2>1, ResultSent DEF Watched
  <2>3. Base'
    BY <2>1, <2>2
    DEF Types, EngineTypes, Stamped, ScriptsTracked, StopsAlone, PanicsExplained, IsFree
  <2>4. Answers' = Answers /\ StopDecisions' = StopDecisions BY <2>1 DEF Answers, StopDecisions
  <2>5. OneStop => OneStop' BY <2>1, <2>2, <2>4 DEF OneStop, Asking, Deciding, Stopping
  <2> QED BY <2>1, <2>2, <2>3, <2>5 DEF Watched
<1>3. CASE CompleteEarly
  <2>1. PICK m \in msgs : TakeAnswer(m) /\ UNCHANGED clock BY <1>3 DEF CompleteEarly
  <2>2. /\ ~panicked
        /\ UNCHANGED <<stopping, mail, timers, asked, owed, unasked, late, restarted>>
    BY <1>3 DEF CompleteEarly, application
  <2>3. /\ active' = active \ {m.goal} /\ msgs' = msgs \ {m} /\ UNCHANGED panicked
        /\ m.kind = "response" /\ proc' = [proc EXCEPT ![m.goal] = "idle"]
    BY <2>1 DEF TakeAnswer, ClearGoal
  <2>4. /\ UNCHANGED <<panicked, stopping, timers, asked, owed, unasked, late, restarted>>
        /\ UNCHANGED <<mail, clock>>
    BY <2>1, <2>2, <2>3
  <2> QED BY <2>2, <2>3, <2>4, GoalCleared
<1> QED BY <1>1, <1>2, <1>3

LEMMA ProcedureResponds ==
    ASSUME TopologyInv, NEW g \in Goals, RespondProcedure(g)
    PROVE  TopologyInv'
<1> USE DEF TopologyInv, Base
<1> DEFINE answer == Msg("response", NoRule, g, 1, clock)
<1>1. /\ ~panicked /\ (g = system_stop => proc[g] = "cancelling")
      /\ msgs' = msgs \cup {answer} /\ clock' = clock + 1
      /\ UNCHANGED <<active, pending, proc, panicked>> /\ UNCHANGED topology
  BY DEF RespondProcedure, Respond
<1>2. clock \in Nat BY DEF Types, EngineTypes
<1>3. answer \in Message /\ answer.kind = "response" /\ answer.goal = g /\ answer.at = clock
  BY <1>2, Bounds DEF Message, Msg, Slots
<1> HIDE DEF answer
<1>4. EngineTypes' /\ ScriptsTracked' /\ \A m \in msgs' : m.at < clock'
  BY <1>1, <1>2, <1>3, OneMore
<1>5. Types' BY <1>1, <1>4 DEF Types, topology, application
<1>6. \A x \in mail' : x.at < clock' BY <1>1, <1>2 DEF topology, application, Stamped, Types, Mail
<1>7. Base' BY <1>1, <1>4, <1>5, <1>6 DEF topology, application, Stamped, StopsAlone, PanicsExplained
<1>8. ASSUME OneStop PROVE OneStop'
  <2>1. StopDecisions' = StopDecisions BY <1>1, <1>3 DEF StopDecisions, IsDecision
  <2>2. UNCHANGED <<mail, timers, asked, owed, unasked, late, restarted, stopping, proc>>
    BY <1>1 DEF topology, application
  <2>3. CASE g # system_stop
    <3>1. Answers' = Answers BY <1>1, <1>3, <2>3 DEF Answers
    <3> QED BY <1>8, <2>1, <2>2, <3>1, RequestsUntouched DEF OneStop, Asking, Deciding, Stopping
  <2>4. CASE g = system_stop
    <3>1. stopping = "started" /\ Pursued /\ In("start") = {} /\ proc[system_stop] = "cancelling"
      BY <1>1, <1>8, <2>4 DEF OneStop, Asking, Stopping
    <3>2. Answers' = {answer} BY <1>1, <1>3, <2>4 DEF Answers, Respond, RespondProcedure
    <3> QED BY <1>8, <2>1, <2>2, <3>1, <3>2, RequestsUntouched DEF OneStop, Asking, Deciding, Stopping
  <2> QED BY <2>3, <2>4
<1> QED BY <1>1, <1>7, <1>8, RequestsUntouched DEF topology, application, Watched

LEMMA RuleDecides ==
    ASSUME TopologyInv, NEW r \in Rules, DecideGoal(r)
    PROVE  TopologyInv'
<1> USE DEF TopologyInv, Base
<1> DEFINE new == Msg("decision", r, GoalOf[r], 1, clock)
<1>1. /\ ~panicked /\ r # SystemStop
      /\ msgs' = msgs \cup {new} /\ clock' = clock + 1
      /\ UNCHANGED <<active, pending, proc, panicked>> /\ UNCHANGED topology
  BY DEF DecideGoal, Decide
<1>2. clock \in Nat BY DEF Types, EngineTypes
<1>3. new \in Message /\ new.kind = "decision" /\ new.goal # system_stop /\ new.at = clock
  BY <1>1, <1>2, TableTypes, StopGoal, Bounds DEF Message, Msg, Slots
<1> HIDE DEF new
<1>4. EngineTypes' /\ ScriptsTracked' /\ \A m \in msgs' : m.at < clock'
  BY <1>1, <1>2, <1>3, OneMore
<1>5. Types' BY <1>1, <1>4 DEF Types, topology, application
<1>6. \A x \in mail' : x.at < clock' BY <1>1, <1>2 DEF topology, application, Stamped, Types, Mail
<1>7. Base' BY <1>1, <1>4, <1>5, <1>6 DEF topology, application, Stamped, StopsAlone, PanicsExplained
<1>8. Answers' = Answers /\ StopDecisions' = StopDecisions
  BY <1>1, <1>3 DEF Answers, StopDecisions, IsDecision
<1>9. ASSUME OneStop PROVE OneStop'
  BY <1>1, <1>8, <1>9, RequestsUntouched DEF topology, application, OneStop, Asking, Deciding, Stopping, Pursued
<1> QED BY <1>1, <1>7, <1>9, RequestsUntouched DEF topology, application, Watched

\* A request comes when nothing is owed, so no other stop is anywhere.
LEMMA Requested ==
    ASSUME TopologyInv, NEW what \in {"start", "stop"}, Request(what),
           asked' \in {"up", "down"},
           what = "stop" => asked' = "down" /\ owed' = 1, what = "start" => owed' = owed
    PROVE  TopologyInv'
<1> USE DEF TopologyInv, Base
<1> DEFINE x == [what |-> what, at |-> clock]
<1>1. /\ ~panicked /\ owed = 0
      /\ mail' = mail \cup {x} /\ clock' = clock + 1
      /\ UNCHANGED <<active, pending, msgs, proc, panicked, stopping, timers, unasked, late, restarted>>
  BY DEF Request
<1>2. clock \in Nat BY DEF Types, EngineTypes
<1>3. x \in Mail /\ x.what = what /\ x.at = clock BY <1>2 DEF Mail
<1> HIDE DEF x
<1>4. owed' \in {0, 1} /\ (owed' = 1 => what = "stop") BY <1>1
<1>5. Types' BY <1>1, <1>2, <1>3, <1>4 DEF Types, EngineTypes
<1>6. \A m \in msgs' : m.at < clock' BY <1>1, <1>2 DEF Stamped, Types, EngineTypes, Message
<1>7. \A y \in mail' : y.at < clock' BY <1>1, <1>2, <1>3 DEF Stamped, Types, Mail
<1>8. Base'
  BY <1>1, <1>5, <1>6, <1>7 DEF Stamped, ScriptsTracked, StopsAlone, PanicsExplained
<1>9. /\ In(what)' = In(what) \cup {x}
      /\ \A other : other # what => In(other)' = In(other)
  BY <1>1, <1>3 DEF In
<1>10. TimersOwed'
  BY <1>1, <1>9 DEF Watched, TimersOwed, Types
<1>11. Answers' = Answers /\ StopDecisions' = StopDecisions
  BY <1>1 DEF Answers, StopDecisions
<1>12. ASSUME OneStop PROVE OneStop'
  <2>1. /\ In("stop") = {} /\ StopDecisions = {} /\ stopping # "stopping" /\ In("finished")' = {}
        /\ ~Pursued /\ ~Pursued'
    BY <1>1, <1>9, <1>12 DEF OneStop, Asking, Deciding, Stopping, Pursued
  <2>2. \A y \in mail : y.at < clock BY DEF Stamped
  <2>3. \A m \in Answers : m.at < clock BY DEF Stamped, Answers
  <2>4. Deciding' /\ Stopping'
    <3>1. Deciding' BY <1>1, <1>11, <1>12, <2>1 DEF OneStop, Deciding
    <3>2. \A y \in In("start")', m \in Answers : m.at < y.at
      BY <1>3, <1>9, <1>12, <2>3 DEF OneStop, Stopping
    <3> QED BY <1>1, <1>11, <1>12, <2>1, <3>1, <3>2 DEF OneStop, Stopping
  <2>5. Asking'
    <3>1. CASE what = "stop"
      <4>1. In("stop")' = {x} /\ In("start")' = In("start") BY <1>9, <2>1, <3>1
      <4>2. \A y \in In("start") : y.at < x.at BY <1>3, <2>2 DEF In
      <4> QED BY <3>1, <4>1, <4>2 DEF Asking, Pursued
    <3>2. CASE what = "start"
      <4>1. In("stop")' = {} BY <1>9, <2>1, <3>2
      <4> QED BY <1>1, <2>1, <3>2, <4>1 DEF Asking
    <3> QED BY <3>1, <3>2
  <2> QED BY <2>4, <2>5 DEF OneStop
<1> QED BY <1>1, <1>8, <1>10, <1>12 DEF Watched

LEMMA LockTurns ==
    ASSUME TopologyInv, TakeShutdownPrepareLock \/ HandleMarshalledMsgChannelTxCfm
    PROVE  TopologyInv'
<1>1. UNCHANGED <<vars, stopping, mail, timers, asked, owed, unasked, late, restarted>>
  BY DEF TakeShutdownPrepareLock, HandleMarshalledMsgChannelTxCfm, application
<1> QED BY <1>1, RequestsUntouched
    DEF TopologyInv, Base, vars, Types, EngineTypes, Stamped, ScriptsTracked, StopsAlone, PanicsExplained,
        IsFree, Watched, OneStop, Asking, Deciding, Stopping, Pursued, Answers, StopDecisions

(***************************************************************************)
(* The invariant, and what follows from it.                                *)
(***************************************************************************)
LEMMA TopologyInitially == TopologyInit => TopologyInv
<1> SUFFICES ASSUME TopologyInit PROVE TopologyInv
  OBVIOUS
<1> USE DEF TopologyInit, Init
<1>1. Types BY DEF Types, EngineTypes
<1>2. Base BY <1>1, StopIsScripted, TableTypes DEF Base, Stamped, ScriptsTracked, StopsAlone, PanicsExplained
<1>3. \A what : In(what) = {} BY DEF In
<1>4. Answers = {} /\ StopDecisions = {} /\ proc[system_stop] = "idle"
  BY StopIsScripted DEF Answers, StopDecisions
<1> QED BY <1>2, <1>3, <1>4
    DEF TopologyInv, Watched, TimersOwed, OneStop, Asking, Deciding, Stopping, Pursued

LEMMA TopologyStep == TopologyInv /\ [TopologyNext]_allVars => TopologyInv'
<1> SUFFICES ASSUME TopologyInv, [TopologyNext]_allVars PROVE TopologyInv'
  OBVIOUS
<1>1. CASE DeliverMail BY <1>1, MailDelivered
<1>2. CASE DeliverMsg BY <1>2, MsgDelivered
<1>3. CASE HandleStopTimeout BY <1>3, TimedOut
<1>4. CASE FinishStopScript BY <1>4, ScriptFinishes
<1>5. CASE \E g \in Goals : RespondProcedure(g) BY <1>5, ProcedureResponds
<1>6. CASE \E r \in Rules : DecideGoal(r) BY <1>6, RuleDecides
<1>7. CASE Start
  <2>1. asked' = "up" /\ Request("start") /\ owed' = owed BY <1>7 DEF Start
  <2> QED BY <2>1, Requested
<1>8. CASE Stop
  <2>1. asked' = "down" /\ Request("stop") /\ owed' = 1 BY <1>8 DEF Stop
  <2> QED BY <2>1, Requested
<1>9. CASE TakeShutdownPrepareLock \/ HandleMarshalledMsgChannelTxCfm BY <1>9, LockTurns
<1>10. CASE FindPeer \/ PairLate \/ CompleteEarly BY <1>10, Strayed
<1>11. CASE UNCHANGED allVars
  <2>1. UNCHANGED <<vars, topology>> BY <1>11 DEF allVars
  <2>2. UNCHANGED <<active, pending, msgs, clock, proc, panicked, stopping, mail, timers, asked, owed, unasked, late, restarted>>
    BY <2>1 DEF vars, topology, application
  <2> QED BY <2>2, RequestsUntouched
      DEF TopologyInv, Base, Types, EngineTypes, Stamped, ScriptsTracked, StopsAlone, PanicsExplained,
          IsFree, Watched, OneStop, Asking, Deciding, Stopping, Pursued, Answers, StopDecisions
<1> QED BY <1>1, <1>2, <1>3, <1>4, <1>5, <1>6, <1>7, <1>8, <1>9, <1>10, <1>11 DEF TopologyNext

\* Until a stop times out, at most one stop is anywhere between the request and
\* its confirmation, whatever the goals in progress do.
THEOREM TopologyInductive == TopologySpec => []TopologyInv
BY TopologyInitially, TopologyStep, PTL DEF TopologySpec

\* A stop timeout that is armed belongs to the stop the application waits for.
THEOREM TimeoutOwned == TopologySpec => []TimeoutBelongsToStop
<1>1. TopologyInv => TimeoutBelongsToStop
  BY DEF TopologyInv, Base, Types, Watched, TimersOwed, TimeoutBelongsToStop
<1> QED BY <1>1, TopologyInductive, PTL

\* A stop is confirmed to a caller who did not ask only after a stop has timed out,
\* and a script is cancelled at its last step only after that or a restart.
THEOREM OnlyTheLateStray == TopologySpec => []AskedUnlessLate
<1>1. TopologyInv => AskedUnlessLate
  BY DEF TopologyInv, Base, Watched, PanicsExplained, AskedUnlessLate
<1> QED BY <1>1, TopologyInductive, PTL

\* A stop whose script is confirmed as successful leaves no other goal active.
THEOREM StopsClean == TopologySpec => StopIsClean
<1> DEFINE Clean == owed' < owed /\ result' = "success" /\ stopping # "stopped" =>
                      active \subseteq {system_stop}
<1>1. TopologyInv /\ [TopologyNext]_allVars => [Clean]_allVars
  <2> SUFFICES ASSUME TopologyInv, TopologyNext, owed' < owed, result' = "success", stopping # "stopped"
               PROVE  active \subseteq {system_stop}
    OBVIOUS
  <2> USE DEF TopologyInv, Base
  <2>1. owed' # owed BY DEF Types
  <2>2. CASE DeliverMail
    <3>1. PICK x \in mail :
            \/ x.what = "start"    /\ HandleInternalStart
            \/ x.what = "paired"   /\ HandleProcPeerPairResult
            \/ x.what = "stop"     /\ HandleInternalStop
            \/ x.what = "finished" /\ HandleStopCompletion
      BY <2>2 DEF DeliverMail
    <3>2. ~HandleInternalStart /\ ~HandleProcPeerPairResult
      BY <2>1 DEF HandleInternalStart, HandleProcPeerPairResult
    <3>3. ~HandleInternalStop BY <2>1 DEF HandleInternalStop, Types
    <3>4. stopping = "stopping" BY <2>1, <3>1, <3>2, <3>3 DEF HandleStopCompletion
    <3> QED BY <3>4 DEF StopsAlone
  <2>3. CASE HandleStopTimeout BY <2>3 DEF HandleStopTimeout, SendStopCfm
  <2>4. ~Stop /\ ~Start BY <2>1 DEF Stop, Start, Request, Types
  <2> QED BY <2>1, <2>2, <2>3, <2>4
      DEF TopologyNext, DeliverMsg, FinishStopScript, FindPeer, PairLate, CompleteEarly,
          RespondProcedure, DecideGoal, topology, application,
          TakeShutdownPrepareLock, HandleMarshalledMsgChannelTxCfm
<1> QED BY <1>1, TopologyInductive, PTL DEF TopologySpec, StopIsClean
=============================================================================
