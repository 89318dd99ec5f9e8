--------------------------- MODULE Lifecycle_proofs ---------------------------
(***************************************************************************)
(* The invariants of Lifecycle, for every set of topics and every bound.   *)
(***************************************************************************)
EXTENDS Lifecycle, TLAPS

USE DEF mainVars, workerVars, brokerVars, othersVars, vars, MainGoes

LEMMA NewClientType ==
  NewClient \in [connected : BOOLEAN, asked : SUBSET Topics, loop : BOOLEAN,
                 loop_started : BOOLEAN]
  BY DEF NewClient

LEMMA EmptySequences == <<>> \in Seq(Events) /\ <<>> \in Seq(Places)
  OBVIOUS

LEMMA InitTypeOK == Init => TypeOK
<1> SUFFICES ASSUME Init PROVE TypeOK
  OBVIOUS
<1>1. MainTypeOK
  BY EmptySequences DEF Init, MainTypeOK, Places
<1>2. LinkTypeOK
  BY NewClientType DEF Init, LinkTypeOK
<1>3. events \in Seq(Events)
  BY EmptySequences DEF Init
<1>4. publisher \in Events
  BY DEF Init, Events
<1>5. MessageTypeOK
  BY <1>3, <1>4 DEF Init, MessageTypeOK
<1> QED  BY <1>1, <1>2, <1>5 DEF TypeOK

LEMMA NextMainType == TypeOK /\ [Next]_vars => MainTypeOK'
<1> SUFFICES ASSUME MainTypeOK, [Next]_vars PROVE MainTypeOK'
  BY DEF TypeOK
<1> USE EmptySequences DEF MainTypeOK, Places
<1>1. CASE MainStep
  BY <1>1 DEF MainStep, StartDashboard, Connect, Subscribe, StartFails, LaunchWorker,
              SetStopEvent, JoinWorker, Disconnect, StopDashboard, Exit
<1>2. CASE Interrupt
  BY <1>2 DEF Interrupt, Exit
<1>3. CASE Restart
  BY <1>3 DEF Restart
<1>4. CASE WorkerStep
  BY <1>4 DEF WorkerStep, CheckStopEvent, GetEvent, BackToCheck
<1>5. CASE LinkStep \/ ReaderEnds \/ UNCHANGED vars
  BY <1>5 DEF LinkStep, ReaderEnds
<1> QED  BY <1>1, <1>2, <1>3, <1>4, <1>5 DEF Next

LEMMA NextLinkType == TypeOK /\ [Next]_vars => LinkTypeOK'
<1> SUFFICES ASSUME LinkTypeOK, [Next]_vars PROVE LinkTypeOK'
  BY DEF TypeOK
<1> USE NewClientType DEF LinkTypeOK
<1>1. CASE MainStep
  <2>1. CASE Connect
    BY <2>1 DEF Connect
  <2>2. CASE Subscribe
    BY <2>2 DEF Subscribe
  <2>3. CASE JoinWorker \/ Disconnect \/ StopDashboard
    BY <2>3 DEF JoinWorker, Disconnect, StopDashboard, Exit
  <2>4. CASE StartDashboard \/ StartFails \/ LaunchWorker \/ SetStopEvent
    BY <2>4 DEF StartDashboard, StartFails, LaunchWorker, SetStopEvent
  <2> QED  BY <1>1, <2>1, <2>2, <2>3, <2>4 DEF MainStep
<1>2. CASE Interrupt
  BY <1>2 DEF Interrupt, Exit
<1>3. CASE Restart
  BY <1>3 DEF Restart
<1>4. CASE LinkStep
  BY <1>4 DEF LinkStep, Send, PublisherRestarts, BrokerLost, Reconnect
<1>5. CASE ReaderEnds
  BY <1>5 DEF ReaderEnds
<1>6. CASE WorkerStep \/ UNCHANGED vars
  BY <1>6 DEF WorkerStep
<1> QED  BY <1>1, <1>2, <1>3, <1>4, <1>5, <1>6 DEF Next

LEMMA NextMessageType == TypeOK /\ [Next]_vars => MessageTypeOK'
<1> SUFFICES ASSUME MessageTypeOK, [Next]_vars PROVE MessageTypeOK'
  BY DEF TypeOK
<1> USE EmptySequences DEF MessageTypeOK
<1>1. CASE MainStep
  BY <1>1 DEF MainStep, StartDashboard, Connect, Subscribe, StartFails, LaunchWorker,
              SetStopEvent, JoinWorker, Disconnect, StopDashboard, Exit
<1>2. CASE Interrupt
  BY <1>2 DEF Interrupt, Exit
<1>3. CASE Restart
  BY <1>3 DEF Restart
<1>4. CASE WorkerStep
  <2>1. CASE GetEvent
    <3>1. Head(events) \in Events /\ Tail(events) \in Seq(Events)
      BY <2>1 DEF GetEvent
    <3>2. newest' \in Nat /\ refused' \in Nat
      BY <2>1, <3>1 DEF GetEvent, Handle, Events
    <3>3. after_stop' \in Nat
      BY <2>1 DEF GetEvent
    <3> QED  BY <1>4, <2>1, <3>1, <3>2, <3>3 DEF WorkerStep, GetEvent
  <2>2. CASE CheckStopEvent \/ BackToCheck
    BY <1>4, <2>2 DEF WorkerStep, CheckStopEvent, BackToCheck
  <2> QED  BY <1>4, <2>1, <2>2 DEF WorkerStep
<1>5. CASE LinkStep
  <2>1. CASE Send
    <3>1. publisher' = [number |-> publisher.number + 1, life |-> publisher.life]
      BY <2>1 DEF Send, Events
    <3>2. publisher' \in Events
      BY <3>1 DEF Events
    <3>3. events' \in Seq(Events)
      BY <2>1, <3>2 DEF Send
    <3> QED  BY <1>5, <2>1, <3>2, <3>3 DEF LinkStep, Send
  <2>2. CASE PublisherRestarts
    BY <1>5, <2>2 DEF LinkStep, PublisherRestarts, Events
  <2>3. CASE BrokerLost \/ Reconnect
    BY <1>5, <2>3 DEF LinkStep, BrokerLost, Reconnect
  <2> QED  BY <1>5, <2>1, <2>2, <2>3 DEF LinkStep
<1>6. CASE ReaderEnds \/ UNCHANGED vars
  BY <1>6 DEF ReaderEnds
<1> QED  BY <1>1, <1>2, <1>3, <1>4, <1>5, <1>6 DEF Next

(* Types are correct. *)
THEOREM TypeCorrect == Spec => []TypeOK
<1>1. TypeOK /\ [Next]_vars => TypeOK'
  BY NextMainType, NextLinkType, NextMessageType DEF TypeOK
<1> QED  BY InitTypeOK, <1>1, PTL DEF Spec

--------------------------------------------------------------------------------
(* One event after stop: stop_event is set only behind the start of this   *)
(* life's only worker, and a worker that has taken one then checks it.     *)
StopInv ==
  /\ stop_event => main \in {"join", "disconnect", "shutdown", "exited"}
  /\ after_stop # 0 => after_stop = 1 /\ stop_event /\ worker \in {"none", "check", "busy"}

LEMMA NextStopInv == MainTypeOK /\ StopInv /\ [Next]_vars => StopInv'
<1> SUFFICES ASSUME MainTypeOK, StopInv, [Next]_vars PROVE StopInv'
  OBVIOUS
<1> USE DEF StopInv, MainTypeOK
<1>1. CASE MainStep
  BY <1>1 DEF MainStep, StartDashboard, Connect, Subscribe, StartFails, LaunchWorker,
              SetStopEvent, JoinWorker, Disconnect, StopDashboard, Exit
<1>2. CASE Interrupt
  BY <1>2 DEF Interrupt, Exit
<1>3. CASE Restart
  BY <1>3 DEF Restart
<1>4. CASE WorkerStep
  BY <1>4 DEF WorkerStep, CheckStopEvent, GetEvent, BackToCheck
<1>5. CASE LinkStep \/ ReaderEnds \/ UNCHANGED vars
  BY <1>5 DEF LinkStep, ReaderEnds
<1> QED  BY <1>1, <1>2, <1>3, <1>4, <1>5 DEF Next

(* The worker takes at most one event after stop_event is set. *)
THEOREM StopsAfterOneEvent == Spec => []OneEventAfterStop
<1>1. Init => StopInv
  BY DEF Init, StopInv
<1>2. TypeOK /\ StopInv /\ [Next]_vars => StopInv'
  BY NextStopInv DEF TypeOK
<1>3. StopInv => OneEventAfterStop
  BY DEF StopInv, OneEventAfterStop
<1> QED  BY TypeCorrect, <1>1, <1>2, <1>3, PTL DEF Spec

--------------------------------------------------------------------------------
(* Which Ctrl+C may leave a connection behind, and what the main thread    *)
(* knows of its connection, its network thread and its worker otherwise.   *)
Stopping == {"stop", "join", "disconnect", "shutdown"}

StruckAt(place) == struck # <<>> /\ struck[1] = place

Excused ==
  \/ Len(struck) > 1
  \/ StruckAt("launch")
  \/ mode = "hardware" /\ (StruckAt("connected") \/ StruckAt("loop_started"))

ShutdownInv ==
  /\ main \in {"start", "serve", "connect"} => link = "closed"
  /\ main \notin Stopping \cup {"exited"} => struck = <<>>
  /\ main \in Stopping => Len(struck) <= 1 /\ (struck = <<>> => link = "closed")
  /\ link \in {"open", "lost"} /\ main \notin {"shutdown", "exited"} =>
       client.connected \/ mode = "simulation" \/ main = "connected" \/ StruckAt("connected")
  /\ client.loop /\ ~client.loop_started =>
       mode = "simulation" \/ main = "loop_started" \/ StruckAt("loop_started")
  /\ worker = "created" => main = "launch" \/ StruckAt("launch")
  /\ main = "shutdown" /\ link = "open" => Excused
  /\ main \in {"shutdown", "exited"} => client = NewClient
  /\ main = "exited" => link # "open" /\ worker = "none"
  /\ link = "cut" => main = "exited" /\ Excused

(* What Ctrl+C adds to struck. *)
LEMMA StruckByInterrupt ==
  ASSUME MainTypeOK, Interrupt
  PROVE  /\ struck' \in Seq(Places) /\ Len(struck') = Len(struck) + 1
         /\ struck = <<>> => Len(struck') = 1 /\ struck'[1] = main
         /\ struck # <<>> => Len(struck') > 1 /\ struck'[1] = struck[1]
  BY DEF MainTypeOK, Interrupt

LEMMA InterruptShutdownInv ==
  ASSUME MainTypeOK, LinkTypeOK, ShutdownInv, Interrupt
  PROVE  ShutdownInv'
<1>1. CASE main \in Stopping
  <2>1. Exit
    BY <1>1 DEF Interrupt, Stopping
  <2>2. link' = "cut" => Excused'
    <3>1. CASE struck = <<>>
      BY <1>1, <2>1, <3>1 DEF Exit, ShutdownInv, Stopping
    <3>2. CASE struck # <<>>
      BY <3>2, StruckByInterrupt DEF Excused
    <3> QED  BY <3>1, <3>2
  <2> QED
    BY <2>1, <2>2 DEF Exit, ShutdownInv, Stopping, NewClient
<1>2. CASE main \notin Stopping
  <2>1. struck = <<>> /\ main' = "stop" /\ link # "cut"
    BY <1>2 DEF Interrupt, Stopping, ShutdownInv
  <2>2. Len(struck') = 1 /\ struck' # <<>> /\ struck'[1] = main
    BY <2>1, StruckByInterrupt DEF MainTypeOK
  <2>3. UNCHANGED <<mode, worker, client, link>>
    BY <1>2, <2>1 DEF Interrupt, Stopping, Exit
  <2>4. \A place : ~StruckAt(place) /\ (main = place => StruckAt(place)')
    BY <2>1, <2>2 DEF StruckAt
  <2>5. worker' = "created" => StruckAt("launch")'
    BY <2>3, <2>4 DEF ShutdownInv
  <2>6. client'.loop /\ ~client'.loop_started =>
          mode' = "simulation" \/ StruckAt("loop_started")'
    BY <2>3, <2>4 DEF ShutdownInv
  <2>7. main \notin {"shutdown", "exited"}
    BY <1>2 DEF Stopping, Interrupt
  <2>8. link' \in {"open", "lost"} =>
          client'.connected \/ mode' = "simulation" \/ StruckAt("connected")'
    BY <2>3, <2>4, <2>7 DEF ShutdownInv
  <2> QED
    BY <2>1, <2>2, <2>3, <2>5, <2>6, <2>8 DEF ShutdownInv, Stopping
<1> QED  BY <1>1, <1>2

LEMMA MainShutdownInv ==
  ASSUME MainTypeOK, LinkTypeOK, ShutdownInv, MainStep
  PROVE  ShutdownInv'
<1>0. UNCHANGED <<mode, struck>>
  BY DEF MainStep, StartDashboard, Connect, Subscribe, StartFails, LaunchWorker,
         SetStopEvent, JoinWorker, Disconnect, StopDashboard
<1>1. UNCHANGED Excused /\ \A place : UNCHANGED StruckAt(place)
  BY <1>0 DEF Excused, StruckAt
<1> USE DEF ShutdownInv, Stopping, LinkTypeOK
<1>2. CASE StartDashboard \/ StartFails \/ LaunchWorker \/ SetStopEvent
  BY <1>0, <1>1, <1>2 DEF StartDashboard, StartFails, LaunchWorker, SetStopEvent
<1>3. CASE Connect
  <2>1. /\ main \in {"connect", "connected", "loop_start", "loop_started"}
        /\ main' \in {"connected", "loop_start", "loop_started", "subscribe"}
        /\ struck = <<>> /\ \A place : ~StruckAt(place)
        /\ link = "cut" => link' # "cut"
    BY <1>3 DEF Connect, StruckAt
  <2>2. \/ main' = "connected"
        \/ /\ main # "connect" /\ UNCHANGED link
           /\ main = "connected" \/ client'.connected = client.connected
           /\ main = "connected" => client'.connected
    BY <1>3 DEF Connect
  <2>3. link' \in {"open", "lost"} =>
          client'.connected \/ mode' = "simulation" \/ main' = "connected"
    BY <1>0, <2>1, <2>2
  <2>4. client'.loop /\ ~client'.loop_started => mode' = "simulation" \/ main' = "loop_started"
    BY <1>0, <1>3, <2>1 DEF Connect, MainTypeOK
  <2>5. UNCHANGED worker /\ link' # "cut"
    BY <1>3 DEF Connect
  <2> QED  BY <1>0, <1>1, <2>1, <2>3, <2>4, <2>5
<1>4. CASE Subscribe
  BY <1>0, <1>1, <1>4 DEF Subscribe
<1>5. CASE JoinWorker
  BY <1>0, <1>1, <1>5 DEF JoinWorker, Exit, Excused, NewClient
<1>6. CASE Disconnect
  <2>1. main = "disconnect" /\ mode \in {"hardware", "simulation"}
    BY <1>6 DEF Disconnect, MainTypeOK
  <2>2. link = "open" /\ ~Closes => Excused
    BY <2>1 DEF Closes, Excused
  <2>3. MayBeLate => Excused
    BY <2>1 DEF MayBeLate, Excused
  <2>4. main' = "shutdown" /\ client' = NewClient /\ ~client'.loop
    BY <1>6 DEF Disconnect, NewClient
  <2> QED  BY <1>0, <1>1, <1>6, <2>1, <2>2, <2>3, <2>4 DEF Disconnect
<1>7. CASE StopDashboard
  BY <1>0, <1>1, <1>7 DEF StopDashboard, Exit, NewClient
<1> QED  BY <1>2, <1>3, <1>4, <1>5, <1>6, <1>7 DEF MainStep

LEMMA NextShutdownInv == MainTypeOK /\ LinkTypeOK /\ ShutdownInv /\ [Next]_vars => ShutdownInv'
<1> SUFFICES ASSUME MainTypeOK, LinkTypeOK, ShutdownInv, [Next]_vars PROVE ShutdownInv'
  OBVIOUS
<1>1. CASE MainStep \/ Interrupt
  BY <1>1, MainShutdownInv, InterruptShutdownInv
<1>2. CASE Restart
  BY <1>2 DEF Restart, ShutdownInv, Stopping, NewClient
<1>3. ASSUME UNCHANGED <<mode, main, struck>>, worker = "created" <=> worker' = "created",
             worker = "none" => worker' = "none"
      PROVE  /\ UNCHANGED Excused /\ \A place : UNCHANGED StruckAt(place)
             /\ worker' = "created" => main' = "launch" \/ StruckAt("launch")'
  BY <1>3 DEF Excused, StruckAt, ShutdownInv
<1>4. CASE WorkerStep
  BY <1>3, <1>4 DEF WorkerStep, CheckStopEvent, GetEvent, BackToCheck, ShutdownInv
<1>5. CASE LinkStep
  <2>1. UNCHANGED <<main, client, worker>> /\ (link' = link \/ link' \in {"open", "lost"})
    BY <1>5 DEF LinkStep, Send, PublisherRestarts, BrokerLost, Reconnect
  <2>2. link' # link =>
          \/ link = "open"
          \/ link = "lost" /\ client.loop
    BY <1>5 DEF LinkStep, Send, PublisherRestarts, BrokerLost, Reconnect
  <2>3. UNCHANGED Excused /\ \A place : UNCHANGED StruckAt(place)
    BY <1>3, <1>5 DEF LinkStep
  <2>4. link' # link => main \notin {"start", "serve", "connect", "exited"}
    BY <2>2 DEF ShutdownInv, NewClient
  <2>5. link' # link => (main = "shutdown" => link' # "open")
    BY <2>1, <2>2 DEF ShutdownInv, NewClient
  <2> QED  BY <1>5, <2>1, <2>2, <2>3, <2>4, <2>5 DEF LinkStep, ShutdownInv
<1>6. CASE ReaderEnds
  BY <1>3, <1>6 DEF ReaderEnds, ShutdownInv, NewClient, LinkTypeOK
<1>7. CASE UNCHANGED vars
  BY <1>3, <1>7 DEF ShutdownInv
<1> QED  BY <1>1, <1>2, <1>4, <1>5, <1>6, <1>7 DEF Next

(* Ctrl+C ends the connection to the broker cleanly, after a failed start  *)
(* too, but for the three moments named.                                   *)
THEOREM ShutsDownCleanly == Spec => []CleanShutdown
<1>1. Init => ShutdownInv
  BY DEF Init, ShutdownInv, NewClient, Stopping
<1>2. TypeOK /\ ShutdownInv /\ [Next]_vars => ShutdownInv'
  BY NextShutdownInv DEF TypeOK
<1>3. ShutdownInv => CleanShutdown
  BY DEF ShutdownInv, CleanShutdown, Excused, StruckAt
<1> QED  BY TypeCorrect, <1>1, <1>2, <1>3, PTL DEF Spec

--------------------------------------------------------------------------------
(* What waits in the queue is numbered by former lives, or by the present  *)
(* one: in order, and above what was refused of it or, if it has made the  *)
(* counter, above the counter.                                             *)
Waiting(e, p, f, n, r) ==
  IF e.life = p.life
  THEN r < e.number /\ e.number <= p.number /\ (n > f => n < e.number)
  ELSE e.life < p.life /\ e.number <= f

Ordered(queue) ==
  \A j, k \in 1 .. Len(queue) :
    j < k /\ queue[j].life = queue[k].life => queue[j].number < queue[k].number

RefusedInv ==
  /\ \A k \in 1 .. Len(events) : Waiting(events[k], publisher, former, newest, refused)
  /\ Ordered(events)
  /\ newest <= former \/ newest <= publisher.number
  /\ refused <= former /\ refused <= publisher.number

LEMMA EventTypes ==
  ASSUME MessageTypeOK
  PROVE  /\ \A k \in 1 .. Len(events) :
              events[k] \in Events /\ events[k].number \in Nat /\ events[k].life \in Nat
         /\ publisher.number \in Nat /\ publisher.life \in Nat
         /\ former \in Nat /\ newest \in Nat /\ refused \in Nat /\ Len(events) \in Nat
<1>1. \A k \in 1 .. Len(events) : events[k] \in Events
  BY DEF MessageTypeOK
<1>2. \A e \in Events : e.number \in Nat /\ e.life \in Nat
  BY DEF Events
<1> QED  BY <1>1, <1>2 DEF MessageTypeOK

LEMMA GetRefusedInv ==
  ASSUME MessageTypeOK, RefusedInv, GetEvent, UNCHANGED <<publisher, former>>
  PROVE  RefusedInv'
<1> DEFINE e == events[1]
           StillWaits(x) == Waiting(x, publisher, former, newest', refused')
<1>1. /\ Len(events) > 0 /\ e = Head(events)
      /\ events' = Tail(events) /\ Len(events') = Len(events) - 1
      /\ \A k \in 1 .. Len(events') : events'[k] = events[k + 1] /\ k + 1 \in 1 .. Len(events)
  BY DEF GetEvent, MessageTypeOK
<1>2. /\ e.number \in Nat /\ Waiting(e, publisher, former, newest, refused)
      /\ \A k \in 2 .. Len(events) : e.life = events[k].life => e.number < events[k].number
  BY <1>1, EventTypes DEF RefusedInv, Ordered
<1>3. /\ newest' = IF e.number > newest THEN e.number ELSE newest
      /\ refused' = IF e.number <= newest /\ e.life = publisher.life
                    THEN refused + 1 ELSE refused
  BY <1>1 DEF GetEvent, Handle
<1>4. /\ newest' <= former \/ newest' <= publisher.number
      /\ refused' <= former /\ refused' <= publisher.number
  BY <1>2, <1>3, EventTypes DEF Waiting, RefusedInv
<1>5. ASSUME NEW k \in 2 .. Len(events)
      PROVE  StillWaits(events[k])
  <2>1. /\ Waiting(events[k], publisher, former, newest, refused)
        /\ events[k].number \in Nat /\ events[k].life \in Nat
    BY EventTypes DEF RefusedInv
  <2> QED  BY <1>2, <1>3, <2>1, EventTypes DEF Waiting
<1>6. \A k \in 1 .. Len(events') : StillWaits(events'[k])
  BY <1>1, <1>5, EventTypes
<1>7. Ordered(events')
  <2> SUFFICES ASSUME NEW j \in 1 .. Len(events'), NEW k \in 1 .. Len(events'),
                      j < k, events'[j].life = events'[k].life
               PROVE  events'[j].number < events'[k].number
    BY DEF Ordered
  <2>1. j + 1 < k + 1 /\ events'[j] = events[j + 1] /\ events'[k] = events[k + 1]
    BY <1>1, EventTypes
  <2> QED  BY <1>1, <2>1 DEF RefusedInv, Ordered
<1> QED  BY <1>4, <1>6, <1>7 DEF RefusedInv

LEMMA SendRefusedInv ==
  ASSUME MessageTypeOK, RefusedInv, Send, UNCHANGED newest
  PROVE  RefusedInv'
<1> DEFINE StillWaits(x) == Waiting(x, publisher', former, newest, refused)
<1>1. /\ publisher'.number = publisher.number + 1 /\ publisher'.life = publisher.life
      /\ UNCHANGED <<refused, former>>
  BY DEF Send, MessageTypeOK, Events
<1>2. \A k \in 1 .. Len(events) : StillWaits(events[k])
  BY <1>1, EventTypes DEF Waiting, RefusedInv
<1>3. StillWaits(publisher')
  BY <1>1, EventTypes DEF Waiting, RefusedInv
<1>4. \/ events' = events
      \/ /\ Len(events') = Len(events) + 1
         /\ \A k \in 1 .. Len(events) : events'[k] = events[k]
         /\ events'[Len(events) + 1] = publisher'
  BY DEF Send, MessageTypeOK
<1>5. \A k \in 1 .. Len(events') : StillWaits(events'[k])
  BY <1>2, <1>3, <1>4, EventTypes
<1>6. \A k \in 1 .. Len(events) :
        events[k].life = publisher'.life => events[k].number < publisher'.number
  BY <1>1, EventTypes DEF RefusedInv, Waiting
<1>7. Ordered(events')
  <2>1. CASE events' = events
    BY <2>1 DEF RefusedInv, Ordered
  <2>2. CASE events' # events
    <3> SUFFICES ASSUME NEW j \in 1 .. Len(events'), NEW k \in 1 .. Len(events'),
                        j < k, events'[j].life = events'[k].life
                 PROVE  events'[j].number < events'[k].number
      BY DEF Ordered
    <3>1. j \in 1 .. Len(events) /\ events'[j] = events[j]
      BY <1>4, <2>2, EventTypes
    <3>2. CASE k = Len(events) + 1
      BY <1>4, <1>6, <2>2, <3>1, <3>2
    <3>3. CASE k # Len(events) + 1
      <4>1. k \in 1 .. Len(events) /\ events'[k] = events[k]
        BY <1>4, <2>2, <3>3, EventTypes
      <4> QED  BY <3>1, <4>1 DEF RefusedInv, Ordered
    <3> QED  BY <3>2, <3>3
  <2> QED  BY <2>1, <2>2
<1>8. /\ newest <= former \/ newest <= publisher'.number
      /\ refused <= former /\ refused <= publisher'.number
  BY <1>1, EventTypes DEF RefusedInv
<1> QED  BY <1>1, <1>5, <1>7, <1>8 DEF RefusedInv

LEMMA PublisherRestartsRefusedInv ==
  ASSUME MessageTypeOK, RefusedInv, PublisherRestarts, UNCHANGED newest
  PROVE  RefusedInv'
<1>1. /\ publisher'.number = 0 /\ publisher'.life = publisher.life + 1
      /\ former' \in Nat /\ former' >= former /\ former' >= publisher.number
      /\ refused' = 0 /\ UNCHANGED events
  BY EventTypes DEF PublisherRestarts
<1>2. \A k \in 1 .. Len(events) :
        events[k].life <= publisher.life /\ events[k].number <= former'
  <2> SUFFICES ASSUME NEW k \in 1 .. Len(events)
               PROVE  events[k].life <= publisher.life /\ events[k].number <= former'
    OBVIOUS
  <2>1. Waiting(events[k], publisher, former, newest, refused)
    BY DEF RefusedInv
  <2> QED  BY <1>1, <2>1, EventTypes DEF Waiting
<1>3. \A k \in 1 .. Len(events) : Waiting(events[k], publisher', former', newest, refused')
  BY <1>1, <1>2, EventTypes DEF Waiting
<1> QED  BY <1>1, <1>3, EventTypes DEF RefusedInv

(* The backend forgets the counter, or the queue. *)
LEMMA ForgetRefusedInv ==
  ASSUME MessageTypeOK, RefusedInv, UNCHANGED <<publisher, former, refused>>,
         newest' \in {0, newest}, events' \in {<<>>, events}
  PROVE  RefusedInv'
<1>1. Ordered(events')
  BY DEF RefusedInv, Ordered
<1>2. newest' <= former \/ newest' <= publisher.number
  BY EventTypes DEF RefusedInv
<1>3. ASSUME NEW k \in 1 .. Len(events')
      PROVE  Waiting(events'[k], publisher, former, newest', refused)
  <2>1. k \in 1 .. Len(events) /\ events'[k] = events[k]
    OBVIOUS
  <2>2. Waiting(events[k], publisher, former, newest, refused)
    BY <2>1 DEF RefusedInv
  <2> QED  BY <2>1, <2>2, EventTypes DEF Waiting
<1> QED  BY <1>1, <1>2, <1>3 DEF RefusedInv

LEMMA NextRefusedInv == MessageTypeOK /\ RefusedInv /\ [Next]_vars => RefusedInv'
<1> SUFFICES ASSUME MessageTypeOK, RefusedInv, [Next]_vars PROVE RefusedInv'
  OBVIOUS
<1>1. CASE MainStep
  <2>1. events' \in {<<>>, events}
    BY <1>1 DEF MainStep, StartDashboard, Connect, Subscribe, StartFails, LaunchWorker,
                SetStopEvent, JoinWorker, Disconnect, StopDashboard, Exit
  <2> QED  BY <1>1, <2>1, ForgetRefusedInv DEF MainStep
<1>2. CASE Interrupt
  BY <1>2, ForgetRefusedInv DEF Interrupt, Exit
<1>3. CASE Restart
  BY <1>3, ForgetRefusedInv DEF Restart
<1>4. CASE WorkerStep
  <2>1. CASE GetEvent
    BY <1>4, <2>1, GetRefusedInv DEF WorkerStep
  <2>2. CASE CheckStopEvent \/ BackToCheck
    BY <1>4, <2>2, ForgetRefusedInv DEF WorkerStep, CheckStopEvent, BackToCheck
  <2> QED  BY <1>4, <2>1, <2>2 DEF WorkerStep
<1>5. CASE LinkStep
  BY <1>5, SendRefusedInv, PublisherRestartsRefusedInv, ForgetRefusedInv
     DEF LinkStep, BrokerLost, Reconnect
<1>6. CASE ReaderEnds \/ UNCHANGED vars
  BY <1>6, ForgetRefusedInv DEF ReaderEnds
<1> QED  BY <1>1, <1>2, <1>3, <1>4, <1>5, <1>6 DEF Next

(* A publisher that starts again is ignored for at most as many messages   *)
(* as it had numbered in a former life, wherever backend, broker and       *)
(* publisher are interrupted.                                              *)
THEOREM RestartIsForgiven == Spec => []RefusedUntilFormer
<1>1. Init => RefusedInv
  BY DEF Init, RefusedInv, Ordered
<1>2. TypeOK /\ RefusedInv /\ [Next]_vars => RefusedInv'
  BY NextRefusedInv DEF TypeOK
<1>3. RefusedInv => RefusedUntilFormer
  BY DEF RefusedInv, RefusedUntilFormer
<1> QED  BY TypeCorrect, <1>1, <1>2, <1>3, PTL DEF Spec

================================================================================
