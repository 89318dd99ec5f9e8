------------------------------- MODULE Lifecycle -------------------------------
(***************************************************************************)
(* main.py: how the backend process starts, runs and ends, the connection  *)
(* to its broker, and one publisher it listens to.  Ctrl+C may strike the  *)
(* main thread between any two steps; broker, backend and publisher come   *)
(* back without what they knew.  Of an event only its number is modelled   *)
(* (SmartGarageService has the rest), of the worker only its loop.         *)
(***************************************************************************)
EXTENDS Integers, Sequences

CONSTANTS
  Topics,           \* the topics subscribed to
  Topic,            \* the one of the publisher
  MaxNumber,        \* bound: messages in one life of the publisher
  MaxQueue,         \* bound: messages waiting when another arrives
  MaxInterrupts,    \* bound: Ctrl+C in one life of the backend
  MaxLives          \* bound: lives of the backend, and of the publisher

ASSUME LifecycleAssumption ==
  Topic \in Topics /\ {MaxNumber, MaxQueue, MaxInterrupts, MaxLives} \subseteq Nat

VARIABLES
  mode,             \* settings.runtime_mode: "hardware" or "simulation"
  main,             \* what the main thread does next
  dashboard,        \* "down", "bound": its thread is not started, "serving"
  worker,           \* the event worker: "none", "created": not started, or
                    \* what it does next
  stop_event,
  client,           \* of the message client: _connected, the topics asked
                    \* for, whether its network thread runs, _loop_started
  link,             \* "closed", "open", "lost" by the broker, or "cut": the
                    \* process ended without disconnecting
  subscribed,       \* the topics the broker forwards
  events,           \* the dispatcher's queue of [number, life]
  newest,           \* msg_sequences[Topic]
  publisher,        \* its last number, its life
  \* history:
  lives,            \* of the backend
  struck,           \* what main was about to do at each Ctrl+C of this life
  after_stop,       \* events taken since stop_event was set
  former,           \* the highest number of the publisher's former lives
  refused           \* messages of its present life that were ignored

mainVars   == <<main, dashboard, lives, struck>>
workerVars == <<worker, after_stop, newest, refused>>
brokerVars == <<link, subscribed>>
othersVars == <<mode, lives, after_stop, newest, refused, publisher, former>>   \* than main's
vars == <<mainVars, workerVars, stop_event, client, brokerVars, events, othersVars>>

NewClient == [connected |-> FALSE, asked |-> {}, loop |-> FALSE, loop_started |-> FALSE]

Init ==
  /\ mode \in {"hardware", "simulation"}
  /\ main = "start" /\ dashboard = "down" /\ worker = "none" /\ stop_event = FALSE
  /\ client = NewClient /\ link = "closed" /\ subscribed = {} /\ events = <<>>
  /\ newest = 0 /\ publisher = [number |-> 0, life |-> 1]
  /\ lives = 1 /\ struck = <<>> /\ after_stop = 0 /\ former = 0 /\ refused = 0

--------------------------------------------------------------------------------
(* The main thread. *)

MainGoes(from, to) == main = from /\ main' = to

StartDashboard ==
  /\ \/ MainGoes("start", "serve") /\ dashboard' = "bound"
     \/ MainGoes("start", "stop") /\ UNCHANGED dashboard      \* the port is taken
     \/ MainGoes("serve", "connect") /\ dashboard' = "serving"
  /\ UNCHANGED <<struck, worker, stop_event, client, brokerVars, events>>

(* connect: the wrapper's flags follow what they report one step later.    *)
(* The simulation's client has no _loop_started.                           *)
Connect ==
  /\ \/ MainGoes("connect", "connected") /\ link' = "open" /\ UNCHANGED client
     \/ /\ MainGoes("connected", "loop_start")
        /\ client' = [client EXCEPT !.connected = TRUE] /\ UNCHANGED link
     \/ /\ MainGoes("loop_start", IF mode = "hardware" THEN "loop_started" ELSE "subscribe")
        /\ client' = [client EXCEPT !.loop = TRUE] /\ UNCHANGED link
     \/ /\ MainGoes("loop_started", "subscribe")
        /\ client' = [client EXCEPT !.loop_started = TRUE] /\ UNCHANGED link
  /\ UNCHANGED <<dashboard, struck, worker, stop_event, subscribed, events>>

(* Topic by topic. *)
Subscribe ==
  /\ main = "subscribe" /\ link = "open"
  /\ \E topic \in Topics \ client.asked :
       /\ client' = [client EXCEPT !.asked = @ \cup {topic}]
       /\ subscribed' = subscribed \cup {topic}
  /\ main' = IF client'.asked = Topics THEN "create" ELSE "subscribe"
  /\ UNCHANGED <<dashboard, struck, worker, stop_event, link, events>>

(* ConnectionError, OSError, RuntimeError: no worker, but main goes on.    *)
StartFails ==
  /\ MainGoes("connect", "wait") \/ MainGoes("subscribe", "wait")
  /\ UNCHANGED <<dashboard, struck, worker, stop_event, client, brokerVars, events>>

LaunchWorker ==
  /\ \/ MainGoes("create", "launch") /\ worker' = "created" /\ stop_event' = FALSE
     \/ MainGoes("launch", "wait") /\ worker' = "check" /\ UNCHANGED stop_event
  /\ UNCHANGED <<dashboard, struck, client, brokerVars, events>>

(* The threads are daemons, the queue is in memory. *)
Exit ==
  /\ main' = "exited" /\ dashboard' = "down" /\ worker' = "none" /\ events' = <<>>
  /\ client' = NewClient
  /\ link' = IF link = "open" THEN "cut" ELSE link
  /\ subscribed' = {}
  /\ UNCHANGED stop_event

SetStopEvent ==
  /\ MainGoes("stop", "join")
  /\ stop_event' = TRUE
  /\ UNCHANGED <<dashboard, struck, worker, client, brokerVars, events>>

(* Mutant: join has no timeout. *)
JoinWorkerForever ==
  /\ worker = "none" /\ MainGoes("join", "disconnect")
  /\ UNCHANGED <<dashboard, struck, worker, stop_event, client, brokerVars, events>>

(* The worker has ended, or two seconds are over; a thread that was never  *)
(* started cannot be joined, and the exception skips the rest.             *)
JoinWorker ==
  \/ /\ worker # "created" /\ MainGoes("join", "disconnect")
     /\ UNCHANGED <<dashboard, struck, worker, stop_event, client, brokerVars, events>>
  \/ main = "join" /\ worker = "created" /\ Exit /\ UNCHANGED struck

(* Mutant: only a complete start counts as a connection. *)
ClosesWhenStarted == client.asked = Topics

(* What closes the connection is the flag, or the simulation's socket.  A  *)
(* network thread that was not stopped may be too late to say goodbye.     *)
Closes == mode = "simulation" \/ client.connected

MayBeLate == mode = "hardware" /\ client.loop /\ ~client.loop_started

Disconnect ==
  /\ MainGoes("disconnect", "shutdown")
  /\ client' = NewClient
  /\ \/ link = "open" /\ Closes /\ link' = "closed"
     \/ (link # "open" \/ ~Closes \/ MayBeLate) /\ UNCHANGED link
  /\ subscribed' = IF link' = "closed" THEN {} ELSE subscribed
  /\ UNCHANGED <<dashboard, struck, worker, stop_event, events>>

(* shutdown() waits for serve_forever, which has to have been called. *)
StopDashboard == main = "shutdown" /\ dashboard # "bound" /\ Exit /\ UNCHANGED struck

MainStep ==
  /\ \/ StartDashboard \/ Connect \/ Subscribe \/ StartFails \/ LaunchWorker
     \/ SetStopEvent \/ JoinWorker \/ Disconnect \/ StopDashboard
  /\ UNCHANGED othersVars

(* Ctrl+C leads to the finally block, and out of it. *)
Interrupt ==
  /\ main # "exited" /\ Len(struck) < MaxInterrupts
  /\ struck' = Append(struck, main)
  /\ \/ main \in {"stop", "join", "disconnect", "shutdown"} /\ Exit
     \/ /\ main \notin {"stop", "join", "disconnect", "shutdown"} /\ main' = "stop"
        /\ UNCHANGED <<dashboard, worker, stop_event, client, brokerVars, events>>
  /\ UNCHANGED othersVars

(* Settings, context and queue are new; the broker has noticed. *)
Restart ==
  /\ main = "exited" /\ lives < MaxLives
  /\ lives' = lives + 1 /\ main' = "start" /\ struck' = <<>> /\ stop_event' = FALSE
  /\ newest' = 0 /\ after_stop' = 0 /\ link' = "closed"
  /\ UNCHANGED <<mode, dashboard, worker, refused, client, subscribed, events, publisher,
                 former>>

--------------------------------------------------------------------------------
CheckStopEvent ==
  /\ worker = "check"
  /\ worker' = IF stop_event THEN "none" ELSE "get"
  /\ UNCHANGED <<after_stop, newest, refused, events>>

(* Mutant: an ignored message moves the counter. *)
HandleCounting(e) ==
  /\ newest' = IF e.number > newest THEN e.number ELSE newest + 1
  /\ refused' = IF e.number <= newest /\ e.life = publisher.life THEN refused + 1 ELSE refused

Handle(e) ==
  /\ newest' = IF e.number > newest THEN e.number ELSE newest
  /\ refused' = IF e.number <= newest /\ e.life = publisher.life THEN refused + 1 ELSE refused

GetEvent ==
  /\ worker = "get" /\ events # <<>>
  /\ events' = Tail(events)
  /\ Handle(Head(events))
  /\ after_stop' = IF stop_event THEN after_stop + 1 ELSE after_stop
  /\ worker' = "busy"

(* The queue stays empty for half a second; a plan has been carried out,   *)
(* or has failed.  Nothing limits how long Fast Downward takes.            *)
BackToCheck ==
  /\ (worker = "get" /\ events = <<>>) \/ worker = "busy"
  /\ worker' = "check"
  /\ UNCHANGED <<after_stop, newest, refused, events>>

WorkerStep ==
  /\ CheckStopEvent \/ GetEvent \/ BackToCheck
  /\ UNCHANGED <<mode, mainVars, stop_event, client, brokerVars, publisher, former>>

--------------------------------------------------------------------------------
Send ==
  /\ publisher.number < MaxNumber /\ Len(events) < MaxQueue
  /\ publisher' = [publisher EXCEPT !.number = @ + 1]
  /\ events' = IF link = "open" /\ Topic \in subscribed /\ client.loop
               THEN Append(events, publisher')
               ELSE events
  /\ UNCHANGED <<refused, brokerVars, former>>

PublisherRestarts ==
  /\ publisher.life < MaxLives
  /\ publisher' = [number |-> 0, life |-> publisher.life + 1]
  /\ former' = IF publisher.number > former THEN publisher.number ELSE former
  /\ refused' = 0
  /\ UNCHANGED <<brokerVars, events>>

BrokerLost ==
  /\ link = "open"
  /\ link' = "lost" /\ subscribed' = {}
  /\ UNCHANGED <<refused, events, publisher, former>>

(* paho's network thread connects again; nobody subscribes again. *)
Reconnect ==
  /\ mode = "hardware" /\ link = "lost" /\ client.loop
  /\ link' = "open"
  /\ UNCHANGED <<refused, subscribed, events, publisher, former>>

LinkStep ==
  /\ Send \/ PublisherRestarts \/ BrokerLost \/ Reconnect
  /\ UNCHANGED <<mode, mainVars, worker, stop_event, after_stop, newest, client>>

(* Mutant: the flag stays up. *)
ReaderEndsSilently ==
  /\ mode = "simulation" /\ link = "lost" /\ client.loop
  /\ client' = [client EXCEPT !.loop = FALSE]
  /\ UNCHANGED <<mainVars, workerVars, stop_event, brokerVars, events, othersVars>>

(* The simulation's reader thread meets the end of the stream. *)
ReaderEnds ==
  /\ mode = "simulation" /\ link = "lost" /\ client.loop
  /\ client' = [client EXCEPT !.loop = FALSE, !.connected = FALSE]
  /\ UNCHANGED <<mainVars, workerVars, stop_event, brokerVars, events, othersVars>>

Next == MainStep \/ Interrupt \/ Restart \/ WorkerStep \/ LinkStep \/ ReaderEnds

(* The main thread and the reader run when they can.  Nothing is assumed   *)
(* of the worker: a planner may keep it for ever.                          *)
Spec == Init /\ [][Next]_vars /\ WF_vars(MainStep) /\ WF_vars(ReaderEnds)

--------------------------------------------------------------------------------
Places == {"start", "serve", "connect", "connected", "loop_start", "loop_started", "subscribe",
           "create", "launch", "wait", "stop", "join", "disconnect", "shutdown", "exited"}

Events == [number : Nat, life : Nat]

MainTypeOK ==
  /\ mode \in {"hardware", "simulation"}
  /\ main \in Places
  /\ dashboard \in {"down", "bound", "serving"}
  /\ worker \in {"none", "created", "check", "get", "busy"}
  /\ stop_event \in BOOLEAN
  /\ struck \in Seq(Places)

LinkTypeOK ==
  /\ client \in [connected : BOOLEAN, asked : SUBSET Topics, loop : BOOLEAN,
                 loop_started : BOOLEAN]
  /\ link \in {"closed", "open", "lost", "cut"}
  /\ subscribed \subseteq Topics

MessageTypeOK ==
  /\ events \in Seq(Events) /\ publisher \in Events
  /\ newest \in Nat /\ former \in Nat /\ refused \in Nat /\ after_stop \in Nat /\ lives \in Nat

TypeOK == MainTypeOK /\ LinkTypeOK /\ MessageTypeOK

(* "Shut down MQTT cleanly on Ctrl+C" (implementation.md, 3): the process  *)
(* leaves no open connection behind, after a failed start either.  What    *)
(* the code cannot do: a Ctrl+C that strikes between a step of connect and *)
(* the flag that reports it, one before the worker is started, a second.   *)
CleanShutdown ==
  link = "cut" =>
    \/ Len(struck) > 1
    \/ struck[1] = "launch"
    \/ mode = "hardware" /\ struck[1] \in {"connected", "loop_started"}

(* Ctrl+C ends the process, whatever the worker does, unless it strikes    *)
(* before serve_forever is called: then shutdown waits for ever.           *)
InterruptEndsProcess ==
  struck # <<>> /\ dashboard # "bound" ~> main = "exited"

(* The worker takes at most one more event when it is told to stop. *)
OneEventAfterStop == after_stop <= 1

(* A publisher that starts again at 1 is not ignored for ever: only for as *)
(* many messages as it had numbered in a former life.                      *)
RefusedUntilFormer == refused <= former

(* In the simulation the dashboard does not go on showing a connection     *)
(* that is lost.  (On hardware it does: nothing lowers that flag.)         *)
LossIsNoticed == mode = "simulation" /\ link = "lost" ~> ~client.connected

================================================================================
