-------------------------- MODULE SimulationTransport --------------------------
(***************************************************************************)
(* mqtt/simulation_client.py and simulator/broker.py: one client whose     *)
(* threads share a TCP connection to the broker.  Requests and answers     *)
(* carry no number on the wire: an answer goes to whichever thread waits   *)
(* next.  The numbers below say which request an answer is really for.     *)
(***************************************************************************)
EXTENDS Integers, Sequences, FiniteSets

CONSTANTS
  Callers,          \* the threads that publish and subscribe
  Topics,           \* the topics the client subscribes to
  None,
  MaxRequests,      \* bound: requests made by all threads together
  MaxMessages       \* bound: messages others publish, per topic

Requests == [type : {"publish", "subscribe"}, topic : Topics \cup {None}, number : Nat]

ASSUME NoneAssumption == None \notin Callers \cup Topics \cup Requests

ASSUME BoundAssumption == MaxRequests \in Nat /\ MaxMessages \in Nat

VARIABLES
  connected,        \* _connected
  reader_runs,      \* the reader thread is in its loop
  socket,           \* _socket: "open", "shut" by disconnect, then "none"
  broker_up,        \* the broker's end of the connection is open
  callbacks,        \* the topics with a callback
  request_lock,     \* the thread that holds _request_lock, or None
  pc,               \* what each thread does next
  request,          \* its last request [type, topic, number], 0 if not sent
  answer,           \* what that returned: [outcome, number], or None
  outgoing,         \* requests written and not handled by the broker yet
  replying,         \* the request carried out but not answered yet, or None
  incoming,         \* lines written by the broker and not read yet
  responses,        \* the queue _responses: numbers of answered requests
  made,             \* how many requests threads have made ...
  sent,             \* ... and written to the socket
  late,             \* how many waited for 5 s in vain
  subscribed,       \* the topics the broker sends to this client
  published,        \* how many messages others have published on each topic
  since,            \* how many of them before the subscription
  dispatched        \* those the callback has been given, per topic

clientVars == <<connected, reader_runs, socket, callbacks, responses>>
callVars   == <<request_lock, pc, request, answer, made, late>>
brokerVars == <<broker_up, replying, subscribed, published, since>>
vars == <<clientVars, callVars, brokerVars, outgoing, incoming, sent, dispatched>>

Request(type, topic) == [type |-> type, topic |-> topic, number |-> 0]
Response(r) == [type |-> "answer", topic |-> r.topic, number |-> r.number]
Message(topic, n) == [type |-> "message", topic |-> topic, number |-> n]

(* connect has returned. *)
Init ==
  /\ connected = TRUE /\ reader_runs = TRUE /\ socket = "open" /\ broker_up = TRUE
  /\ callbacks = {} /\ subscribed = {}
  /\ request_lock = None
  /\ pc = [t \in Callers |-> "idle"]
  /\ request = [t \in Callers |-> Request("publish", None)]
  /\ answer = [t \in Callers |-> None]
  /\ outgoing = <<>> /\ replying = None /\ incoming = <<>> /\ responses = <<>>
  /\ made = 0 /\ sent = 0 /\ late = 0
  /\ published = [p \in Topics |-> 0]
  /\ since = [p \in Topics |-> 0]
  /\ dispatched = [p \in Topics |-> <<>>]

--------------------------------------------------------------------------------
(* _request, called by publish and subscribe. *)

Return(t, outcome, number) ==
  /\ pc' = [pc EXCEPT ![t] = "idle"]
  /\ answer' = [answer EXCEPT ![t] = [outcome |-> outcome, number |-> number]]

Call(t, r) ==
  /\ pc[t] = "idle" /\ made < MaxRequests
  /\ made' = made + 1
  /\ request' = [request EXCEPT ![t] = r]
  /\ IF connected /\ socket # "none"
     THEN /\ pc' = [pc EXCEPT ![t] = "acquire"]
          /\ answer' = [answer EXCEPT ![t] = None]
     ELSE Return(t, "disconnected", 0)
  /\ UNCHANGED <<connected, reader_runs, socket, responses, request_lock, late, brokerVars,
                 outgoing, incoming, sent, dispatched>>

Publish(t) == Call(t, Request("publish", None)) /\ UNCHANGED callbacks

(* start subscribes to each topic once; the callback comes first. *)
Subscribe(t, topic) ==
  /\ topic \notin callbacks
  /\ callbacks' = callbacks \cup {topic}
  /\ Call(t, Request("subscribe", topic))

(* Mutant: requests without the lock. *)
AcquireUnlocked(t) ==
  /\ pc[t] = "acquire"
  /\ request_lock' = t
  /\ pc' = [pc EXCEPT ![t] = "send"]
  /\ UNCHANGED <<clientVars, request, answer, made, late, brokerVars,
                 outgoing, incoming, sent, dispatched>>

Acquire(t) ==
  /\ pc[t] = "acquire" /\ request_lock = None
  /\ request_lock' = t
  /\ pc' = [pc EXCEPT ![t] = "send"]
  /\ UNCHANGED <<clientVars, request, answer, made, late, brokerVars,
                 outgoing, incoming, sent, dispatched>>

(* sendall on an open socket whose other end is gone may still succeed. *)
Send(t) ==
  /\ pc[t] = "send" /\ socket = "open"
  /\ sent' = sent + 1
  /\ request' = [request EXCEPT ![t].number = sent + 1]
  /\ outgoing' = IF broker_up THEN Append(outgoing, request'[t]) ELSE outgoing
  /\ pc' = [pc EXCEPT ![t] = "wait"]
  /\ UNCHANGED <<clientVars, request_lock, answer, made, late, brokerVars,
                 incoming, dispatched>>

(* OSError becomes RuntimeError; _socket is None is an AttributeError,     *)
(* which the except clause does not catch.                                 *)
SendFails(t) ==
  /\ pc[t] = "send" /\ (socket = "open" => ~broker_up)
  /\ Return(t, IF socket = "none" THEN "crashed" ELSE "failed", 0)
  /\ request_lock' = None
  /\ UNCHANGED <<clientVars, request, made, late, brokerVars,
                 outgoing, incoming, sent, dispatched>>

(* The oldest answer in the queue, whoever it was meant for.  subscribe    *)
(* looks at its type and gives up its callback if that is a wrong one.     *)
TakeAnswer(t) ==
  LET got == Head(responses)
      bad == request[t].type = "subscribe" /\ got.topic = None
  IN
  /\ pc[t] = "wait" /\ responses # <<>>
  /\ responses' = Tail(responses)
  /\ callbacks' = IF bad THEN callbacks \ {request[t].topic} ELSE callbacks
  /\ Return(t, IF bad THEN "failed" ELSE "ok", got.number)
  /\ request_lock' = None
  /\ UNCHANGED <<connected, reader_runs, socket, request, made, late, brokerVars,
                 outgoing, incoming, sent, dispatched>>

(* Mutant: get without a timeout. *)
TimeOutNever(t) == FALSE /\ UNCHANGED vars /\ pc[t] = "wait"

TimeOut(t) ==
  /\ pc[t] = "wait" /\ responses = <<>>
  /\ late' = late + 1
  /\ Return(t, "failed", 0)
  /\ request_lock' = None
  /\ UNCHANGED <<clientVars, request, made, brokerVars,
                 outgoing, incoming, sent, dispatched>>

CallerStep(t) ==
  Acquire(t) \/ Send(t) \/ SendFails(t) \/ TakeAnswer(t) \/ TimeOut(t)

--------------------------------------------------------------------------------
(* The reader thread. *)

Waiting == {t \in Callers : pc[t] = "wait"}

(* Mutant: the one who waits for an answer skips the messages before it. *)
DispatchBetweenRequests(line) ==
  dispatched' = IF line.topic \in callbacks /\ Waiting = {}
                THEN [dispatched EXCEPT ![line.topic] = Append(@, line.number)]
                ELSE dispatched

Dispatch(line) ==
  dispatched' = IF line.topic \in callbacks
                THEN [dispatched EXCEPT ![line.topic] = Append(@, line.number)]
                ELSE dispatched

(* The reader looks at _connected only between two lines. *)
ReadLine ==
  LET line == Head(incoming) IN
  /\ reader_runs /\ incoming # <<>>
  /\ reader_runs' = connected
  /\ incoming' = Tail(incoming)
  /\ \/ line.type = "message" /\ Dispatch(line) /\ UNCHANGED responses
     \/ line.type = "answer" /\ responses' = Append(responses, line) /\ UNCHANGED dispatched
  /\ UNCHANGED <<connected, socket, callbacks, callVars, brokerVars, outgoing, sent>>

(* End of file or an error, which may cost what has not been read yet. *)
ReaderStops ==
  /\ reader_runs
  /\ socket # "open" \/ ~broker_up
  /\ reader_runs' = FALSE /\ connected' = FALSE /\ incoming' = <<>>
  /\ UNCHANGED <<socket, callbacks, responses, callVars, brokerVars,
                 outgoing, sent, dispatched>>

(* disconnect, called once by whoever stops the program. *)
Shutdown ==
  /\ socket = "open"
  /\ connected' = FALSE /\ socket' = "shut"
  /\ UNCHANGED <<reader_runs, callbacks, responses, callVars, brokerVars,
                 outgoing, incoming, sent, dispatched>>

Forget ==
  /\ socket = "shut"
  /\ socket' = "none"
  /\ UNCHANGED <<connected, reader_runs, callbacks, responses, callVars, brokerVars,
                 outgoing, incoming, sent, dispatched>>

ClientStep == ReadLine \/ ReaderStops \/ Shutdown \/ Forget

--------------------------------------------------------------------------------
(* The broker. *)

(* send_json to this client; an OSError is ignored. *)
Write(line) == incoming' = IF socket = "open" /\ reader_runs THEN Append(incoming, line) ELSE incoming

(* The client's handler thread takes the requests in order.  Messages of   *)
(* other clients may get between a subscription and its answer.            *)
Handle ==
  LET r == Head(outgoing) IN
  /\ broker_up /\ replying = None /\ outgoing # <<>>
  /\ outgoing' = Tail(outgoing)
  /\ replying' = r
  /\ IF r.type = "subscribe"
     THEN /\ subscribed' = subscribed \cup {r.topic}
          /\ since' = [since EXCEPT ![r.topic] = published[r.topic]]
     ELSE UNCHANGED <<subscribed, since>>
  /\ UNCHANGED <<clientVars, callVars, broker_up, published, incoming, sent, dispatched>>

(* Mutant: only subscriptions are answered. *)
ReplyToSubscriptions ==
  /\ broker_up /\ replying # None
  /\ replying' = None
  /\ IF replying.type = "subscribe" THEN Write(Response(replying)) ELSE UNCHANGED incoming
  /\ UNCHANGED <<clientVars, callVars, broker_up, subscribed, published, since,
                 outgoing, sent, dispatched>>

Reply ==
  /\ broker_up /\ replying # None
  /\ replying' = None
  /\ Write(Response(replying))
  /\ UNCHANGED <<clientVars, callVars, broker_up, subscribed, published, since,
                 outgoing, sent, dispatched>>

(* Writing to a client that is gone failed, or its requests have ended. *)
Remove ==
  /\ broker_up /\ socket # "open" /\ subscribed # {}
  /\ subscribed' = {}
  /\ UNCHANGED <<clientVars, callVars, broker_up, replying, published, since,
                 outgoing, incoming, sent, dispatched>>

(* A message of another client, of no interest once this one has left. *)
OtherPublishes(topic) ==
  /\ broker_up /\ socket = "open" /\ published[topic] < MaxMessages
  /\ published' = [published EXCEPT ![topic] = @ + 1]
  /\ IF topic \in subscribed
     THEN incoming' = Append(incoming, Message(topic, published[topic] + 1))
     ELSE UNCHANGED incoming
  /\ UNCHANGED <<clientVars, callVars, broker_up, replying, subscribed, since,
                 outgoing, sent, dispatched>>

BrokerStops ==
  /\ broker_up
  /\ broker_up' = FALSE /\ outgoing' = <<>> /\ replying' = None
  /\ UNCHANGED <<clientVars, callVars, subscribed, published, since,
                 incoming, sent, dispatched>>

BrokerStep ==
  \/ Handle \/ Reply \/ Remove \/ BrokerStops
  \/ \E topic \in Topics : OtherPublishes(topic)

--------------------------------------------------------------------------------
Next ==
  \/ \E t \in Callers :
       \/ Publish(t) \/ CallerStep(t)
       \/ \E topic \in Topics : Subscribe(t, topic)
  \/ ClientStep
  \/ BrokerStep

(* Every thread runs, and 5 s pass: a request cannot wait for ever.        *)
(* Nothing is assumed of the broker.                                       *)
Spec == Init /\ [][Next]_vars /\ \A t \in Callers : WF_vars(CallerStep(t))

--------------------------------------------------------------------------------
(* The lock is held from the sending of a request to its end, and a stop   *)
(* of either side never leaves it behind.                                  *)
LockHeldByRequest ==
  \A t \in Callers : pc[t] \in {"send", "wait"} <=> request_lock = t

(* The answers and the messages of a topic among the lines under way. *)
Answers == {i \in DOMAIN incoming : incoming[i].type = "answer"}

InFlight(topic) ==
  {i \in DOMAIN incoming : incoming[i].type = "message" /\ incoming[i].topic = topic}

(* The lines at the places I carry just the numbers from lo to hi, in this *)
(* order: none is lost, doubled or overtaken.                              *)
CarryInOrder(lines, I, lo, hi) ==
  /\ {lines[i].number : i \in I} = lo .. hi
  /\ \A i, j \in I : i < j => lines[i].number < lines[j].number

(* How many answers threads have been given; read by the client before     *)
(* that; how many requests the broker has taken, and answered.             *)
Taken    == sent - late - Cardinality(Waiting)
Read     == Taken + Len(responses)
Handled  == sent - Len(outgoing)
Answered == IF replying = None THEN Handled ELSE Handled - 1

(* Answers come in the order of the requests and none is lost or doubled,  *)
(* so there are exactly as many too many as requests have timed out: after *)
(* one late answer every request gets an older one's, for ever.            *)
AnswersLagByTimeouts ==
  broker_up /\ socket = "open" =>
    /\ \A n \in DOMAIN responses : responses[n].number = Taken + n
    /\ Read <= Answered /\ CarryInOrder(incoming, Answers, Read + 1, Answered)
    /\ replying # None => replying.number = Handled
    /\ \A n \in DOMAIN outgoing : outgoing[n].number = Handled + n

(* While no request has timed out, one that succeeds has got its own       *)
(* answer; the broker has then carried it out.                             *)
OwnAnswer ==
  late = 0 =>
    \A t \in Callers :
      answer[t] # None /\ answer[t].outcome = "ok" =>
        /\ answer[t].number = request[t].number
        /\ request[t].type = "subscribe" /\ socket = "open" =>
             request[t].topic \in subscribed \cap callbacks

(* Until then, too, all that others publish after the subscription comes   *)
(* to the callback, once and in order; so SensorLink may take the topics   *)
(* of the simulation for "fifo".                                           *)
NothingMissed ==
  late = 0 /\ connected /\ socket = "open" =>
    \A topic \in subscribed :
      LET got == since[topic] + Len(dispatched[topic])
      IN  /\ \A n \in DOMAIN dispatched[topic] : dispatched[topic][n] = since[topic] + n
          /\ got <= published[topic]
          /\ CarryInOrder(incoming, InFlight(topic), got + 1, published[topic])

(* Every request returns or raises, also when the broker is gone or the    *)
(* client disconnects in the middle of it.                                 *)
RequestsEnd == \A t \in Callers : pc[t] # "idle" ~> pc[t] = "idle"

================================================================================
