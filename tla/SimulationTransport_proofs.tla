----------------------- MODULE SimulationTransport_proofs ----------------------
(***************************************************************************)
(* The simulation client's requests and messages, for any set of threads   *)
(* and topics and any number of requests: the lock, the order of answers,  *)
(* and that nothing is missed as long as no request has timed out.         *)
(***************************************************************************)
EXTENDS SimulationTransport, SequenceTheorems, FiniteSetTheorems, TLAPS

Lines == [type : {"answer", "message"}, topic : Topics \cup {None}, number : Nat]

(* Only subscriptions have a topic. *)
WellFormed(r) == r.type = "subscribe" <=> r.topic # None

ClientTypeOK ==
  /\ connected \in BOOLEAN /\ reader_runs \in BOOLEAN /\ broker_up \in BOOLEAN
  /\ socket \in {"open", "shut", "none"}
  /\ callbacks \subseteq Topics /\ subscribed \subseteq Topics
  /\ published \in [Topics -> Nat] /\ since \in [Topics -> Nat]
  /\ dispatched \in [Topics -> Seq(Nat)]

CallTypeOK ==
  /\ pc \in [Callers -> {"idle", "acquire", "send", "wait"}]
  /\ request \in [Callers -> Requests]
  /\ \A t \in Callers : WellFormed(request[t])
  /\ DOMAIN answer = Callers
  /\ \A t \in Callers : pc[t] # "idle" => answer[t] = None
  /\ sent \in Nat /\ late \in Nat

QueueTypeOK ==
  /\ responses \in Seq(Lines) /\ incoming \in Seq(Lines) /\ outgoing \in Seq(Requests)
  /\ replying \in Requests \cup {None}
  /\ replying # None => WellFormed(replying)
  /\ \A n \in DOMAIN outgoing : WellFormed(outgoing[n])
  /\ \A i \in DOMAIN incoming : incoming[i].type = "message" => incoming[i].topic # None
  /\ ~broker_up => outgoing = <<>> /\ replying = None

(* The thread that waits has sent last: the lock keeps the others away. *)
LockInv == LockHeldByRequest /\ \A t \in Callers : pc[t] = "wait" => request[t].number = sent

(* The answers read so far continue those taken; the lines under way       *)
(* continue these up to some number, which is the broker's as long as      *)
(* nothing has been lost.                                                  *)
OrderInv ==
  /\ \A n \in DOMAIN responses : responses[n].number = Taken + n
  /\ \E hi \in Int :
       /\ Read <= hi /\ hi <= sent /\ CarryInOrder(incoming, Answers, Read + 1, hi)
       /\ broker_up /\ socket = "open" => hi = Answered
  /\ broker_up /\ socket = "open" =>
       /\ reader_runs /\ connected
       /\ replying # None => replying.number = Handled
       /\ \A n \in DOMAIN outgoing : outgoing[n].number = Handled + n

(* Before the first late answer all that is under way belongs to the one   *)
(* thread that waits, ...                                                  *)
AllIsFor(r) ==
  /\ \A n \in DOMAIN responses : responses[n].topic = r.topic
  /\ \A i \in Answers : incoming[i].topic = r.topic
  /\ replying # None => replying.topic = r.topic
  /\ \A n \in DOMAIN outgoing : outgoing[n].topic = r.topic

OwnInv == late = 0 => \A t \in Waiting : AllIsFor(request[t])

(* ... an answered subscription has been carried out, ...                  *)
SubscribedInv ==
  socket = "open" =>
    /\ \A n \in DOMAIN responses : responses[n].topic \in subscribed \cup {None}
    /\ \A i \in Answers : incoming[i].topic \in subscribed \cup {None}
    /\ replying # None => replying.topic \in subscribed \cup {None}

(* ... and one on its way is the only one for its topic.                   *)
Asking(t) == pc[t] \in {"acquire", "send"} /\ request[t].type = "subscribe"

AskingInv ==
  late = 0 /\ socket = "open" =>
    /\ subscribed \subseteq callbacks
    /\ \A t \in Callers : Asking(t) => request[t].topic \in callbacks \ subscribed
    /\ \A t, u \in Callers : Asking(t) /\ Asking(u) /\ request[t].topic = request[u].topic => t = u
    /\ \A n \in DOMAIN outgoing : outgoing[n].type = "subscribe" =>
         /\ outgoing[n].topic \in callbacks \ subscribed
         /\ \A t \in Callers : Asking(t) => request[t].topic # outgoing[n].topic

(* Nothing comes for a topic before it is subscribed to. *)
SilentInv ==
  socket = "open" =>
    \A topic \in Topics \ subscribed : dispatched[topic] = <<>> /\ InFlight(topic) = {}

TransportInv ==
  /\ ClientTypeOK /\ CallTypeOK /\ QueueTypeOK
  /\ LockInv /\ OrderInv /\ OwnInv /\ SubscribedInv /\ AskingInv /\ SilentInv
  /\ OwnAnswer /\ NothingMissed

--------------------------------------------------------------------------------
(* Sequences of lines. *)

LEMMA CarryTail ==
  ASSUME NEW q \in Seq(Lines), q # <<>>, NEW I, I \subseteq DOMAIN q,
         NEW lo \in Int, NEW hi \in Int, CarryInOrder(q, I, lo, hi)
  PROVE  LET J == {i \in DOMAIN Tail(q) : i + 1 \in I}
         IN  /\ 1 \in I => q[1].number = lo /\ lo <= hi /\ CarryInOrder(Tail(q), J, lo + 1, hi)
             /\ 1 \notin I => CarryInOrder(Tail(q), J, lo, hi)
<1> DEFINE J == {i \in DOMAIN Tail(q) : i + 1 \in I}
<1>1. /\ Len(q) \in Nat \ {0} /\ DOMAIN q = 1 .. Len(q)
      /\ DOMAIN Tail(q) = 1 .. Len(q) - 1
      /\ \A i \in DOMAIN Tail(q) : Tail(q)[i] = q[i + 1]
  BY LenProperties, EmptySeq, HeadTailProperties
<1>2. \A i \in I : q[i].number \in Int /\ i \in Int
  <2>1. \A i \in I : q[i] \in Lines /\ i \in Int
    BY <1>1, ElementOfSeq
  <2> QED  BY <2>1 DEF Lines
<1>3. \A i \in J : i + 1 \in I /\ Tail(q)[i] = q[i + 1]
  BY <1>1
<1>4. \A i \in I \ {1} : i - 1 \in J /\ Tail(q)[i - 1] = q[i]
  BY <1>1
<1>5. \A i, j \in J : i < j => Tail(q)[i].number < Tail(q)[j].number
  BY <1>1, <1>3 DEF CarryInOrder
<1>6. {Tail(q)[i].number : i \in J} = {q[i].number : i \in I \ {1}}
  <2>1. \A i \in J : i + 1 \in I \ {1} /\ Tail(q)[i].number = q[i + 1].number
    BY <1>1, <1>3
  <2>2. \A i \in I \ {1} : \E j \in J : Tail(q)[j].number = q[i].number
    BY <1>4
  <2> HIDE DEF J
  <2>3. {Tail(q)[i].number : i \in J} \subseteq {q[i].number : i \in I \ {1}}
    BY <2>1
  <2>4. {q[i].number : i \in I \ {1}} \subseteq {Tail(q)[i].number : i \in J}
    BY <2>2
  <2> QED  BY <2>3, <2>4
<1>7. CASE 1 \in I
  <2>1. \A i \in I \ {1} : q[1].number < q[i].number
    BY <1>1, <1>7 DEF CarryInOrder
  <2>2. q[1].number \in lo .. hi /\ lo <= hi
    <3>1. q[1].number \in lo .. hi
      BY <1>7 DEF CarryInOrder
    <3> QED  BY <3>1
  <2>3. PICK i \in I : q[i].number = lo
    BY <2>2 DEF CarryInOrder
  <2>4. q[1].number = lo
    BY <1>2, <2>1, <2>2, <2>3
  <2>5. {q[j].number : j \in I \ {1}} = lo + 1 .. hi
    BY <1>2, <1>7, <2>1, <2>4 DEF CarryInOrder
  <2> QED  BY <1>5, <1>6, <1>7, <2>2, <2>4, <2>5 DEF CarryInOrder
<1>8. CASE 1 \notin I
  <2>1. I \ {1} = I
    BY <1>8
  <2> QED  BY <1>5, <1>6, <1>8, <2>1 DEF CarryInOrder
<1> QED  BY <1>7, <1>8

LEMMA CarryAppend ==
  ASSUME NEW q \in Seq(Lines), NEW x \in Lines, NEW I, I \subseteq DOMAIN q,
         NEW lo \in Int, NEW hi \in Int, lo <= hi + 1, CarryInOrder(q, I, lo, hi)
  PROVE  /\ CarryInOrder(Append(q, x), I, lo, hi)
         /\ x.number = hi + 1 => CarryInOrder(Append(q, x), I \cup {Len(q) + 1}, lo, hi + 1)
<1> DEFINE r == Append(q, x)
           n == Len(q) + 1
<1>1. /\ Len(q) \in Nat /\ DOMAIN q = 1 .. Len(q) /\ r[n] = x
      /\ \A i \in DOMAIN q : r[i] = q[i]
  BY LenProperties, AppendProperties
<1>2. \A i \in I : r[i] = q[i] /\ i \in Int /\ i < n /\ q[i].number \in lo .. hi
  BY <1>1 DEF CarryInOrder
<1>3. CarryInOrder(r, I, lo, hi)
  BY <1>2 DEF CarryInOrder
<1>4. ASSUME x.number = hi + 1 PROVE CarryInOrder(r, I \cup {n}, lo, hi + 1)
  <2>1. \A i, j \in I \cup {n} : i < j => r[i].number < r[j].number
    BY <1>1, <1>2, <1>4 DEF CarryInOrder
  <2>2. {r[i].number : i \in I \cup {n}} = {q[i].number : i \in I} \cup {hi + 1}
    BY <1>1, <1>2, <1>4
  <2>3. (lo .. hi) \cup {hi + 1} = lo .. hi + 1
    OBVIOUS
  <2> QED  BY <2>1, <2>2, <2>3 DEF CarryInOrder
<1> QED  BY <1>3, <1>4

--------------------------------------------------------------------------------
(* The lock. *)

LockHeldInv == LockHeldByRequest /\ DOMAIN pc = Callers

LEMMA InitLock == Init => LockHeldInv
  BY NoneAssumption DEF Init, LockHeldInv, LockHeldByRequest

(* A call, from idle to waiting for the lock or straight back.             *)
LEMMA CallLock ==
  ASSUME LockHeldInv, NEW t \in Callers, NEW r, Call(t, r) PROVE LockHeldInv'
<1> USE DEF LockHeldInv, Call
<1>1. CASE pc' = [pc EXCEPT ![t] = "acquire"]
  BY <1>1 DEF LockHeldByRequest
<1>2. CASE pc' = [pc EXCEPT ![t] = "idle"]
  BY <1>2 DEF LockHeldByRequest
<1> QED  BY <1>1, <1>2 DEF Return

(* The thread that holds the lock leaves _request, in whatever way.        *)
LEMMA ReleaseLock ==
  ASSUME LockHeldInv, NEW t \in Callers, pc[t] \in {"send", "wait"},
         pc' = [pc EXCEPT ![t] = "idle"], request_lock' = None
  PROVE  LockHeldInv'
<1>1. \A u \in Callers \ {t} : pc[u] \notin {"send", "wait"}
  BY DEF LockHeldInv, LockHeldByRequest
<1> QED  BY <1>1, NoneAssumption DEF LockHeldInv, LockHeldByRequest

LEMMA CallerStepLock ==
  ASSUME LockHeldInv, NEW t \in Callers, CallerStep(t) PROVE LockHeldInv'
<1>1. CASE Acquire(t)
  <2>1. \A u \in Callers : pc[u] \notin {"send", "wait"}
    BY <1>1, NoneAssumption DEF Acquire, LockHeldInv, LockHeldByRequest
  <2> QED  BY <1>1, <2>1 DEF Acquire, LockHeldInv, LockHeldByRequest
<1>2. CASE Send(t)
  BY <1>2 DEF Send, LockHeldInv, LockHeldByRequest
<1>3. CASE SendFails(t) \/ TakeAnswer(t) \/ TimeOut(t)
  BY <1>3, ReleaseLock DEF SendFails, TakeAnswer, TimeOut, Return
<1> QED  BY <1>1, <1>2, <1>3 DEF CallerStep

LEMMA NextLock == LockHeldInv /\ [Next]_vars => LockHeldInv'
<1> SUFFICES ASSUME LockHeldInv, [Next]_vars PROVE LockHeldInv'
  OBVIOUS
<1>1. ASSUME NEW t \in Callers, Publish(t) \/ \E topic \in Topics : Subscribe(t, topic)
      PROVE  LockHeldInv'
  BY <1>1, CallLock DEF Publish, Subscribe
<1>2. ASSUME NEW t \in Callers, CallerStep(t) PROVE LockHeldInv'
  BY <1>2, CallerStepLock
<1>3. CASE ClientStep \/ BrokerStep \/ UNCHANGED vars
  <2>1. UNCHANGED callVars
    BY <1>3 DEF ClientStep, ReadLine, ReaderStops, Shutdown, Forget, BrokerStep, Handle, Reply,
                Remove, BrokerStops, OtherPublishes, vars
  <2> QED  BY <2>1 DEF callVars, LockHeldInv, LockHeldByRequest
<1> QED  BY <1>1, <1>2, <1>3 DEF Next

--------------------------------------------------------------------------------
(* Types. *)

TypesOK == ClientTypeOK /\ CallTypeOK /\ QueueTypeOK

LEMMA TailType ==
  ASSUME NEW S, NEW q \in Seq(S), q # <<>>
  PROVE  /\ Head(q) \in S /\ Head(q) = q[1] /\ 1 \in DOMAIN q /\ Tail(q) \in Seq(S)
         /\ Len(q) \in Nat \ {0} /\ Len(Tail(q)) = Len(q) - 1
         /\ DOMAIN q = 1 .. Len(q) /\ DOMAIN Tail(q) = 1 .. Len(q) - 1
         /\ \A i \in DOMAIN Tail(q) : i + 1 \in DOMAIN q /\ Tail(q)[i] = q[i + 1]
  BY HeadTailProperties, LenProperties, EmptySeq

LEMMA AppendType ==
  ASSUME NEW S, NEW q \in Seq(S), NEW x \in S
  PROVE  /\ Append(q, x) \in Seq(S) /\ Len(q) \in Nat /\ Len(Append(q, x)) = Len(q) + 1
         /\ DOMAIN q = 1 .. Len(q) /\ DOMAIN Append(q, x) = 1 .. Len(q) + 1
         /\ \A i \in DOMAIN q : Append(q, x)[i] = q[i]
         /\ Append(q, x)[Len(q) + 1] = x
         /\ \A i \in DOMAIN Append(q, x) : i \in DOMAIN q \/ i = Len(q) + 1
  BY AppendProperties, LenProperties

(* Whatever is written, messages have a topic. *)
LEMMA AppendLine ==
  ASSUME NEW q \in Seq(Lines), NEW x \in Lines, x.type = "message" => x.topic # None,
         \A i \in DOMAIN q : q[i].type = "message" => q[i].topic # None
  PROVE  /\ Append(q, x) \in Seq(Lines)
         /\ \A i \in DOMAIN Append(q, x) :
              Append(q, x)[i].type = "message" => Append(q, x)[i].topic # None
  BY AppendType

LEMMA InitTypes == Init => TypesOK
<1> SUFFICES ASSUME Init PROVE TypesOK
  OBVIOUS
<1> USE DEF Init
<1>1. ClientTypeOK
  BY DEF ClientTypeOK
<1>2. CallTypeOK
  BY DEF CallTypeOK, Request, Requests, WellFormed
<1>3. QueueTypeOK
  BY DEF QueueTypeOK
<1> QED  BY <1>1, <1>2, <1>3 DEF TypesOK

LEMMA CallTypes ==
  ASSUME TypesOK, NEW t \in Callers, NEW r \in Requests, WellFormed(r), Call(t, r),
         callbacks' \subseteq Topics
  PROVE  TypesOK'
<1> USE DEF TypesOK, Call, brokerVars
<1>1. ClientTypeOK'
  BY DEF ClientTypeOK
<1>2. CallTypeOK'
  BY DEF CallTypeOK, Return
<1>3. QueueTypeOK'
  BY DEF QueueTypeOK
<1> QED  BY <1>1, <1>2, <1>3

LEMMA CallerStepTypes ==
  ASSUME TypesOK, LockHeldByRequest, NEW t \in Callers, CallerStep(t) PROVE TypesOK'
<1> USE DEF TypesOK, clientVars, brokerVars
<1>1. CASE Acquire(t)
  BY <1>1 DEF Acquire, ClientTypeOK, CallTypeOK, QueueTypeOK
<1>2. CASE Send(t)
  <2>1. /\ request' = [request EXCEPT ![t].number = sent + 1]
        /\ request'[t] \in Requests /\ WellFormed(request'[t])
    BY <1>2 DEF Send, CallTypeOK, Requests, WellFormed
  <2>2. CallTypeOK'
    BY <1>2, <2>1 DEF Send, CallTypeOK
  <2>3. QueueTypeOK'
    <3>1. outgoing' = (IF broker_up THEN Append(outgoing, request'[t]) ELSE outgoing)
          /\ UNCHANGED <<responses, incoming, replying, broker_up>>
      BY <1>2 DEF Send
    <3>2. outgoing' \in Seq(Requests) /\ \A n \in DOMAIN outgoing' : WellFormed(outgoing'[n])
      <4> DEFINE q == Append(outgoing, request'[t])
      <4>1. /\ q \in Seq(Requests)
            /\ \A n \in DOMAIN q : (n \in DOMAIN outgoing /\ q[n] = outgoing[n]) \/ q[n] = request'[t]
        BY <2>1, AppendType DEF QueueTypeOK
      <4> QED  BY <2>1, <3>1, <4>1 DEF QueueTypeOK
    <3> QED  BY <3>1, <3>2 DEF QueueTypeOK
  <2> QED  BY <1>2, <2>2, <2>3 DEF Send, ClientTypeOK
<1>3. CASE SendFails(t)
  BY <1>3 DEF SendFails, Return, ClientTypeOK, CallTypeOK, QueueTypeOK
<1>4. CASE TakeAnswer(t)
  <2>1. CallTypeOK'
    BY <1>4 DEF TakeAnswer, Return, CallTypeOK
  <2>2. QueueTypeOK'
    BY <1>4, TailType DEF TakeAnswer, QueueTypeOK
  <2>3. ClientTypeOK'
    BY <1>4 DEF TakeAnswer, ClientTypeOK
  <2> QED  BY <2>1, <2>2, <2>3
<1>5. CASE TimeOut(t)
  BY <1>5 DEF TimeOut, Return, ClientTypeOK, CallTypeOK, QueueTypeOK
<1> QED  BY <1>1, <1>2, <1>3, <1>4, <1>5 DEF CallerStep

LEMMA ClientStepTypes ==
  ASSUME TypesOK, ClientStep PROVE TypesOK'
<1> USE DEF TypesOK, clientVars, callVars, brokerVars
<1>1. CASE ReadLine
  <2> DEFINE line == Head(incoming)
  <2>1. /\ line \in Lines /\ line = incoming[1] /\ 1 \in DOMAIN incoming
        /\ incoming' = Tail(incoming) /\ incoming' \in Seq(Lines)
        /\ \A i \in DOMAIN incoming' : i + 1 \in DOMAIN incoming /\ incoming'[i] = incoming[i + 1]
    BY <1>1, TailType DEF ReadLine, QueueTypeOK
  <2>2. CallTypeOK'
    BY <1>1 DEF ReadLine, CallTypeOK
  <2>3. QueueTypeOK'
    <3>1. responses' \in Seq(Lines)
      <4>1. Append(responses, line) \in Seq(Lines)
        BY <2>1, AppendType DEF QueueTypeOK
      <4> QED  BY <1>1, <4>1 DEF ReadLine, QueueTypeOK
    <3>2. \A i \in DOMAIN incoming' : incoming'[i].type = "message" => incoming'[i].topic # None
      BY <2>1 DEF QueueTypeOK
    <3>3. UNCHANGED <<outgoing, replying, broker_up>>
      BY <1>1 DEF ReadLine
    <3> QED  BY <2>1, <3>1, <3>2, <3>3 DEF QueueTypeOK, WellFormed
  <2>4. dispatched' \in [Topics -> Seq(Nat)]
    <3>1. line.number \in Nat
      BY <2>1 DEF Lines
    <3>2. dispatched' \in {dispatched, [dispatched EXCEPT ![line.topic] = Append(@, line.number)]}
      BY <1>1 DEF ReadLine, Dispatch
    <3>3. line.topic \in Topics => Append(dispatched[line.topic], line.number) \in Seq(Nat)
      BY <3>1, AppendType DEF ClientTypeOK
    <3> QED  BY <3>2, <3>3 DEF ClientTypeOK
  <2> QED  BY <1>1, <2>2, <2>3, <2>4 DEF ReadLine, ClientTypeOK
<1>2. CASE ReaderStops
  <2>1. ClientTypeOK' /\ CallTypeOK'
    BY <1>2 DEF ReaderStops, ClientTypeOK, CallTypeOK
  <2>2. incoming' = <<>> /\ UNCHANGED <<responses, outgoing, replying, broker_up>>
    BY <1>2 DEF ReaderStops
  <2> QED  BY <2>1, <2>2 DEF QueueTypeOK
<1>3. CASE Shutdown \/ Forget
  <2>1. ClientTypeOK' /\ CallTypeOK'
    BY <1>3 DEF Shutdown, Forget, ClientTypeOK, CallTypeOK
  <2>2. UNCHANGED <<responses, incoming, outgoing, replying, broker_up>>
    BY <1>3 DEF Shutdown, Forget
  <2> QED  BY <2>1, <2>2 DEF QueueTypeOK, WellFormed
<1> QED  BY <1>1, <1>2, <1>3 DEF ClientStep

LEMMA BrokerStepTypes ==
  ASSUME TypesOK, BrokerStep PROVE TypesOK'
<1> USE DEF TypesOK, clientVars, callVars
<1>1. CASE Handle
  <2> DEFINE r == Head(outgoing)
  <2>1. /\ r \in Requests /\ r = outgoing[1] /\ 1 \in DOMAIN outgoing
        /\ outgoing' = Tail(outgoing) /\ outgoing' \in Seq(Requests)
        /\ \A i \in DOMAIN outgoing' : i + 1 \in DOMAIN outgoing /\ outgoing'[i] = outgoing[i + 1]
    BY <1>1, TailType DEF Handle, QueueTypeOK
  <2>2. CallTypeOK'
    BY <1>1 DEF Handle, CallTypeOK
  <2>3. QueueTypeOK'
    <3>1. /\ replying' = r /\ WellFormed(r) /\ broker_up'
          /\ UNCHANGED <<responses, incoming, broker_up>>
      BY <1>1, <2>1 DEF Handle, QueueTypeOK
    <3>2. \A n \in DOMAIN outgoing' : WellFormed(outgoing'[n])
      BY <2>1 DEF QueueTypeOK
    <3> QED  BY <2>1, <3>1, <3>2 DEF QueueTypeOK
  <2>4. r.type = "subscribe" => r.topic \in Topics
    BY <2>1 DEF QueueTypeOK, WellFormed, Requests
  <2>5. subscribed' \subseteq Topics /\ since' \in [Topics -> Nat]
    BY <1>1, <2>4 DEF Handle, ClientTypeOK
  <2> QED  BY <1>1, <2>2, <2>3, <2>5 DEF Handle, ClientTypeOK
<1>2. CASE Reply
  <2>1. Response(replying) \in Lines /\ Response(replying).type = "answer"
    BY <1>2 DEF Reply, Response, Lines, Requests, QueueTypeOK
  <2>2. incoming' \in Seq(Lines)
        /\ \A i \in DOMAIN incoming' : incoming'[i].type = "message" => incoming'[i].topic # None
    BY <1>2, <2>1, AppendLine DEF Reply, Write, QueueTypeOK
  <2>3. ClientTypeOK' /\ CallTypeOK'
    BY <1>2 DEF Reply, ClientTypeOK, CallTypeOK
  <2>4. QueueTypeOK'
    BY <1>2, <2>2 DEF Reply, QueueTypeOK
  <2> QED  BY <2>3, <2>4
<1>3. CASE Remove \/ BrokerStops
  <2>1. CallTypeOK' /\ ClientTypeOK'
    BY <1>3 DEF Remove, BrokerStops, ClientTypeOK, CallTypeOK
  <2>2. QueueTypeOK'
    <3>1. CASE Remove
      BY <3>1 DEF Remove, QueueTypeOK
    <3>2. CASE BrokerStops
      BY <3>2 DEF BrokerStops, QueueTypeOK
    <3> QED  BY <1>3, <3>1, <3>2
  <2> QED  BY <2>1, <2>2
<1>4. ASSUME NEW topic \in Topics, OtherPublishes(topic) PROVE TypesOK'
  <2> DEFINE m == Message(topic, published[topic] + 1)
  <2>1. m \in Lines /\ m.topic # None
    BY NoneAssumption DEF Message, Lines, ClientTypeOK
  <2>2. incoming' \in Seq(Lines)
        /\ \A i \in DOMAIN incoming' : incoming'[i].type = "message" => incoming'[i].topic # None
    BY <1>4, <2>1, AppendLine DEF OtherPublishes, QueueTypeOK
  <2> QED  BY <1>4, <2>2 DEF OtherPublishes, ClientTypeOK, CallTypeOK, QueueTypeOK
<1> QED  BY <1>1, <1>2, <1>3, <1>4 DEF BrokerStep

--------------------------------------------------------------------------------
(* How many answers have been taken. *)

LEMMA TakenFacts ==
  ASSUME TypesOK, LockHeldByRequest
  PROVE  /\ Taken \in Int /\ sent \in Nat /\ late \in Nat
         /\ Waiting = {} => Taken = sent - late
         /\ \A t \in Waiting : Waiting = {t} /\ Taken = sent - late - 1
<1>1. \A t \in Waiting : Waiting = {t}
  BY DEF Waiting, LockHeldByRequest
<1>2. Cardinality({}) = 0 /\ \A t : Cardinality({t}) = 1
  BY FS_EmptySet, FS_Singleton
<1>3. sent \in Nat /\ late \in Nat
  BY DEF TypesOK, CallTypeOK
<1>4. CASE Waiting = {}
  BY <1>2, <1>3, <1>4 DEF Taken
<1>5. ASSUME NEW t \in Waiting PROVE Waiting = {t} /\ Taken = sent - late - 1
  <2>1. Waiting = {t}
    BY <1>1, <1>5
  <2>2. Cardinality(Waiting) = 1
    BY <1>2, <2>1
  <2> QED  BY <2>1, <2>2 DEF Taken
<1> QED  BY <1>3, <1>4, <1>5

(* A step of a thread that is not waiting and does not start to. *)
LEMMA TakenKept ==
  ASSUME TypesOK, NEW t \in Callers, NEW place, pc' = [pc EXCEPT ![t] = place],
         pc[t] # "wait", place # "wait", UNCHANGED <<sent, late>>
  PROVE  Waiting' = Waiting /\ Taken' = Taken
<1>1. Waiting' = Waiting
  BY DEF Waiting, TypesOK, CallTypeOK
<1> QED  BY <1>1 DEF Taken

(* Nobody waits when a request is sent; then its sender does, alone. *)
LEMMA TakenBySend ==
  ASSUME TypesOK, LockHeldByRequest, NEW t \in Callers, Send(t)
  PROVE  /\ Waiting = {} /\ Waiting' = {t}
         /\ Taken = sent - late /\ Taken' = Taken
<1>1. \A u \in Callers : pc[u] = "wait" => FALSE
  BY DEF Send, LockHeldByRequest
<1>2. Waiting = {} /\ Waiting' = {t}
  BY <1>1 DEF Waiting, Send, TypesOK, CallTypeOK
<1>3. Cardinality({t}) = 1
  BY FS_Singleton
<1>4. Taken = sent - late /\ sent \in Nat /\ late \in Nat
  BY <1>2, TakenFacts
<1>5. sent' = sent + 1 /\ late' = late
  BY DEF Send
<1> QED  BY <1>2, <1>3, <1>4, <1>5 DEF Taken

(* A request that ends leaves nobody waiting. *)
LEMMA TakenByEnd ==
  ASSUME TypesOK, LockHeldByRequest, NEW t \in Callers, TakeAnswer(t) \/ TimeOut(t)
  PROVE  /\ Waiting = {t} /\ Waiting' = {} /\ sent' = sent
         /\ Taken = sent - late - 1 /\ Taken' = sent - late'
         /\ TakeAnswer(t) => late' = late
         /\ TimeOut(t) => late' = late + 1
<1>1. pc[t] = "wait" /\ pc' = [pc EXCEPT ![t] = "idle"] /\ sent' = sent
  BY DEF TakeAnswer, TimeOut, Return
<1>2. Waiting = {t} /\ Waiting' = {}
  BY <1>1 DEF Waiting, LockHeldByRequest, TypesOK, CallTypeOK
<1>3. Cardinality({}) = 0
  BY FS_EmptySet
<1>4. /\ TakeAnswer(t) => late' = late
      /\ TimeOut(t) => late' = late + 1
  BY DEF TakeAnswer, TimeOut
<1>5. Taken = sent - late - 1 /\ sent \in Nat /\ late \in Nat
  BY <1>2, TakenFacts
<1> QED  BY <1>1, <1>2, <1>3, <1>4, <1>5 DEF Taken

(* Who waits has sent the last request. *)
LEMMA LastSentStep ==
  ASSUME TypesOK, LockInv, [Next]_vars, LockHeldByRequest'
  PROVE  LockInv'
<1> USE DEF LockInv, TypesOK, CallTypeOK
<1>1. ASSUME NEW t \in Callers, NEW r \in Requests, Call(t, r) PROVE LockInv'
  BY <1>1 DEF Call, Return
<1>2. ASSUME NEW t \in Callers, Send(t) PROVE LockInv'
  <2>1. \A u \in Callers \ {t} : pc'[u] # "wait"
    BY <1>2 DEF Send, LockHeldByRequest
  <2>2. request'[t].number = sent'
    BY <1>2 DEF Send, Requests
  <2> QED  BY <2>1, <2>2
<1>3. ASSUME NEW t \in Callers, Acquire(t) \/ SendFails(t) \/ TakeAnswer(t) \/ TimeOut(t) PROVE LockInv'
  BY <1>3 DEF Acquire, SendFails, TakeAnswer, TimeOut, Return
<1>4. CASE ClientStep \/ BrokerStep \/ UNCHANGED vars
  <2>1. UNCHANGED <<pc, request, sent>>
    BY <1>4 DEF ClientStep, ReadLine, ReaderStops, Shutdown, Forget, BrokerStep, Handle, Reply,
                Remove, BrokerStops, OtherPublishes, vars, callVars
  <2> QED  BY <2>1
<1>5. ASSUME NEW t \in Callers, Publish(t) \/ \E topic \in Topics : Subscribe(t, topic)
      PROVE  \E r \in Requests : Call(t, r)
  BY <1>5 DEF Publish, Subscribe, Request, Requests
<1> QED  BY <1>1, <1>2, <1>3, <1>4, <1>5 DEF Next, CallerStep

--------------------------------------------------------------------------------
(* The order of answers. *)

(* What a line read, or one written, does to the places in incoming. *)
LEMMA PlacesOfTail ==
  ASSUME incoming \in Seq(Lines), incoming # <<>>, incoming' = Tail(incoming)
  PROVE  /\ Answers' = {i \in DOMAIN Tail(incoming) : i + 1 \in Answers}
         /\ \A topic : InFlight(topic)' = {i \in DOMAIN Tail(incoming) : i + 1 \in InFlight(topic)}
  BY TailType DEF Answers, InFlight

LEMMA PlacesOfAppend ==
  ASSUME incoming \in Seq(Lines), NEW x \in Lines, incoming' = Append(incoming, x)
  PROVE  /\ x.type = "message" =>
              /\ Answers' = Answers
              /\ InFlight(x.topic)' = InFlight(x.topic) \cup {Len(incoming) + 1}
              /\ \A topic : topic # x.topic => InFlight(topic)' = InFlight(topic)
         /\ x.type = "answer" =>
              /\ Answers' = Answers \cup {Len(incoming) + 1}
              /\ \A topic : InFlight(topic)' = InFlight(topic)
<1>1. /\ DOMAIN incoming = 1 .. Len(incoming) /\ Len(incoming) \in Nat
      /\ DOMAIN incoming' = DOMAIN incoming \cup {Len(incoming) + 1}
      /\ \A i \in DOMAIN incoming : incoming'[i] = incoming[i]
      /\ incoming'[Len(incoming) + 1] = x
  BY AppendType
<1>2. /\ x.type = "message" => x.type # "answer"
      /\ x.type = "answer" => x.type # "message"
  OBVIOUS
<1>3. ASSUME x.type = "message"
      PROVE  /\ Answers' = Answers
             /\ InFlight(x.topic)' = InFlight(x.topic) \cup {Len(incoming) + 1}
             /\ \A topic : topic # x.topic => InFlight(topic)' = InFlight(topic)
  BY <1>1, <1>2, <1>3 DEF Answers, InFlight
<1>4. ASSUME x.type = "answer"
      PROVE  /\ Answers' = Answers \cup {Len(incoming) + 1}
             /\ \A topic : InFlight(topic)' = InFlight(topic)
  BY <1>1, <1>2, <1>4 DEF Answers, InFlight
<1> QED  BY <1>3, <1>4

LEMMA OrderFrame ==
  ASSUME OrderInv, UNCHANGED <<responses, incoming, replying, outgoing, sent>>, Taken' = Taken,
         broker_up' /\ socket' = "open" =>
           broker_up /\ socket = "open" /\ UNCHANGED <<reader_runs, connected>>
  PROVE  OrderInv'
<1> QED  BY DEF OrderInv, Read, Answered, Handled, Answers

LEMMA OrderBySend ==
  ASSUME TypesOK, LockInv, OrderInv, NEW t \in Callers, Send(t)
  PROVE  OrderInv'
<1>1. /\ Taken' = Taken /\ Taken \in Int /\ sent \in Nat /\ sent' = sent + 1
      /\ UNCHANGED <<responses, incoming, replying, reader_runs, connected, broker_up, socket>>
      /\ Len(responses) \in Nat
  BY TakenBySend, TakenFacts, LenProperties DEF Send, clientVars, brokerVars, LockInv, TypesOK, QueueTypeOK
<1>2. request'[t].number = sent + 1 /\ request'[t] \in Requests
  <2>1. /\ request' = [request EXCEPT ![t].number = sent + 1]
        /\ request \in [Callers -> Requests] /\ sent \in Nat
    BY DEF Send, TypesOK, CallTypeOK
  <2> QED  BY <2>1 DEF Requests
<1>3. Read' = Read /\ Answers' = Answers
  BY <1>1 DEF Read, Answers
<1>4. CASE broker_up
  <2>1. outgoing' = Append(outgoing, request'[t]) /\ outgoing \in Seq(Requests)
    BY <1>4 DEF Send, TypesOK, QueueTypeOK
  <2>2. /\ Len(outgoing) \in Nat /\ Len(outgoing') = Len(outgoing) + 1
        /\ DOMAIN outgoing = 1 .. Len(outgoing)
        /\ \A n \in DOMAIN outgoing' :
             \/ n \in DOMAIN outgoing /\ outgoing'[n] = outgoing[n]
             \/ n = Len(outgoing) + 1 /\ outgoing'[n].number = sent + 1
    BY <1>2, <2>1, AppendType
  <2>3. Handled' = Handled /\ Handled = sent - Len(outgoing) /\ Answered' = Answered
    BY <1>1, <2>2 DEF Handled, Answered
  <2>4. broker_up /\ socket = "open" => \A n \in DOMAIN outgoing' : outgoing'[n].number = Handled' + n
    <3>1. ASSUME broker_up, socket = "open", NEW n \in DOMAIN outgoing'
          PROVE  outgoing'[n].number = Handled' + n
      <4>1. CASE n \in DOMAIN outgoing /\ outgoing'[n] = outgoing[n]
        BY <2>3, <3>1, <4>1 DEF OrderInv
      <4>2. CASE n = Len(outgoing) + 1 /\ outgoing'[n].number = sent + 1
        BY <1>1, <2>2, <2>3, <4>2
      <4> QED  BY <2>2, <3>1, <4>1, <4>2
    <3> QED  BY <3>1
  <2> QED  BY <1>1, <1>3, <2>3, <2>4 DEF OrderInv
<1>5. CASE ~broker_up
  BY <1>1, <1>3, <1>5 DEF OrderInv
<1> QED  BY <1>4, <1>5

LEMMA OrderByTake ==
  ASSUME TypesOK, LockInv, OrderInv, NEW t \in Callers, TakeAnswer(t)
  PROVE  /\ OrderInv'
         /\ late = 0 => responses[1].number = sent /\ Len(responses) = 1
<1>1. /\ Taken' = Taken + 1 /\ Taken = sent - late - 1 /\ Taken \in Int
      /\ sent \in Nat /\ late \in Nat
  BY TakenByEnd, TakenFacts DEF LockInv
<1>2. UNCHANGED <<sent, incoming, replying, outgoing, reader_runs, connected, broker_up, socket>>
  BY DEF TakeAnswer, brokerVars
<1>3. /\ Len(responses) \in Nat \ {0} /\ responses' = Tail(responses)
      /\ Len(responses') = Len(responses) - 1 /\ 1 \in DOMAIN responses
      /\ \A n \in DOMAIN responses' :
           n + 1 \in DOMAIN responses /\ n \in Int /\ responses'[n] = responses[n + 1]
  BY TailType DEF TakeAnswer, TypesOK, QueueTypeOK
<1>4. Read' = Read /\ Read \in Int /\ Answers' = Answers /\ Handled' = Handled /\ Answered' = Answered
  BY <1>1, <1>2, <1>3 DEF Read, Answers, Handled, Answered
<1>5. \A n \in DOMAIN responses' : responses'[n].number = Taken' + n
  BY <1>1, <1>3 DEF OrderInv
<1>6. OrderInv'
  BY <1>2, <1>4, <1>5 DEF OrderInv
<1>7. late = 0 => responses[1].number = sent /\ Len(responses) = 1
  <2>1. responses[1].number = Taken + 1
    BY <1>3 DEF OrderInv
  <2>2. Taken + Len(responses) <= sent
    BY <1>1, <1>3, <1>4 DEF OrderInv, Read
  <2> QED  BY <1>1, <1>3, <2>1, <2>2
<1> QED  BY <1>6, <1>7

LEMMA OrderByRead ==
  ASSUME TypesOK, LockInv, OrderInv, ReadLine
  PROVE  OrderInv'
<1> DEFINE line == Head(incoming)
<1>1. /\ line \in Lines /\ line = incoming[1] /\ incoming \in Seq(Lines) /\ incoming # <<>>
      /\ incoming' = Tail(incoming) /\ 1 \in DOMAIN incoming
      /\ responses \in Seq(Lines) /\ Len(responses) \in Nat
  BY TailType, LenProperties DEF ReadLine, TypesOK, QueueTypeOK
<1>2. /\ UNCHANGED <<sent, late, pc, replying, outgoing, broker_up, socket, connected>>
      /\ reader_runs' = connected
  BY DEF ReadLine, callVars, brokerVars
<1>3. Taken' = Taken /\ Taken \in Int /\ Handled' = Handled /\ Answered' = Answered
  BY <1>2, TakenFacts DEF Taken, Waiting, Handled, Answered, LockInv
<1>4. Answers' = {i \in DOMAIN Tail(incoming) : i + 1 \in Answers} /\ Answers \subseteq DOMAIN incoming
  BY <1>1, PlacesOfTail DEF Answers
<1>5. PICK hi \in Int :
        /\ Read <= hi /\ hi <= sent /\ CarryInOrder(incoming, Answers, Read + 1, hi)
        /\ broker_up /\ socket = "open" => hi = Answered
  BY DEF OrderInv
<1>6. Read \in Int /\ Read = Taken + Len(responses)
  BY <1>1, <1>3 DEF Read
<1>7. /\ 1 \in Answers => /\ incoming[1].number = Read + 1 /\ Read + 1 <= hi
                          /\ CarryInOrder(incoming', Answers', Read + 2, hi)
      /\ 1 \notin Answers => CarryInOrder(incoming', Answers', Read + 1, hi)
  <2>1. Read + 1 \in Int /\ Read + 1 + 1 = Read + 2
    BY <1>6
  <2> HIDE DEF line
  <2> QED  BY <1>1, <1>4, <1>5, <2>1, CarryTail
<1>8. CASE 1 \in Answers
  <2>1. responses' = Append(responses, line)
    BY <1>1, <1>8 DEF Answers, ReadLine
  <2>2. /\ Len(responses') = Len(responses) + 1 /\ DOMAIN responses = 1 .. Len(responses)
        /\ \A n \in DOMAIN responses' :
             \/ n \in DOMAIN responses /\ responses'[n] = responses[n]
             \/ n = Len(responses) + 1 /\ responses'[n] = line
    BY <1>1, <2>1, AppendType
  <2>3. Read' = Read + 1
    BY <1>1, <1>3, <1>6, <2>2 DEF Read
  <2>4. line.number = Taken + Len(responses) + 1
    BY <1>1, <1>3, <1>6, <1>7, <1>8
  <2>5. ASSUME NEW n \in DOMAIN responses' PROVE responses'[n].number = Taken' + n
    <3>1. CASE n \in DOMAIN responses /\ responses'[n] = responses[n]
      BY <1>3, <3>1 DEF OrderInv
    <3>2. CASE n = Len(responses) + 1 /\ responses'[n] = line
      BY <1>1, <1>3, <2>4, <3>2
    <3> QED  BY <2>2, <3>1, <3>2
  <2>6. Read' <= hi /\ CarryInOrder(incoming', Answers', Read' + 1, hi)
    BY <1>6, <1>7, <1>8, <2>3
  <2>7. /\ hi <= sent'
        /\ broker_up' /\ socket' = "open" => hi = Answered'
        /\ broker_up' /\ socket' = "open" =>
             /\ reader_runs' /\ connected'
             /\ replying' # None => replying'.number = Handled'
             /\ \A n \in DOMAIN outgoing' : outgoing'[n].number = Handled' + n
    BY <1>2, <1>3, <1>5 DEF OrderInv
  <2> QED  BY <2>5, <2>6, <2>7 DEF OrderInv
<1>9. CASE 1 \notin Answers
  <2>1. responses' = responses
    BY <1>1, <1>9 DEF Answers, ReadLine
  <2>2. Read' = Read
    BY <1>3, <2>1 DEF Read
  <2>3. \A n \in DOMAIN responses' : responses'[n].number = Taken' + n
    BY <1>3, <2>1 DEF OrderInv
  <2>4. /\ Read' <= hi /\ CarryInOrder(incoming', Answers', Read' + 1, hi)
        /\ hi <= sent'
        /\ broker_up' /\ socket' = "open" => hi = Answered'
    BY <1>2, <1>3, <1>5, <1>7, <1>9, <2>2
  <2>5. broker_up' /\ socket' = "open" =>
             /\ reader_runs' /\ connected'
             /\ replying' # None => replying'.number = Handled'
             /\ \A n \in DOMAIN outgoing' : outgoing'[n].number = Handled' + n
    BY <1>2, <1>3 DEF OrderInv
  <2> QED  BY <2>3, <2>4, <2>5 DEF OrderInv
<1> QED  BY <1>8, <1>9

LEMMA OrderByClient ==
  ASSUME TypesOK, LockInv, OrderInv, ReaderStops \/ Shutdown \/ Forget
  PROVE  OrderInv'
<1>1. Taken' = Taken /\ Taken \in Int /\ sent \in Nat
  BY TakenFacts DEF ReaderStops, Shutdown, Forget, callVars, Taken, Waiting, LockInv
<1>2. CASE ReaderStops
  <2>1. /\ incoming' = <<>> /\ ~(broker_up' /\ socket' = "open")
        /\ UNCHANGED <<responses, sent>>
    BY <1>2 DEF ReaderStops, brokerVars
  <2>2. Read' = Read /\ Read \in Int /\ Answers' = {}
    BY <1>1, <2>1, LenProperties DEF Read, Answers, TypesOK, QueueTypeOK
  <2>3. CarryInOrder(incoming', Answers', Read' + 1, Read)
    BY <2>2 DEF CarryInOrder
  <2>4. Read <= sent'
    BY <1>1, <2>1, <2>2 DEF OrderInv
  <2> QED  BY <1>1, <2>1, <2>2, <2>3, <2>4 DEF OrderInv
<1>3. CASE Shutdown \/ Forget
  BY <1>1, <1>3, OrderFrame DEF Shutdown, Forget, brokerVars
<1> QED  BY <1>2, <1>3

LEMMA OrderByHandle ==
  ASSUME TypesOK, LockInv, OrderInv, Handle
  PROVE  OrderInv'
<1>1. /\ Taken' = Taken /\ sent \in Nat
      /\ UNCHANGED <<sent, responses, incoming, reader_runs, connected, broker_up, socket>>
  BY TakenFacts DEF Handle, callVars, clientVars, Taken, Waiting, LockInv
<1>2. /\ outgoing \in Seq(Requests) /\ outgoing # <<>> /\ outgoing' = Tail(outgoing)
      /\ replying = None /\ replying' = Head(outgoing) /\ broker_up
  BY DEF Handle, TypesOK, QueueTypeOK
<1>3. /\ Head(outgoing) \in Requests /\ Head(outgoing) = outgoing[1] /\ 1 \in DOMAIN outgoing
      /\ Len(outgoing) \in Nat \ {0} /\ Len(outgoing') = Len(outgoing) - 1
      /\ \A n \in DOMAIN outgoing' :
           n + 1 \in DOMAIN outgoing /\ n \in Int /\ outgoing'[n] = outgoing[n + 1]
  BY <1>2, TailType
<1>4. replying' # None
  BY <1>2, <1>3, NoneAssumption
<1>5. Handled' = Handled + 1 /\ Handled \in Int
  BY <1>1, <1>3 DEF Handled
<1>6. Answered' = Answered
  BY <1>2, <1>4, <1>5 DEF Answered
<1>7. Read' = Read /\ Answers' = Answers
  BY <1>1 DEF Read, Answers
<1>8. ASSUME socket = "open"
      PROVE  /\ replying'.number = Handled'
             /\ \A n \in DOMAIN outgoing' : outgoing'[n].number = Handled' + n
  BY <1>2, <1>3, <1>5, <1>8 DEF OrderInv
<1> QED  BY <1>1, <1>6, <1>7, <1>8 DEF OrderInv

LEMMA OrderByReply ==
  ASSUME TypesOK, LockInv, OrderInv, Reply
  PROVE  OrderInv'
<1> DEFINE x == Response(replying)
<1>1. /\ Taken' = Taken /\ Taken \in Int
      /\ UNCHANGED <<sent, responses, outgoing, reader_runs, connected, broker_up, socket>>
      /\ replying' = None /\ replying # None /\ broker_up /\ replying \in Requests
      /\ incoming \in Seq(Lines) /\ Len(responses) \in Nat /\ Len(outgoing) \in Nat /\ sent \in Nat
  BY TakenFacts, LenProperties
     DEF Reply, callVars, clientVars, Taken, Waiting, LockInv, TypesOK, QueueTypeOK
<1>2. x \in Lines /\ x.type = "answer" /\ x.number = replying.number
  BY <1>1 DEF Response, Lines, Requests
<1>3. Read' = Read /\ Read \in Int /\ Handled' = Handled /\ Handled \in Int
      /\ Answered' = Handled /\ Answered = Handled - 1 /\ Handled <= sent
  BY <1>1 DEF Read, Handled, Answered
<1>4. CASE socket = "open"
  <2>1. incoming' = Append(incoming, x)
    BY <1>1, <1>4 DEF Reply, Write, OrderInv
  <2>2. /\ Read <= Answered /\ CarryInOrder(incoming, Answers, Read + 1, Answered)
        /\ x.number = Handled
    BY <1>1, <1>2, <1>4 DEF OrderInv
  <2>3. Answers' = Answers \cup {Len(incoming) + 1} /\ Answers \subseteq DOMAIN incoming
    BY <1>1, <1>2, <2>1, PlacesOfAppend DEF Answers
  <2>4. x.number = Answered + 1 /\ Answered \in Int /\ Read + 1 \in Int /\ Read + 1 <= Answered + 1
    BY <1>3, <2>2
  <2> HIDE DEF x
  <2>5. CarryInOrder(incoming', Answers', Read + 1, Answered + 1)
    BY <1>1, <1>2, <2>1, <2>2, <2>3, <2>4, CarryAppend
  <2>6. /\ Read' <= Answered' /\ CarryInOrder(incoming', Answers', Read' + 1, Answered')
        /\ Answered' <= sent' /\ Answered' \in Int
    BY <1>1, <1>3, <2>2, <2>5
  <2> QED  BY <1>1, <1>3, <2>6 DEF OrderInv
<1>5. CASE socket # "open"
  <2>1. incoming' = incoming
    BY <1>5 DEF Reply, Write
  <2>2. Answers' = Answers
    BY <2>1 DEF Answers
  <2> QED  BY <1>1, <1>3, <1>5, <2>1, <2>2 DEF OrderInv
<1> QED  BY <1>4, <1>5

LEMMA OrderByOthers ==
  ASSUME TypesOK, LockInv, OrderInv, NEW topic \in Topics, OtherPublishes(topic)
  PROVE  OrderInv'
<1> DEFINE x == Message(topic, published[topic] + 1)
<1>1. /\ Taken' = Taken /\ Taken \in Int
      /\ UNCHANGED <<sent, responses, outgoing, replying, reader_runs, connected, broker_up, socket>>
      /\ incoming \in Seq(Lines) /\ Len(responses) \in Nat
  BY TakenFacts, LenProperties
     DEF OtherPublishes, callVars, clientVars, Taken, Waiting, LockInv, TypesOK, QueueTypeOK
<1>2. CASE incoming' = incoming
  BY <1>1, <1>2, OrderFrame
<1>3. CASE incoming' = Append(incoming, x)
  <2>1. x \in Lines /\ x.type = "message"
    BY DEF Message, Lines, TypesOK, ClientTypeOK
  <2>2. Answers' = Answers /\ Answers \subseteq DOMAIN incoming
    BY <1>1, <1>3, <2>1, PlacesOfAppend DEF Answers
  <2>3. Read' = Read /\ Read \in Int /\ Handled' = Handled /\ Answered' = Answered
    BY <1>1 DEF Read, Handled, Answered
  <2>4. PICK hi \in Int :
          /\ Read <= hi /\ hi <= sent /\ CarryInOrder(incoming, Answers, Read + 1, hi)
          /\ broker_up /\ socket = "open" => hi = Answered
    BY DEF OrderInv
  <2> HIDE DEF x
  <2>5. CarryInOrder(incoming', Answers', Read' + 1, hi)
    <3>1. Read + 1 \in Int /\ Read + 1 <= hi + 1
      BY <2>3, <2>4
    <3> QED  BY <1>1, <1>3, <2>1, <2>2, <2>3, <2>4, <3>1, CarryAppend
  <2>6. /\ Read' <= hi /\ hi <= sent'
        /\ broker_up' /\ socket' = "open" => hi = Answered'
    BY <1>1, <2>3, <2>4
  <2>7. /\ \A n \in DOMAIN responses' : responses'[n].number = Taken' + n
        /\ broker_up' /\ socket' = "open" =>
             /\ reader_runs' /\ connected'
             /\ replying' # None => replying'.number = Handled'
             /\ \A n \in DOMAIN outgoing' : outgoing'[n].number = Handled' + n
    BY <1>1, <2>3 DEF OrderInv
  <2> QED  BY <2>5, <2>6, <2>7 DEF OrderInv
<1> QED  BY <1>2, <1>3 DEF OtherPublishes

LEMMA NextOrder ==
  ASSUME TypesOK, LockInv, OrderInv, [Next]_vars PROVE OrderInv'
<1>1. ASSUME NEW t \in Callers, Publish(t) \/ \E topic \in Topics : Subscribe(t, topic)
      PROVE  OrderInv'
  <2>1. PICK r : Call(t, r)
    BY <1>1 DEF Publish, Subscribe
  <2>2. \E place \in {"acquire", "idle"} : pc' = [pc EXCEPT ![t] = place]
    BY <2>1 DEF Call, Return
  <2>3. pc[t] = "idle" /\ UNCHANGED <<sent, late>>
    BY <2>1 DEF Call
  <2>4. Taken' = Taken
    BY <2>2, <2>3, TakenKept
  <2> QED  BY <2>1, <2>4, OrderFrame DEF Call, brokerVars
<1>2. ASSUME NEW t \in Callers, Acquire(t) \/ SendFails(t) PROVE OrderInv'
  <2>1. /\ \E place \in {"send", "idle"} : pc' = [pc EXCEPT ![t] = place]
        /\ pc[t] \in {"acquire", "send"} /\ UNCHANGED <<sent, late>>
    BY <1>2 DEF Acquire, SendFails, Return
  <2>2. Taken' = Taken
    BY <2>1, TakenKept
  <2> QED  BY <1>2, <2>2, OrderFrame DEF Acquire, SendFails, clientVars, brokerVars
<1>3. ASSUME NEW t \in Callers, TimeOut(t) PROVE OrderInv'
  <2>1. Taken' = Taken
    BY <1>3, TakenByEnd, TakenFacts DEF LockInv
  <2> QED  BY <1>3, <2>1, OrderFrame DEF TimeOut, clientVars, brokerVars
<1>4. CASE Remove \/ BrokerStops \/ UNCHANGED vars
  <2>1. Taken' = Taken
    BY <1>4 DEF Remove, BrokerStops, vars, callVars, Taken, Waiting
  <2>2. CASE Remove \/ UNCHANGED vars
    BY <2>1, <2>2, OrderFrame DEF Remove, vars, clientVars, brokerVars
  <2>3. CASE BrokerStops
    <3>1. ~broker_up' /\ UNCHANGED <<responses, incoming, sent>>
      BY <2>3 DEF BrokerStops, clientVars
    <3> QED  BY <2>1, <3>1 DEF OrderInv, Read, Answers
  <2> QED  BY <1>4, <2>2, <2>3
<1> QED  BY <1>1, <1>2, <1>3, <1>4, OrderBySend, OrderByTake, OrderByRead, OrderByClient,
            OrderByHandle, OrderByReply, OrderByOthers
         DEF Next, CallerStep, ClientStep, BrokerStep

LEMMA OrderIsEnough == TypesOK /\ LockInv /\ OrderInv => AnswersLagByTimeouts
<1> SUFFICES ASSUME TypesOK, LockInv, OrderInv, broker_up, socket = "open" PROVE AnswersLagByTimeouts
  BY DEF AnswersLagByTimeouts
<1> QED  BY DEF OrderInv, AnswersLagByTimeouts

--------------------------------------------------------------------------------
(* Before the first late answer. *)

Sound == TypesOK /\ LockInv /\ OrderInv

(* How much there can be under way. *)
LEMMA FewUnderWay ==
  ASSUME Sound, late = 0, socket = "open"
  PROVE  /\ broker_up /\ replying = None => Len(outgoing) <= 1
         /\ Waiting = {} => responses = <<>> /\ Answers = {} /\ outgoing = <<>> /\ replying = None
<1>1. /\ Taken \in Int /\ sent \in Nat /\ (Waiting = {} => Taken = sent)
      /\ Taken >= sent - 1
  <2>1. \A t \in Waiting : Taken = sent - 1
    BY TakenFacts DEF Sound, LockInv
  <2>2. Waiting = {} => Taken = sent
    BY TakenFacts DEF Sound, LockInv
  <2>3. Taken \in Int /\ sent \in Nat
    BY TakenFacts DEF Sound, LockInv
  <2>4. Waiting = {} \/ \E t : t \in Waiting
    OBVIOUS
  <2> QED  BY <2>1, <2>2, <2>3, <2>4
<1>2. PICK hi \in Int :
        /\ Read <= hi /\ hi <= sent /\ CarryInOrder(incoming, Answers, Read + 1, hi)
        /\ broker_up => hi = Answered
  BY DEF Sound, OrderInv
<1>3. Read = Taken + Len(responses) /\ Len(responses) \in Nat
      /\ Len(outgoing) \in Nat /\ Handled = sent - Len(outgoing)
      /\ (replying = None => Answered = Handled) /\ (replying # None => Answered = Handled - 1)
  BY LenProperties DEF Read, Handled, Answered, Sound, TypesOK, QueueTypeOK
<1>4. ASSUME broker_up, replying = None PROVE Len(outgoing) <= 1
  BY <1>1, <1>2, <1>3, <1>4
<1>5. ASSUME Waiting = {}
      PROVE  responses = <<>> /\ Answers = {} /\ outgoing = <<>> /\ replying = None
  <2>1. Taken = sent /\ hi = sent /\ Read = sent /\ Len(responses) = 0
    BY <1>1, <1>2, <1>3, <1>5
  <2>2. responses = <<>>
    BY <2>1, EmptySeq DEF Sound, TypesOK, QueueTypeOK
  <2>3. Answers = {}
    <3>1. {incoming[i].number : i \in Answers} = sent + 1 .. sent
      BY <1>2, <2>1 DEF CarryInOrder
    <3>2. sent + 1 .. sent = {}
      BY <1>1
    <3> QED  BY <3>1, <3>2
  <2>4. outgoing = <<>> /\ replying = None
    <3>1. CASE broker_up
      <4>1. Len(outgoing) = 0 /\ replying = None
        BY <1>1, <1>2, <1>3, <2>1, <3>1
      <4> QED  BY <4>1, EmptySeq DEF Sound, TypesOK, QueueTypeOK
    <3>2. CASE ~broker_up
      BY <3>2 DEF Sound, TypesOK, QueueTypeOK
    <3> QED  BY <3>1, <3>2
  <2> QED  BY <2>2, <2>3, <2>4
<1> QED  BY <1>4, <1>5

LEMMA OwnBySend ==
  ASSUME Sound, NEW t \in Callers, Send(t) PROVE OwnInv'
<1> SUFFICES ASSUME late = 0 PROVE AllIsFor(request[t])'
  <2>1. Waiting' = {t} /\ late' = late
    BY TakenBySend DEF Sound, LockInv, Send
  <2> QED  BY <2>1 DEF OwnInv
<1>1. responses = <<>> /\ Answers = {} /\ outgoing = <<>> /\ replying = None
  BY TakenBySend, FewUnderWay DEF Sound, LockInv, Send
<1>2. UNCHANGED <<responses, incoming, replying>> /\ Answers' = {}
  BY <1>1 DEF Send, clientVars, brokerVars, Answers
<1>3. \A n \in DOMAIN outgoing' : outgoing'[n] = request'[t]
  <2>1. outgoing' \in {<<>>, Append(<<>>, request'[t])}
    BY <1>1 DEF Send
  <2> QED  BY <2>1
<1> QED  BY <1>1, <1>2, <1>3 DEF AllIsFor

LEMMA AllIsForStep ==
  ASSUME TypesOK, TypesOK', NEW r, AllIsFor(r), ClientStep \/ BrokerStep \/ UNCHANGED vars
  PROVE  AllIsFor(r)'
<1>1. CASE ReadLine
  <2>1. /\ incoming' = Tail(incoming) /\ UNCHANGED <<outgoing, replying>>
        /\ Answers' = {i \in DOMAIN Tail(incoming) : i + 1 \in Answers}
    BY <1>1, PlacesOfTail DEF ReadLine, brokerVars, TypesOK, QueueTypeOK
  <2>2. /\ \A i \in DOMAIN Tail(incoming) : Tail(incoming)[i] = incoming[i + 1]
        /\ Head(incoming) = incoming[1] /\ 1 \in DOMAIN incoming /\ Head(incoming) \in Lines
    BY <1>1, TailType DEF ReadLine, TypesOK, QueueTypeOK
  <2>3. CASE responses' = responses
    BY <2>1, <2>2, <2>3 DEF AllIsFor
  <2>4. CASE Head(incoming).type = "answer" /\ responses' = Append(responses, Head(incoming))
    <3>1. Head(incoming).topic = r.topic
      BY <2>2, <2>4 DEF AllIsFor, Answers
    <3>2. \A n \in DOMAIN responses' :
            (n \in DOMAIN responses /\ responses'[n] = responses[n]) \/ responses'[n] = Head(incoming)
      BY <2>2, <2>4, AppendType DEF TypesOK, QueueTypeOK
    <3> QED  BY <2>1, <2>2, <3>1, <3>2 DEF AllIsFor
  <2> QED  BY <1>1, <2>3, <2>4 DEF ReadLine
<1>2. CASE ReaderStops
  <2>1. incoming' = <<>> /\ Answers' = {} /\ UNCHANGED <<responses, outgoing, replying>>
    BY <1>2 DEF ReaderStops, brokerVars, Answers
  <2> QED  BY <2>1 DEF AllIsFor
<1>3. CASE Handle
  <2>1. /\ UNCHANGED <<responses, incoming>> /\ Answers' = Answers
        /\ outgoing' = Tail(outgoing) /\ replying' = Head(outgoing)
    BY <1>3 DEF Handle, clientVars, Answers
  <2>2. /\ Head(outgoing) = outgoing[1] /\ 1 \in DOMAIN outgoing
        /\ \A n \in DOMAIN outgoing' : n + 1 \in DOMAIN outgoing /\ outgoing'[n] = outgoing[n + 1]
    BY <1>3, <2>1, TailType DEF Handle, TypesOK, QueueTypeOK
  <2> QED  BY <2>1, <2>2 DEF AllIsFor
<1>4. CASE Reply
  <2> DEFINE x == Response(replying)
  <2>1. /\ UNCHANGED <<responses, outgoing>> /\ replying' = None /\ replying # None
        /\ incoming' \in {incoming, Append(incoming, x)}
        /\ incoming \in Seq(Lines) /\ replying \in Requests
    BY <1>4 DEF Reply, Write, clientVars, TypesOK, QueueTypeOK
  <2>2. x \in Lines /\ x.type = "answer" /\ x.topic = r.topic
    BY <2>1 DEF Response, Lines, Requests, AllIsFor
  <2> HIDE DEF x
  <2>3. CASE incoming' = incoming
    BY <2>1, <2>3 DEF AllIsFor, Answers
  <2>4. CASE incoming' = Append(incoming, x)
    <3>1. \A i \in DOMAIN incoming' :
            (i \in DOMAIN incoming /\ incoming'[i] = incoming[i]) \/ incoming'[i] = x
      BY <2>1, <2>2, <2>4, AppendType
    <3>2. \A i \in Answers' : incoming'[i].topic = r.topic
      BY <2>2, <3>1 DEF AllIsFor, Answers
    <3> QED  BY <2>1, <3>2 DEF AllIsFor
  <2> QED  BY <2>1, <2>3, <2>4
<1>5. ASSUME NEW topic \in Topics, OtherPublishes(topic) PROVE AllIsFor(r)'
  <2> DEFINE x == Message(topic, published[topic] + 1)
  <2>1. /\ UNCHANGED <<responses, outgoing, replying>>
        /\ incoming' \in {incoming, Append(incoming, x)}
        /\ incoming \in Seq(Lines)
    BY <1>5 DEF OtherPublishes, clientVars, TypesOK, QueueTypeOK
  <2>2. x \in Lines /\ x.type = "message"
    BY DEF Message, Lines, TypesOK, ClientTypeOK
  <2> HIDE DEF x
  <2>3. CASE incoming' = incoming
    BY <2>1, <2>3 DEF AllIsFor, Answers
  <2>4. CASE incoming' = Append(incoming, x)
    <3>1. \A i \in DOMAIN incoming' :
            (i \in DOMAIN incoming /\ incoming'[i] = incoming[i]) \/ incoming'[i] = x
      BY <2>1, <2>2, <2>4, AppendType
    <3>2. \A i \in Answers' : incoming'[i].topic = r.topic
      BY <2>2, <3>1 DEF AllIsFor, Answers
    <3> QED  BY <2>1, <3>2 DEF AllIsFor
  <2> QED  BY <2>1, <2>3, <2>4
<1>6. CASE BrokerStops
  <2>1. outgoing' = <<>> /\ replying' = None /\ UNCHANGED <<responses, incoming>>
    BY <1>6 DEF BrokerStops, clientVars
  <2> QED  BY <2>1 DEF AllIsFor, Answers
<1>7. CASE Remove \/ Shutdown \/ Forget \/ UNCHANGED vars
  <2>1. UNCHANGED <<responses, incoming, outgoing, replying>>
    BY <1>7 DEF Remove, Shutdown, Forget, vars, clientVars, brokerVars
  <2> QED  BY <2>1 DEF AllIsFor, Answers
<1> QED  BY <1>1, <1>2, <1>3, <1>4, <1>5, <1>6, <1>7 DEF ClientStep, BrokerStep

LEMMA NextOwn ==
  ASSUME Sound, TypesOK', OwnInv, [Next]_vars PROVE OwnInv'
<1>1. ASSUME NEW t \in Callers, \/ Publish(t) \/ \E topic \in Topics : Subscribe(t, topic)
                                \/ Acquire(t) \/ SendFails(t)
      PROVE  OwnInv'
  <2>1. /\ UNCHANGED <<responses, incoming, outgoing, replying, late>>
        /\ \E place \in {"idle", "acquire", "send"} : pc' = [pc EXCEPT ![t] = place]
        /\ pc[t] # "wait" /\ \A u \in Callers \ {t} : request'[u] = request[u]
    BY <1>1 DEF Publish, Subscribe, Call, Acquire, SendFails, Return, brokerVars, clientVars, 
                Sound, TypesOK, CallTypeOK
  <2>2. Waiting' = Waiting /\ t \notin Waiting
    BY <2>1 DEF Waiting, Sound, TypesOK, CallTypeOK
  <2>3. \A u \in Waiting : request'[u] = request[u]
    BY <2>1, <2>2 DEF Waiting
  <2> QED  BY <2>1, <2>2, <2>3 DEF OwnInv, AllIsFor, Answers
<1>2. ASSUME NEW t \in Callers, TakeAnswer(t) \/ TimeOut(t) PROVE OwnInv'
  BY <1>2, TakenByEnd DEF OwnInv, Sound, LockInv
<1>3. CASE ClientStep \/ BrokerStep \/ UNCHANGED vars
  <2>1. UNCHANGED <<pc, request, late>>
    BY <1>3 DEF ClientStep, ReadLine, ReaderStops, Shutdown, Forget, BrokerStep, Handle, Reply,
                Remove, BrokerStops, OtherPublishes, vars, callVars
  <2> QED  BY <1>3, <2>1, AllIsForStep DEF OwnInv, Waiting, Sound
<1> QED  BY <1>1, <1>2, <1>3, OwnBySend DEF Next, CallerStep

(* Steps that touch none of the queues. *)
Quiet == UNCHANGED <<incoming, responses, outgoing, replying, dispatched, subscribed,
                     published, since, broker_up, connected, socket>>

LEMMA QuietSteps ==
  ASSUME NEW t \in Callers, \/ Publish(t) \/ \E topic \in Topics : Subscribe(t, topic)
                            \/ Acquire(t) \/ SendFails(t) \/ TimeOut(t)
  PROVE  Quiet
  BY DEF Publish, Subscribe, Call, Acquire, SendFails, TimeOut, Quiet, clientVars, brokerVars

LEMMA NextSubscribed ==
  ASSUME TypesOK, SubscribedInv, [Next]_vars PROVE SubscribedInv'
<1> SUFFICES ASSUME socket' = "open" PROVE SubscribedInv'
  BY DEF SubscribedInv
<1>1. CASE UNCHANGED <<responses, incoming, replying, subscribed, socket>>
  BY <1>1 DEF SubscribedInv, Answers
<1>2. ASSUME NEW t \in Callers, CallerStep(t) \/ Publish(t) \/ \E topic \in Topics : Subscribe(t, topic)
      PROVE  SubscribedInv'
  <2>1. CASE ~TakeAnswer(t) /\ ~Send(t)
    BY <1>1, <1>2, <2>1, QuietSteps DEF CallerStep, Quiet
  <2>2. CASE TakeAnswer(t)
    <3>1. /\ responses' = Tail(responses) /\ UNCHANGED <<incoming, replying, subscribed, socket>>
          /\ \A n \in DOMAIN Tail(responses) : 
               n + 1 \in DOMAIN responses /\ Tail(responses)[n] = responses[n + 1]
      BY <2>2, TailType DEF TakeAnswer, brokerVars, TypesOK, QueueTypeOK
    <3> QED  BY <3>1 DEF SubscribedInv, Answers
  <2>3. CASE Send(t)
    BY <1>1, <2>3 DEF Send, clientVars, brokerVars
  <2> QED  BY <2>1, <2>2, <2>3
<1>3. CASE ReadLine
  <2>1. /\ incoming' = Tail(incoming) /\ UNCHANGED <<replying, subscribed, socket>>
        /\ Answers' = {i \in DOMAIN Tail(incoming) : i + 1 \in Answers}
    BY <1>3, PlacesOfTail DEF ReadLine, brokerVars, TypesOK, QueueTypeOK
  <2>2. /\ \A i \in DOMAIN Tail(incoming) : Tail(incoming)[i] = incoming[i + 1]
        /\ Head(incoming) = incoming[1] /\ 1 \in DOMAIN incoming /\ Head(incoming) \in Lines
    BY <1>3, TailType DEF ReadLine, TypesOK, QueueTypeOK
  <2>3. CASE responses' = responses
    BY <2>1, <2>2, <2>3 DEF SubscribedInv
  <2>4. CASE Head(incoming).type = "answer" /\ responses' = Append(responses, Head(incoming))
    <3>1. socket = "open" => Head(incoming).topic \in subscribed \cup {None}
      BY <2>2, <2>4 DEF SubscribedInv, Answers
    <3>2. \A n \in DOMAIN responses' :
            (n \in DOMAIN responses /\ responses'[n] = responses[n]) \/ responses'[n] = Head(incoming)
      BY <2>2, <2>4, AppendType DEF TypesOK, QueueTypeOK
    <3> QED  BY <2>1, <2>2, <3>1, <3>2 DEF SubscribedInv
  <2> QED  BY <1>3, <2>3, <2>4 DEF ReadLine
<1>4. CASE ReaderStops
  <2>1. incoming' = <<>> /\ Answers' = {} /\ UNCHANGED <<responses, replying, subscribed, socket>>
    BY <1>4 DEF ReaderStops, brokerVars, Answers
  <2> QED  BY <2>1 DEF SubscribedInv
<1>5. CASE Handle
  <2>1. /\ UNCHANGED <<responses, incoming, socket>> /\ Answers' = Answers
        /\ replying' = Head(outgoing) /\ subscribed \subseteq subscribed'
        /\ Head(outgoing).type = "subscribe" => Head(outgoing).topic \in subscribed'
    BY <1>5 DEF Handle, clientVars, Answers
  <2>2. WellFormed(Head(outgoing))
    BY <1>5, TailType DEF Handle, TypesOK, QueueTypeOK
  <2>3. replying'.topic \in subscribed' \cup {None}
    BY <2>1, <2>2 DEF WellFormed
  <2> QED  BY <2>1, <2>3 DEF SubscribedInv
<1>6. CASE Reply
  <2> DEFINE x == Response(replying)
  <2>1. /\ UNCHANGED <<responses, subscribed, socket>> /\ replying' = None /\ replying # None
        /\ incoming' \in {incoming, Append(incoming, x)}
        /\ incoming \in Seq(Lines) /\ replying \in Requests
    BY <1>6 DEF Reply, Write, clientVars, TypesOK, QueueTypeOK
  <2>2. x \in Lines /\ x.type = "answer" /\ x.topic = replying.topic
    BY <2>1 DEF Response, Lines, Requests
  <2> HIDE DEF x
  <2>3. CASE incoming' = incoming
    BY <2>1, <2>3 DEF SubscribedInv, Answers
  <2>4. CASE incoming' = Append(incoming, x)
    <3>1. \A i \in DOMAIN incoming' :
            (i \in DOMAIN incoming /\ incoming'[i] = incoming[i]) \/ incoming'[i] = x
      BY <2>1, <2>2, <2>4, AppendType
    <3>2. \A i \in Answers' : incoming'[i].topic \in subscribed' \cup {None}
      BY <2>1, <2>2, <3>1 DEF SubscribedInv, Answers
    <3> QED  BY <2>1, <3>2 DEF SubscribedInv
  <2> QED  BY <2>1, <2>3, <2>4
<1>7. ASSUME NEW topic \in Topics, OtherPublishes(topic) PROVE SubscribedInv'
  <2> DEFINE x == Message(topic, published[topic] + 1)
  <2>1. /\ UNCHANGED <<responses, replying, subscribed, socket>>
        /\ incoming' \in {incoming, Append(incoming, x)} /\ incoming \in Seq(Lines)
    BY <1>7 DEF OtherPublishes, clientVars, TypesOK, QueueTypeOK
  <2>2. x \in Lines /\ x.type = "message"
    BY DEF Message, Lines, TypesOK, ClientTypeOK
  <2> HIDE DEF x
  <2>3. CASE incoming' = Append(incoming, x)
    <3>1. \A i \in DOMAIN incoming' :
            (i \in DOMAIN incoming /\ incoming'[i] = incoming[i]) \/ incoming'[i] = x
      BY <2>1, <2>2, <2>3, AppendType
    <3>2. \A i \in Answers' : incoming'[i].topic \in subscribed' \cup {None}
      BY <2>1, <2>2, <3>1 DEF SubscribedInv, Answers
    <3> QED  BY <2>1, <3>2 DEF SubscribedInv
  <2> QED  BY <1>1, <2>1, <2>3
<1>8. CASE BrokerStops
  <2>1. replying' = None /\ UNCHANGED <<responses, incoming, subscribed, socket>>
    BY <1>8 DEF BrokerStops, clientVars
  <2> QED  BY <2>1 DEF SubscribedInv, Answers
<1>9. CASE Remove \/ Shutdown \/ Forget \/ UNCHANGED vars
  BY <1>1, <1>9 DEF Remove, Shutdown, Forget, vars, clientVars, brokerVars
<1> QED  BY <1>2, <1>3, <1>4, <1>5, <1>6, <1>7, <1>8, <1>9 DEF Next, ClientStep, BrokerStep

LEMMA NextSilent ==
  ASSUME TypesOK, SilentInv, [Next]_vars PROVE SilentInv'
<1> SUFFICES ASSUME socket' = "open" PROVE SilentInv'
  BY DEF SilentInv
<1>1. CASE UNCHANGED <<incoming, dispatched, subscribed, socket>>
  BY <1>1 DEF SilentInv, InFlight
<1>2. ASSUME NEW t \in Callers, CallerStep(t) \/ Publish(t) \/ \E topic \in Topics : Subscribe(t, topic)
      PROVE  SilentInv'
  <2>1. CASE ~TakeAnswer(t) /\ ~Send(t)
    BY <1>1, <1>2, <2>1, QuietSteps DEF CallerStep, Quiet
  <2>2. CASE TakeAnswer(t) \/ Send(t)
    BY <1>1, <2>2 DEF TakeAnswer, Send, clientVars, brokerVars
  <2> QED  BY <2>1, <2>2
<1>3. CASE ReadLine
  <2> DEFINE line == Head(incoming)
  <2>1. /\ UNCHANGED <<subscribed, socket>> /\ socket = "open"
        /\ \A topic : InFlight(topic)' = {i \in DOMAIN Tail(incoming) : i + 1 \in InFlight(topic)}
    BY <1>3, PlacesOfTail DEF ReadLine, brokerVars, TypesOK, QueueTypeOK
  <2>2. line = incoming[1] /\ 1 \in DOMAIN incoming
    BY <1>3, TailType DEF ReadLine, TypesOK, QueueTypeOK
  <2>3. line.type = "message" => 1 \in InFlight(line.topic)
    BY <2>2 DEF InFlight
  <2>4. ASSUME NEW topic \in Topics \ subscribed PROVE dispatched'[topic] = dispatched[topic]
    <3>1. CASE UNCHANGED dispatched
      BY <3>1
    <3>2. CASE line.type = "message" /\ Dispatch(line)
      <4>1. line.topic # topic
        BY <2>1, <2>3, <2>4, <3>2 DEF SilentInv
      <4> QED  BY <3>2, <4>1 DEF Dispatch, TypesOK, ClientTypeOK
    <3> QED  BY <1>3, <3>1, <3>2 DEF ReadLine
  <2> QED  BY <2>1, <2>4 DEF SilentInv
<1>4. CASE ReaderStops
  <2>1. incoming' = <<>> /\ UNCHANGED <<dispatched, subscribed, socket>>
    BY <1>4 DEF ReaderStops, brokerVars
  <2> QED  BY <2>1 DEF SilentInv, InFlight
<1>5. CASE Handle
  <2>1. UNCHANGED <<incoming, dispatched, socket>> /\ subscribed \subseteq subscribed'
    BY <1>5 DEF Handle, clientVars
  <2> QED  BY <2>1 DEF SilentInv, InFlight
<1>6. CASE Reply
  <2> DEFINE x == Response(replying)
  <2>1. /\ UNCHANGED <<dispatched, subscribed, socket>>
        /\ incoming' \in {incoming, Append(incoming, x)}
        /\ incoming \in Seq(Lines) /\ replying \in Requests
    BY <1>6 DEF Reply, Write, clientVars, TypesOK, QueueTypeOK
  <2>2. x \in Lines /\ x.type = "answer"
    BY <2>1 DEF Response, Lines, Requests
  <2> HIDE DEF x
  <2>3. CASE incoming' = Append(incoming, x)
    <3>1. \A topic : InFlight(topic)' = InFlight(topic)
      BY <2>1, <2>2, <2>3, PlacesOfAppend
    <3> QED  BY <2>1, <3>1 DEF SilentInv
  <2> QED  BY <1>1, <2>1, <2>3
<1>7. ASSUME NEW topic \in Topics, OtherPublishes(topic) PROVE SilentInv'
  <2> DEFINE x == Message(topic, published[topic] + 1)
  <2>1. /\ UNCHANGED <<dispatched, subscribed, socket>>
        /\ \/ incoming' = incoming
           \/ topic \in subscribed /\ incoming' = Append(incoming, x)
        /\ incoming \in Seq(Lines)
    BY <1>7 DEF OtherPublishes, clientVars, TypesOK, QueueTypeOK
  <2>2. x \in Lines /\ x.type = "message" /\ x.topic = topic
    BY DEF Message, Lines, TypesOK, ClientTypeOK
  <2> HIDE DEF x
  <2>3. CASE topic \in subscribed /\ incoming' = Append(incoming, x)
    <3>1. \A other : other # topic => InFlight(other)' = InFlight(other)
      BY <2>1, <2>2, <2>3, PlacesOfAppend
    <3> QED  BY <2>1, <2>3, <3>1 DEF SilentInv
  <2> QED  BY <1>1, <2>1, <2>3
<1>8. CASE Remove \/ BrokerStops \/ Shutdown \/ Forget \/ UNCHANGED vars
  BY <1>1, <1>8 DEF Remove, BrokerStops, Shutdown, Forget, vars, clientVars, brokerVars
<1> QED  BY <1>2, <1>3, <1>4, <1>5, <1>6, <1>7, <1>8 DEF Next, ClientStep, BrokerStep

LEMMA NextAsking ==
  ASSUME Sound, OwnInv, AskingInv, [Next]_vars PROVE AskingInv'
<1> SUFFICES ASSUME late' = 0, socket' = "open" PROVE AskingInv'
  BY DEF AskingInv
<1> USE DEF AskingInv, Asking
<1>1. ASSUME NEW t \in Callers, Publish(t) PROVE AskingInv'
  <2>1. /\ UNCHANGED <<late, socket, callbacks, subscribed, outgoing>>
        /\ request'[t].type # "subscribe"
        /\ \A u \in Callers \ {t} : request'[u] = request[u] /\ pc'[u] = pc[u]
    BY <1>1 DEF Publish, Call, Return, Request, brokerVars, Sound, TypesOK, CallTypeOK
  <2> QED  BY <2>1
<1>2. ASSUME NEW t \in Callers, NEW topic \in Topics, Subscribe(t, topic) PROVE AskingInv'
  <2>1. /\ UNCHANGED <<late, socket, subscribed, outgoing>>
        /\ topic \notin callbacks /\ callbacks' = callbacks \cup {topic}
        /\ request'[t].topic = topic
        /\ \A u \in Callers \ {t} : request'[u] = request[u] /\ pc'[u] = pc[u]
    BY <1>2 DEF Subscribe, Call, Return, Request, brokerVars, Sound, TypesOK, CallTypeOK
  <2>2. \A u \in Callers \ {t} : Asking(u)' => Asking(u) /\ request'[u].topic # topic
    BY <2>1
  <2>3. Asking(t)' => topic \in callbacks' \ subscribed'
    BY <2>1
  <2> QED  BY <2>1, <2>2, <2>3
<1>3. ASSUME NEW t \in Callers, Acquire(t) \/ SendFails(t) PROVE AskingInv'
  <2>1. /\ UNCHANGED <<late, socket, callbacks, subscribed, outgoing, request>>
        /\ \A u \in Callers : Asking(u)' => Asking(u)
    BY <1>3 DEF Acquire, SendFails, Return, clientVars, brokerVars, Sound, TypesOK, CallTypeOK
  <2> QED  BY <2>1
<1>4. ASSUME NEW t \in Callers, Send(t) PROVE AskingInv'
  <2>1. /\ UNCHANGED <<late, socket, callbacks, subscribed>> /\ pc[t] = "send"
        /\ request' = [request EXCEPT ![t].number = sent + 1] /\ pc' = [pc EXCEPT ![t] = "wait"]
        /\ outgoing' \in {outgoing, Append(outgoing, request'[t])}
        /\ request'[t] \in Requests /\ outgoing \in Seq(Requests)
    <3>1. request' = [request EXCEPT ![t].number = sent + 1] /\ sent \in Nat
          /\ request \in [Callers -> Requests]
      BY <1>4 DEF Send, Sound, TypesOK, CallTypeOK
    <3>2. request'[t] \in Requests
      BY <3>1 DEF Requests
    <3> QED  BY <1>4, <3>1, <3>2 DEF Send, clientVars, brokerVars, Sound, TypesOK, QueueTypeOK
  <2>2. /\ \A u \in Callers : request'[u].type = request[u].type /\ request'[u].topic = request[u].topic
        /\ \A u \in Callers : Asking(u)' => Asking(u) /\ u # t
    BY <2>1 DEF Sound, TypesOK, CallTypeOK, Requests
  <2>3. \A n \in DOMAIN outgoing' :
          (n \in DOMAIN outgoing /\ outgoing'[n] = outgoing[n]) \/ outgoing'[n] = request'[t]
    <3>1. CASE outgoing' = Append(outgoing, request'[t])
      BY <2>1, <3>1, AppendType
    <3> QED  BY <2>1, <3>1
  <2>4. ASSUME NEW n \in DOMAIN outgoing', outgoing'[n].type = "subscribe"
        PROVE  /\ outgoing'[n].topic \in callbacks' \ subscribed'
               /\ \A u \in Callers : Asking(u)' => request'[u].topic # outgoing'[n].topic
    <3>1. CASE n \in DOMAIN outgoing /\ outgoing'[n] = outgoing[n]
      BY <2>1, <2>2, <2>4, <3>1
    <3>2. CASE outgoing'[n] = request'[t]
      BY <2>1, <2>2, <2>4, <3>2
    <3> QED  BY <2>3, <3>1, <3>2
  <2> QED  BY <2>1, <2>2, <2>4
<1>5. ASSUME NEW t \in Callers, TakeAnswer(t) PROVE AskingInv'
  <2>1. /\ UNCHANGED <<late, socket, subscribed, outgoing, request>> /\ pc[t] = "wait"
        /\ responses # <<>>
        /\ callbacks' = IF request[t].type = "subscribe" /\ Head(responses).topic = None
                        THEN callbacks \ {request[t].topic} ELSE callbacks
        /\ \A u \in Callers : Asking(u)' => Asking(u)
    BY <1>5 DEF TakeAnswer, Return, brokerVars, Sound, TypesOK, CallTypeOK
  <2>2. 1 \in DOMAIN responses /\ Head(responses) = responses[1]
    BY <2>1, TailType DEF Sound, TypesOK, QueueTypeOK
  <2>3. Head(responses).topic = request[t].topic
    BY <2>1, <2>2 DEF OwnInv, Waiting, AllIsFor
  <2>4. callbacks' = callbacks
    BY <2>1, <2>3 DEF Sound, TypesOK, CallTypeOK, WellFormed
  <2> QED  BY <2>1, <2>4
<1>6. ASSUME NEW t \in Callers, TimeOut(t) PROVE AskingInv'
  <2>1. late \in Nat /\ late' = late + 1
    BY <1>6 DEF TimeOut, Sound, TypesOK, CallTypeOK
  <2> QED  BY <2>1
<1>7. CASE Handle
  <2> DEFINE r == Head(outgoing)
  <2>1. /\ UNCHANGED <<late, socket, callbacks, request, pc>> /\ broker_up /\ replying = None
        /\ outgoing # <<>> /\ outgoing' = Tail(outgoing)
        /\ subscribed' = IF r.type = "subscribe" THEN subscribed \cup {r.topic} ELSE subscribed
    BY <1>7 DEF Handle, clientVars, callVars
  <2>2. /\ r = outgoing[1] /\ 1 \in DOMAIN outgoing
        /\ Len(outgoing) \in Nat \ {0} /\ DOMAIN outgoing' = 1 .. Len(outgoing) - 1
    BY <2>1, TailType DEF Sound, TypesOK, QueueTypeOK
  <2>3. DOMAIN outgoing' = {}
    <3>1. Len(outgoing) <= 1
      BY <2>1, FewUnderWay
    <3> QED  BY <2>2, <3>1
  <2>4. subscribed' \subseteq callbacks' /\ \A u \in Callers : Asking(u)' =>
          request'[u].topic \in callbacks' \ subscribed'
    BY <2>1, <2>2
  <2> QED  BY <2>1, <2>3, <2>4
<1>8. CASE BrokerStops
  <2>1. UNCHANGED <<late, socket, callbacks, subscribed, request, pc>> /\ outgoing' = <<>>
    BY <1>8 DEF BrokerStops, clientVars, callVars
  <2> QED  BY <2>1
<1>9. CASE \/ ClientStep \/ Reply \/ Remove \/ UNCHANGED vars
           \/ \E topic \in Topics : OtherPublishes(topic)
  <2>1. UNCHANGED <<late, socket, callbacks, subscribed, outgoing, request, pc>>
    BY <1>9 DEF ClientStep, ReadLine, ReaderStops, Shutdown, Forget, Reply, Remove,
                OtherPublishes, vars, clientVars, callVars, brokerVars
  <2> QED  BY <2>1
<1> QED  BY <1>1, <1>2, <1>3, <1>4, <1>5, <1>6, <1>7, <1>8, <1>9 DEF Next, CallerStep, BrokerStep

LEMMA NextOwnAnswer ==
  ASSUME Sound, OwnInv, SubscribedInv, AskingInv, OwnAnswer, [Next]_vars PROVE OwnAnswer'
<1> SUFFICES ASSUME late' = 0, NEW u \in Callers, (answer'[u] # None /\ answer'[u].outcome = "ok")
             PROVE  /\ answer'[u].number = request'[u].number
                    /\ request'[u].type = "subscribe" /\ socket' = "open" =>
                         request'[u].topic \in subscribed' \cap callbacks'
  BY DEF OwnAnswer
<1>1. ASSUME late = 0, answer'[u] = answer[u], request'[u] = request[u],
             socket' = "open" =>
               /\ socket = "open" /\ subscribed \subseteq subscribed'
               /\ callbacks \subseteq callbacks'
      PROVE  /\ answer'[u].number = request'[u].number
             /\ request'[u].type = "subscribe" /\ socket' = "open" =>
                  request'[u].topic \in subscribed' \cap callbacks'
  BY <1>1 DEF OwnAnswer
<1> USE DEF Sound, TypesOK, CallTypeOK
<1>2. ASSUME NEW t \in Callers, Publish(t) \/ \E topic \in Topics : Subscribe(t, topic)
      PROVE  /\ answer'[u].number = request'[u].number
             /\ request'[u].type = "subscribe" /\ socket' = "open" =>
                  request'[u].topic \in subscribed' \cap callbacks'
  <2>1. u # t
    <3>1. answer'[t] = None \/ answer'[t].outcome = "disconnected"
      BY <1>2 DEF Publish, Subscribe, Call, Return
    <3> QED  BY <3>1
  <2> QED  BY <1>1, <1>2, <2>1 DEF Publish, Subscribe, Call, Return, brokerVars
<1>3. ASSUME NEW t \in Callers, Acquire(t) \/ Send(t) \/ SendFails(t)
      PROVE  /\ answer'[u].number = request'[u].number
             /\ request'[u].type = "subscribe" /\ socket' = "open" =>
                  request'[u].topic \in subscribed' \cap callbacks'
  <2>1. Acquire(t) \/ u # t
    <3>1. CASE Send(t)
      <4>1. answer'[t] = None
        BY <3>1 DEF Send
      <4> QED  BY <4>1
    <3>2. CASE SendFails(t)
      <4>1. answer'[t].outcome \in {"crashed", "failed"}
        BY <3>2 DEF SendFails, Return
      <4> QED  BY <4>1
    <3> QED  BY <1>3, <3>1, <3>2
  <2> QED  BY <1>1, <1>3, <2>1 DEF Acquire, Send, SendFails, Return, clientVars, brokerVars
<1>4. ASSUME NEW t \in Callers, TakeAnswer(t)
      PROVE  /\ answer'[u].number = request'[u].number
             /\ request'[u].type = "subscribe" /\ socket' = "open" =>
                  request'[u].topic \in subscribed' \cap callbacks'
  <2> DEFINE got == Head(responses)
  <2>1. /\ UNCHANGED <<late, socket, subscribed, request>> /\ pc[t] = "wait"
        /\ callbacks' = IF request[t].type = "subscribe" /\ got.topic = None
                        THEN callbacks \ {request[t].topic} ELSE callbacks
        /\ \A v \in Callers \ {t} : answer'[v] = answer[v]
        /\ answer'[t].number = got.number
    BY <1>4 DEF TakeAnswer, Return, brokerVars
  <2>2. 1 \in DOMAIN responses /\ got = responses[1]
    BY <1>4, TailType DEF TakeAnswer, QueueTypeOK
  <2>3. got.topic = request[t].topic
    BY <2>1, <2>2 DEF OwnInv, Waiting, AllIsFor
  <2>4. callbacks' = callbacks
    BY <2>1, <2>3 DEF WellFormed
  <2>5. CASE u # t
    BY <1>1, <2>1, <2>4, <2>5
  <2>6. CASE u = t
    <3>1. got.number = sent
      BY <1>4, <2>1, <2>2, OrderByTake
    <3>2. request[t].number = sent
      BY <2>1 DEF LockInv
    <3>3. ASSUME request[t].type = "subscribe", socket = "open"
          PROVE  request[t].topic \in subscribed \cap callbacks
      BY <2>1, <2>2, <2>3, <3>3 DEF SubscribedInv, AskingInv, WellFormed
    <3> QED  BY <2>1, <2>4, <2>6, <3>1, <3>2, <3>3
  <2> QED  BY <2>5, <2>6
<1>5. ASSUME NEW t \in Callers, TimeOut(t) PROVE FALSE
  <2>1. late \in Nat /\ late' = late + 1
    BY <1>5 DEF TimeOut
  <2> QED  BY <2>1
<1>6. CASE ClientStep \/ BrokerStep \/ UNCHANGED vars
  <2>1. UNCHANGED <<late, answer, request, callbacks>>
    BY <1>6 DEF ClientStep, ReadLine, ReaderStops, Shutdown, Forget, BrokerStep, Handle, Reply,
                Remove, BrokerStops, OtherPublishes, vars, clientVars, callVars
  <2>2. socket' = "open" => socket = "open" /\ subscribed \subseteq subscribed'
    BY <1>6 DEF ClientStep, ReadLine, ReaderStops, Shutdown, Forget, BrokerStep, Handle, Reply,
                Remove, BrokerStops, OtherPublishes, vars, clientVars, brokerVars
  <2> QED  BY <1>1, <2>1, <2>2
<1> QED  BY <1>2, <1>3, <1>4, <1>5, <1>6 DEF Next, CallerStep

(* What NothingMissed says of one topic. *)
Complete(topic) ==
  LET got == since[topic] + Len(dispatched[topic])
  IN  /\ \A n \in DOMAIN dispatched[topic] : dispatched[topic][n] = since[topic] + n
      /\ got <= published[topic]
      /\ CarryInOrder(incoming, InFlight(topic), got + 1, published[topic])

LEMMA CompleteTypes ==
  ASSUME TypesOK, NEW topic \in Topics
  PROVE  /\ dispatched[topic] \in Seq(Nat) /\ Len(dispatched[topic]) \in Nat
         /\ since[topic] \in Nat /\ published[topic] \in Nat
         /\ incoming \in Seq(Lines) /\ InFlight(topic) \subseteq DOMAIN incoming
  BY LenProperties DEF TypesOK, ClientTypeOK, QueueTypeOK, InFlight

LEMMA MissByRead ==
  ASSUME Sound, NEW topic \in subscribed, topic \in callbacks, Complete(topic), ReadLine
  PROVE  Complete(topic)'
<1> DEFINE line == Head(incoming)
           d == dispatched[topic]
           got == since[topic] + Len(d)
<1>1. /\ line \in Lines /\ line = incoming[1] /\ 1 \in DOMAIN incoming
      /\ incoming' = Tail(incoming) /\ incoming \in Seq(Lines) /\ incoming # <<>>
      /\ UNCHANGED <<since, published>>
  BY TailType DEF ReadLine, brokerVars, Sound, TypesOK, QueueTypeOK
<1>2. topic \in Topics /\ InFlight(topic)' = {i \in DOMAIN Tail(incoming) : i + 1 \in InFlight(topic)}
  BY <1>1, PlacesOfTail DEF Sound, TypesOK, ClientTypeOK
<1>3. /\ d \in Seq(Nat) /\ Len(d) \in Nat /\ got \in Int /\ published[topic] \in Int
      /\ InFlight(topic) \subseteq DOMAIN incoming
      /\ \A n \in DOMAIN d : d[n] = since[topic] + n
      /\ got <= published[topic]
      /\ CarryInOrder(incoming, InFlight(topic), got + 1, published[topic])
  BY <1>2, CompleteTypes DEF Complete, Sound
<1>4. /\ 1 \in InFlight(topic) =>
           /\ line.number = got + 1 /\ got + 1 <= published[topic]
           /\ CarryInOrder(incoming', InFlight(topic)', got + 2, published[topic])
      /\ 1 \notin InFlight(topic) => CarryInOrder(incoming', InFlight(topic)', got + 1, published[topic])
  <2>1. got + 1 \in Int /\ got + 1 + 1 = got + 2
    BY <1>3
  <2> DEFINE I == InFlight(topic)
             J == {i \in DOMAIN Tail(incoming) : i + 1 \in I}
  <2>2. I \subseteq DOMAIN incoming /\ CarryInOrder(incoming, I, got + 1, published[topic])
    BY <1>3
  <2>3. InFlight(topic)' = J
    BY <1>2
  <2> HIDE DEF got, line, I
  <2>4. /\ 1 \in I => /\ incoming[1].number = got + 1 /\ got + 1 <= published[topic]
                      /\ CarryInOrder(Tail(incoming), J, got + 2, published[topic])
        /\ 1 \notin I => CarryInOrder(Tail(incoming), J, got + 1, published[topic])
    BY <1>1, <1>3, <2>1, <2>2, CarryTail
  <2> HIDE DEF J
  <2> QED  BY <1>1, <2>3, <2>4 DEF I
<1>5. CASE 1 \in InFlight(topic)
  <2>1. line.type = "message" /\ line.topic = topic
    BY <1>1, <1>5 DEF InFlight
  <2>2. dispatched'[topic] = Append(d, line.number)
    <3>1. dispatched \in [Topics -> Seq(Nat)]
      BY DEF Sound, TypesOK, ClientTypeOK
    <3> QED  BY <1>2, <2>1, <3>1 DEF ReadLine, Dispatch
  <2>3. line.number \in Nat
    BY <1>1 DEF Lines
  <2> HIDE DEF d, line
  <2>4. /\ Len(dispatched'[topic]) = Len(d) + 1
        /\ \A n \in DOMAIN dispatched'[topic] :
             \/ n \in DOMAIN d /\ dispatched'[topic][n] = d[n]
             \/ n = Len(d) + 1 /\ dispatched'[topic][n] = line.number
    BY <1>3, <2>2, <2>3, AppendType
  <2>5. since[topic] \in Nat
    BY <1>2, CompleteTypes DEF Sound
  <2>6. \A n \in DOMAIN dispatched'[topic] : dispatched'[topic][n] = since'[topic] + n
    <3>1. ASSUME NEW n \in DOMAIN dispatched'[topic] PROVE dispatched'[topic][n] = since[topic] + n
      <4>1. CASE n \in DOMAIN d /\ dispatched'[topic][n] = d[n]
        BY <1>3, <4>1
      <4>2. CASE n = Len(d) + 1 /\ dispatched'[topic][n] = line.number
        BY <1>3, <1>4, <1>5, <2>5, <4>2
      <4> QED  BY <2>4, <3>1, <4>1, <4>2
    <3> QED  BY <1>1, <3>1
  <2>7. since'[topic] + Len(dispatched'[topic]) = got + 1 /\ got + 1 + 1 = got + 2
    BY <1>1, <1>3, <2>4, <2>5
  <2> HIDE DEF got
  <2> QED  BY <1>1, <1>4, <1>5, <2>6, <2>7 DEF Complete
<1>6. CASE 1 \notin InFlight(topic)
  <2>1. line.type = "message" => line.topic # topic
    BY <1>1, <1>6 DEF InFlight
  <2>2. dispatched'[topic] = d
    BY <2>1 DEF ReadLine, Dispatch, Sound, TypesOK, ClientTypeOK
  <2> HIDE DEF line
  <2> QED  BY <1>1, <1>3, <1>4, <1>6, <2>2 DEF Complete
<1> QED  BY <1>5, <1>6

LEMMA MissByHandle ==
  ASSUME Sound, AskingInv, SilentInv, late = 0, socket = "open", Handle,
         \A topic \in subscribed : Complete(topic)
  PROVE  \A topic \in subscribed' : Complete(topic)'
<1> DEFINE r == Head(outgoing)
<1>1. /\ r = outgoing[1] /\ 1 \in DOMAIN outgoing /\ r \in Requests /\ WellFormed(r)
      /\ UNCHANGED <<incoming, dispatched, published>>
  BY TailType DEF Handle, clientVars, Sound, TypesOK, QueueTypeOK
<1>2. ASSUME NEW topic \in subscribed, r.type # "subscribe" \/ r.topic # topic
      PROVE  Complete(topic)'
  <2>1. since'[topic] = since[topic]
    BY <1>2 DEF Handle, Sound, TypesOK, ClientTypeOK
  <2> QED  BY <1>1, <2>1 DEF Complete, InFlight
<1>3. CASE r.type # "subscribe"
  BY <1>2, <1>3 DEF Handle
<1>4. CASE r.type = "subscribe"
  <2>1. PICK topic \in Topics \ subscribed : topic = r.topic
    BY <1>1, <1>4 DEF AskingInv, Requests, WellFormed
  <2>2. subscribed' = subscribed \cup {topic} /\ since'[topic] = published[topic]
    BY <1>4, <2>1 DEF Handle, Sound, TypesOK, ClientTypeOK
  <2>3. dispatched[topic] = <<>> /\ InFlight(topic) = {}
    BY <2>1 DEF SilentInv
  <2>4. published[topic] \in Nat
    BY <2>1 DEF Sound, TypesOK, ClientTypeOK
  <2>5. Complete(topic)'
    <3>1. InFlight(topic)' = {} /\ dispatched'[topic] = <<>> /\ since'[topic] = published'[topic]
      BY <1>1, <2>2, <2>3 DEF InFlight
    <3>2. CarryInOrder(incoming', InFlight(topic)', published'[topic] + 1, published'[topic])
      BY <1>1, <2>4, <3>1 DEF CarryInOrder
    <3>3. since'[topic] + Len(dispatched'[topic]) = published'[topic]
      BY <1>1, <2>4, <3>1
    <3> QED  BY <1>1, <2>4, <3>1, <3>2, <3>3 DEF Complete
  <2> QED  BY <1>2, <2>1, <2>2, <2>5
<1> QED  BY <1>3, <1>4

LEMMA MissByReply ==
  ASSUME Sound, NEW topic \in subscribed, Complete(topic), Reply PROVE Complete(topic)'
<1> DEFINE x == Response(replying)
<1>1. /\ UNCHANGED <<dispatched, published, since>> /\ topic \in Topics
      /\ incoming' \in {incoming, Append(incoming, x)}
      /\ incoming \in Seq(Lines) /\ replying \in Requests
  BY DEF Reply, Write, clientVars, Sound, TypesOK, ClientTypeOK, QueueTypeOK
<1>2. x \in Lines /\ x.type = "answer"
  BY <1>1 DEF Response, Lines, Requests
<1> HIDE DEF x
<1>3. CASE incoming' = incoming
  BY <1>1, <1>3 DEF Complete, InFlight
<1>4. CASE incoming' = Append(incoming, x)
  <2> DEFINE got == since[topic] + Len(dispatched[topic])
  <2>1. /\ InFlight(topic)' = InFlight(topic) /\ InFlight(topic) \subseteq DOMAIN incoming
        /\ got \in Int /\ published[topic] \in Int /\ got <= published[topic]
        /\ CarryInOrder(incoming, InFlight(topic), got + 1, published[topic])
    BY <1>1, <1>2, <1>4, PlacesOfAppend, CompleteTypes DEF Sound, Complete
  <2>2. got + 1 \in Int /\ got + 1 <= published[topic] + 1
    BY <2>1
  <2>3. CarryInOrder(incoming', InFlight(topic)', got + 1, published[topic])
    <3> HIDE DEF got
    <3> QED  BY <1>1, <1>2, <1>4, <2>1, <2>2, CarryAppend
  <2> QED  BY <1>1, <2>3 DEF Complete
<1> QED  BY <1>1, <1>3, <1>4

LEMMA MissByOthers ==
  ASSUME Sound, NEW topic \in Topics, OtherPublishes(topic), NEW p \in subscribed, Complete(p)
  PROVE  Complete(p)'
<1> DEFINE x == Message(topic, published[topic] + 1)
           got == since[p] + Len(dispatched[p])
<1>1. /\ UNCHANGED <<dispatched, since>> /\ p \in Topics /\ incoming \in Seq(Lines)
      /\ published' = [published EXCEPT ![topic] = @ + 1] /\ published \in [Topics -> Nat]
      /\ incoming' = IF topic \in subscribed THEN Append(incoming, x) ELSE incoming
  BY DEF OtherPublishes, clientVars, Sound, TypesOK, ClientTypeOK, QueueTypeOK
<1>2. x \in Lines /\ x.type = "message" /\ x.topic = topic /\ x.number = published[topic] + 1
  BY <1>1 DEF Message, Lines
<1> HIDE DEF x
<1>3. CASE topic \notin subscribed
  <2>1. published'[p] = published[p] /\ incoming' = incoming
    BY <1>1, <1>3
  <2> QED  BY <1>1, <2>1 DEF Complete, InFlight
<1>4. CASE topic \in subscribed
  <2>1. /\ InFlight(topic)' = InFlight(topic) \cup {Len(incoming) + 1}
        /\ p # topic => InFlight(p)' = InFlight(p)
    BY <1>1, <1>2, <1>4, PlacesOfAppend
  <2>2. /\ got \in Int /\ published[p] \in Int /\ got <= published[p]
        /\ CarryInOrder(incoming, InFlight(p), got + 1, published[p])
        /\ InFlight(p) \subseteq DOMAIN incoming
    BY <1>1, CompleteTypes DEF Sound, Complete
  <2>3. got + 1 \in Int /\ got + 1 <= published[p] + 1
    BY <2>2
  <2>4. CarryInOrder(incoming', InFlight(p)', got + 1, published'[p])
    <3> HIDE DEF got
    <3>1. /\ CarryInOrder(incoming', InFlight(p), got + 1, published[p])
          /\ x.number = published[p] + 1 =>
               CarryInOrder(incoming', InFlight(p) \cup {Len(incoming) + 1}, got + 1, published[p] + 1)
      BY <1>1, <1>2, <1>4, <2>2, <2>3, CarryAppend
    <3> QED  BY <1>1, <1>2, <2>1, <3>1
  <2>5. published'[p] >= published[p]
    BY <1>1
  <2>6. published'[p] \in Int /\ got <= published'[p]
    BY <1>1, <2>2, <2>5
  <2> QED  BY <1>1, <2>4, <2>6 DEF Complete
<1> QED  BY <1>3, <1>4

LEMMA NextMissed ==
  ASSUME Sound, Sound', OwnInv, AskingInv, SilentInv, NothingMissed, [Next]_vars PROVE NothingMissed'
<1> SUFFICES ASSUME late' = 0, connected', socket' = "open"
             PROVE  \A topic \in subscribed' : Complete(topic)'
  BY DEF NothingMissed, Complete
<1>1. late = 0 /\ connected /\ socket = "open"
  <2>1. late \in Nat /\ late' \in {late, late + 1}
    BY DEF Next, Publish, Subscribe, Call, CallerStep, Acquire, Send, SendFails, TakeAnswer, TimeOut,
           ClientStep, ReadLine, ReaderStops, Shutdown, Forget, BrokerStep, Handle, Reply,
           Remove, BrokerStops, OtherPublishes, vars, callVars, Sound, TypesOK, CallTypeOK
  <2>2. /\ connected' => connected
        /\ socket' = "open" => socket = "open"
    BY DEF Next, Publish, Subscribe, Call, CallerStep, Acquire, Send, SendFails, TakeAnswer, TimeOut,
           ClientStep, ReadLine, ReaderStops, Shutdown, Forget, BrokerStep, Handle, Reply,
           Remove, BrokerStops, OtherPublishes, vars, clientVars
  <2> QED  BY <2>1, <2>2
<1>2. \A topic \in subscribed : Complete(topic)
  BY <1>1 DEF NothingMissed, Complete
<1>3. CASE UNCHANGED <<incoming, dispatched, subscribed, published, since>>
  BY <1>2, <1>3 DEF Complete, InFlight
<1>4. ASSUME NEW t \in Callers, CallerStep(t) \/ Publish(t) \/ \E topic \in Topics : Subscribe(t, topic)
      PROVE  \A topic \in subscribed' : Complete(topic)'
  <2>1. CASE ~TakeAnswer(t) /\ ~Send(t)
    BY <1>3, <1>4, <2>1, QuietSteps DEF CallerStep, Quiet
  <2>2. CASE TakeAnswer(t) \/ Send(t)
    BY <1>3, <2>2 DEF TakeAnswer, Send, clientVars, brokerVars
  <2> QED  BY <2>1, <2>2
<1>5. CASE ReadLine
  BY <1>1, <1>2, <1>5, MissByRead DEF AskingInv, ReadLine, brokerVars
<1>6. CASE Handle
  BY <1>1, <1>2, <1>6, MissByHandle
<1>7. CASE Reply
  BY <1>2, <1>7, MissByReply DEF Reply
<1>8. ASSUME NEW topic \in Topics, OtherPublishes(topic)
      PROVE  \A p \in subscribed' : Complete(p)'
  BY <1>2, <1>8, MissByOthers DEF OtherPublishes
<1>9. CASE ReaderStops
  BY <1>9 DEF ReaderStops
<1>10. CASE Remove \/ BrokerStops \/ Shutdown \/ Forget \/ UNCHANGED vars
  BY <1>1, <1>3, <1>10 DEF Remove, BrokerStops, Shutdown, Forget, vars, clientVars, brokerVars
<1> QED  BY <1>4, <1>5, <1>6, <1>7, <1>8, <1>9, <1>10 DEF Next, ClientStep, BrokerStep

--------------------------------------------------------------------------------
(* The invariant. *)

LEMMA InitInv == Init => TransportInv
<1> SUFFICES ASSUME Init PROVE TransportInv
  OBVIOUS
<1>1. TypesOK /\ LockHeldByRequest
  BY InitTypes, InitLock DEF LockHeldInv
<1> USE DEF Init
<1>2. LockInv
  BY <1>1 DEF LockInv
<1>3. Waiting = {} /\ Answers = {} /\ \A topic : InFlight(topic) = {}
  BY DEF Waiting, Answers, InFlight
<1>4. Taken = 0 /\ Read = 0 /\ Handled = 0 /\ Answered = 0
  <2>1. Taken = 0
    BY <1>1, <1>3, TakenFacts
  <2>2. sent = 0 /\ Len(responses) = 0 /\ Len(outgoing) = 0 /\ replying = None
    OBVIOUS
  <2> HIDE DEF Init
  <2> QED  BY <2>1, <2>2 DEF Read, Handled, Answered
<1>5. OrderInv
  <2>1. CarryInOrder(incoming, Answers, Read + 1, 0)
    BY <1>3, <1>4 DEF CarryInOrder
  <2> QED  BY <1>4, <2>1 DEF OrderInv
<1>6. OwnInv /\ SubscribedInv /\ SilentInv
  BY <1>3 DEF OwnInv, SubscribedInv, SilentInv
<1>7. AskingInv /\ OwnAnswer /\ NothingMissed
  BY DEF AskingInv, Asking, OwnAnswer, NothingMissed
<1> QED  BY <1>1, <1>2, <1>5, <1>6, <1>7 DEF TransportInv, TypesOK

LEMMA NextInv == TransportInv /\ [Next]_vars => TransportInv'
<1> SUFFICES ASSUME TransportInv, [Next]_vars PROVE TransportInv'
  OBVIOUS
<1> USE DEF TransportInv
<1>1. TypesOK /\ LockInv /\ OrderInv /\ LockHeldByRequest
  BY DEF TypesOK, LockInv
<1>2. Sound
  BY <1>1 DEF Sound
<1>3. TypesOK'
  <2>1. ASSUME NEW t \in Callers, Publish(t) PROVE TypesOK'
    <3>1. Request("publish", None) \in Requests /\ WellFormed(Request("publish", None))
      BY DEF Request, Requests, WellFormed
    <3> QED  BY <1>1, <2>1, <3>1, CallTypes DEF Publish, ClientTypeOK
  <2>2. ASSUME NEW t \in Callers, NEW topic \in Topics, Subscribe(t, topic) PROVE TypesOK'
    <3>1. Request("subscribe", topic) \in Requests /\ WellFormed(Request("subscribe", topic))
      BY NoneAssumption DEF Request, Requests, WellFormed
    <3>2. callbacks' \subseteq Topics
      BY <2>2 DEF Subscribe, ClientTypeOK
    <3> QED  BY <1>1, <2>2, <3>1, <3>2, CallTypes DEF Subscribe
  <2>3. CASE UNCHANGED vars
    BY <1>1, <2>3 DEF vars, clientVars, callVars, brokerVars, TypesOK, ClientTypeOK, CallTypeOK, QueueTypeOK
  <2> QED  BY <1>1, <2>1, <2>2, <2>3, CallerStepTypes, ClientStepTypes, BrokerStepTypes DEF Next
<1>4. LockInv'
  <2>1. LockHeldByRequest'
    BY <1>1, NextLock DEF LockHeldInv, CallTypeOK
  <2> QED  BY <1>1, <2>1, LastSentStep
<1>5. OrderInv'
  BY <1>1, NextOrder
<1>6. Sound'
  BY <1>3, <1>4, <1>5 DEF Sound
<1>7. OwnInv' /\ SubscribedInv' /\ AskingInv' /\ SilentInv'
  BY <1>1, <1>2, <1>3, NextOwn, NextSubscribed, NextAsking, NextSilent
<1>8. OwnAnswer' /\ NothingMissed'
  BY <1>2, <1>6, NextOwnAnswer, NextMissed
<1> QED  BY <1>3, <1>4, <1>5, <1>7, <1>8 DEF TypesOK

LEMMA Invariant == Spec => []TransportInv
<1> QED  BY InitInv, NextInv, PTL DEF Spec

(* However many threads publish and subscribe, and whether the broker or   *)
(* the client ends the connection, the lock of _request is held by the one *)
(* thread between sending and returning, and by nobody afterwards.         *)
THEOREM LockNeverLeaked == Spec => []LockHeldByRequest
<1>1. LockHeldInv => LockHeldByRequest
  BY DEF LockHeldInv
<1> QED  BY <1>1, InitLock, NextLock, PTL DEF Spec

(* Whatever is lost when a side stops, answers stay in the order of the    *)
(* requests, and the client is behind by exactly one per late answer: a    *)
(* time-out shifts all answers that follow.                                *)
THEOREM AnswersLag == Spec => []AnswersLagByTimeouts
<1>1. TransportInv => AnswersLagByTimeouts
  BY OrderIsEnough DEF TransportInv, TypesOK
<1> QED  BY <1>1, Invariant, PTL

(* Until the first time-out, whoever shares the connection, a request that *)
(* succeeds has got its own answer, and a subscription is then in force on *)
(* both sides.                                                             *)
THEOREM AnswersAreOwn == Spec => []OwnAnswer
<1>1. TransportInv => OwnAnswer
  BY DEF TransportInv
<1> QED  BY <1>1, Invariant, PTL

(* Until then too a callback is given all that is published after the      *)
(* subscription, once and in order.                                        *)
THEOREM NoMessageMissed == Spec => []NothingMissed
<1>1. TransportInv => NothingMissed
  BY DEF TransportInv
<1> QED  BY <1>1, Invariant, PTL

================================================================================
