----------------------------- MODULE SimulatorLink -----------------------------
(***************************************************************************)
(* The simulator's two threads and the backend's manager implement         *)
(* SensorLink: taking a number is sending on the link, although the        *)
(* message leaves only later, and publishing it is its delivery.  A thread *)
(* held up in between makes the link overtake, a failing publish may make  *)
(* it lose.  History variables remember what the link is given.            *)
(***************************************************************************)
EXTENDS RPSimulator

VARIABLES
  log,          \* the payloads numbered on each topic; the n-th has number n
  arrived       \* the numbers published, per topic

linkVars == <<log, arrived>>

LInit ==
  /\ Init
  /\ log = [topic \in Topics |-> <<>>]
  /\ arrived = [topic \in Topics |-> {}]

NumberedStep(t) ==
  LET m == Head(round[t]) IN
  /\ TakeNumber(t)
  /\ log' = [log EXCEPT ![m.topic] = Append(@, m.payload)]
  /\ UNCHANGED arrived

PublishedStep(t) ==
  LET m == Head(round[t]) IN
  /\ Publish(t) \/ PublishTimesOut(t)
  /\ arrived' = [arrived EXCEPT ![m.topic] = @ \cup {number[t]}]
  /\ UNCHANGED log

LNext ==
  \/ \E t \in Publishers : NumberedStep(t) \/ PublishedStep(t)
  \/ /\ \/ Command \/ SetBoth \/ SetLux \/ Tick
        \/ \E t \in Publishers : Collect(t) \/ PublishFails(t)
     /\ UNCHANGED linkVars

LSpec == LInit /\ [][LNext]_<<vars, linkVars>>

--------------------------------------------------------------------------------
(* What _publish_all_sensors sends. *)
Messages ==
  [topic : {"temperature"}, payload : [temperature : Temperatures]]
  \cup [topic : {"light"}, payload : [lux : LuxLevels]]
  \cup [topic : {"parking"}, payload : [position : Positions, on_occupy : BOOLEAN]]

(* The most that so many rounds can number. *)
RoundSize   == 2 + ParkingSize
MaxMessages == (MaxCommands + MaxRounds) * RoundSize

Link ==
  INSTANCE SensorLink
    WITH Inputs <- Messages, Delivery <- [topic \in Topics |-> "any"],
         MaxSent <- [topic \in Topics |-> MaxMessages],
         sent <- log, delivered <- arrived

(* However the two threads mix, they are a link that loses and overtakes:  *)
(* what SensorLink promises of the readings holds for the simulator.       *)
ImplementsSensorLink == Link!Spec

(* In particular the backend shows the temperature and the light of the    *)
(* newest message that got through, whichever thread sent it and however   *)
(* late the older ones come.                                               *)
NewestIsShown ==
  \A topic \in {"temperature", "light"} : \A n \in arrived[topic] :
    (\A k \in arrived[topic] : k <= n) =>
      Link!Reading(topic) = Link!ReadingIn(topic, log[topic][n])

================================================================================
