----------------------------- MODULE MCCameraSensor -----------------------------
(* A small instance of CameraSensor. *)
EXTENDS CameraSensor

(* Two plates that differ in one character, a third one character from the *)
(* second, a longer one, one that is too short, one read too uncertainly.  *)
P == <<"A", "B", "1", "2">>
Q == [P EXCEPT ![4] = "1"]

MCOcrReadings ==
  {[plate |-> P, confidence |-> 30],
   [plate |-> Q, confidence |-> 95],
   [plate |-> [Q EXCEPT ![2] = "A"], confidence |-> 95],
   [plate |-> Append(P, "1"), confidence |-> 30],
   [plate |-> SubSeq(P, 2, 3), confidence |-> 95],
   [plate |-> P, confidence |-> 20]}

================================================================================
