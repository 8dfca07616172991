------------------------- MODULE ScenarioProperties -------------------------
(***************************************************************************)
(* What the scripted exercise promises; see Scenario.                      *)
(***************************************************************************)
EXTENDS Scenario

Exercise == 1..(OverTheLimit - 1)  \* the commands that leave a record

(* validator/README.md: "Do not send the next command until you have       *)
(* handled all responses listed for the current step".  While a command or *)
(* the final sync is on its way to a validator that keeps to its guide,    *)
(* none of its messages is unread and P02 has made its two moves.          *)
HandledBeforeSending ==
  strays = 0 /\ (\E k \in DOMAIN toServer : toServer[k].kind # "ready") =>
    /\ toClient = <<>>
    /\ cur >= AcceptGift => giftedAt \in 1..world.version

(* Against a validator that keeps to its guide the script never fails: no  *)
(* wait misses its snapshot, none is left too early, no object is missing. *)
NoSpuriousFailure ==
  strays = 0 => reason \in {"none", "completed", "interrupted"}

(* Whatever one stray push, error or delay there was, an exercise reported *)
(* as completed ends with a snapshot of all five commands and both of P02's*)
(* moves, although the sync takes any newer snapshot for its answer.       *)
CompletedIsComplete ==
  reason = "completed" => Exercise \subseteq world.records /\ Accepted(world)

(* The script ends, or waits for ever for the answer to a message it sent: *)
(* the handshake and session.send have no deadline.                        *)
EndsOrAwaits ==
  <>[](pc \in {"Stopped", "AwaitState", "AwaitReadiness", "AwaitResult"})

(* A validator that keeps to its guide brings the exercise to its end.     *)
CompletesExercise ==
  <>(reason \in {"completed", "interrupted"} \/ strays > 0)
=============================================================================
