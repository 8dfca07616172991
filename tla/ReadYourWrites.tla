---------------------------- MODULE ReadYourWrites ----------------------------
(***************************************************************************)
(* What the session promises to the policy that trades through it: a       *)
(* client that issues one command at a time and always sees the effects of *)
(* its earlier commands before it issues the next.  (session.py, reconcile;*)
(* ARCHITECTURE.md, "waits for an applied result before deciding again".)  *)
(*                                                                         *)
(* Commands are numbered in the order the client issues them.              *)
(***************************************************************************)
EXTENDS Integers

CONSTANT Commands   \* the numbers a command can have

VARIABLES
  issued,     \* commands the client has decided to send
  decided,    \* those the server has decided, applying or refusing them
  effective,  \* those with an effect on the shared world
  seen        \* those whose effect the client's snapshot reflects

avars == <<issued, decided, effective, seen>>

AInit == issued = {} /\ decided = {} /\ effective = {} /\ seen = {}

(* Nothing is outstanding and everything that had an effect has been seen. *)
Issue ==
  /\ issued \subseteq decided /\ effective \subseteq seen
  /\ \E c \in Commands \ issued : issued' = issued \cup {c}
  /\ UNCHANGED <<decided, effective, seen>>

(* The server applies or refuses an outstanding command, once.             *)
Apply ==
  /\ \E c \in issued \ decided :
       decided' = decided \cup {c} /\ effective' = effective \cup {c}
  /\ UNCHANGED <<issued, seen>>

Refuse ==
  /\ \E c \in issued \ decided : decided' = decided \cup {c}
  /\ UNCHANGED <<issued, effective, seen>>

(* A newer snapshot shows more of the effects, and never fewer.            *)
Observe ==
  /\ seen' \in SUBSET effective /\ seen \subseteq seen'
  /\ UNCHANGED <<issued, decided, effective>>

ANext == Issue \/ Apply \/ Refuse \/ Observe

ASpec == AInit /\ [][ANext]_avars
=============================================================================
