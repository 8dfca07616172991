------------------------------ MODULE Scenario ------------------------------
(***************************************************************************)
(* The validator's guided exercise (scenario.py, run_sample_scenario) on   *)
(* the session of module Session: the same connection, handshake and pump, *)
(* and a script in the place of the trading runner.  The script sends six  *)
(* commands, numbered 1 to 6 in the order of the guide, each followed by a *)
(* wait for the snapshot that shows its effect, and asks for the final     *)
(* state.                                                                  *)
(*                                                                         *)
(* The validator is not part of src/src: it is modelled by its guide,      *)
(* validator/README.md.  It answers commands 1 to 5 with a result and a    *)
(* state, in either order; after the offer its planet P02 accepts and then *)
(* makes a gift, each with a push of its own; it refuses command 6 with a  *)
(* protocol error.  `strays' counts its departures from the guide: any     *)
(* step of Session's server, a gift taken back, an answer later than the   *)
(* script's 5 s.                                                           *)
(***************************************************************************)
EXTENDS Session

CONSTANT MaxStrays  \* bound: departures of the validator from its guide

ASSUME ScenarioAssumption == MaxCommands = 6 /\ MaxStrays \in Nat

VARIABLES
  acceptedAt,  \* world version in which P02 accepts our offer, 0 before
  giftedAt,    \* world version in which P02 offers its gift, 0 before
  takenAt,     \* world version in which P02 takes it back, 0 before
  strays       \* departures so far

peerVars     == <<acceptedAt, giftedAt, takenAt>>
exerciseVars == <<peerVars, strays>>
scriptVars   == <<vars, exerciseVars>>

Republish    == 2
OfferWater   == 3
AcceptGift   == 4
OverTheLimit == 6

ScriptInit ==
  /\ version = 2 /\ phase = "RUNNING" /\ failed = FALSE
  /\ seq = 1 /\ answered = {} /\ applied = [i \in Requests |-> 0]
  /\ toServer = <<>> /\ open = TRUE /\ toClient = <<State(Snapshot(1))>>
  /\ world = NoWorld /\ pump = "off" /\ pumpError = "none"
  /\ pending = {} /\ future = [i \in Requests |-> Unset] /\ updated = FALSE
  /\ pc = "AwaitState" /\ cur = 0 /\ outcome = NoOutcome /\ baseSeq = 0
  /\ reason = "none"
  /\ acceptedAt = 0 /\ giftedAt = 0 /\ takenAt = 0 /\ strays = 0

-----------------------------------------------------------------------------
(* What the script reads in a snapshot.  A world version names one moment, *)
(* so it tells whether the snapshot has P02's moves.                       *)

Accepted(w) == acceptedAt \in 1..w.version
Gifted(w)   ==
  giftedAt \in 1..w.version /\ takenAt \notin 1..w.version /\ AcceptGift \notin w.records

(* The world version a command's effect has, if only the exercise advances *)
(* it; mutants: one too low, one too high.                                 *)
ShownEarly == <<3, 4, 5, 7, 9>>
ShownLate  == <<3, 4, 5, 8, 10>>
ShownFrom  == <<3, 4, 5, 8, 9>>

AwaitedAcceptance(w) ==  \* mutant: the acceptance alone
  IF cur = OfferWater THEN Accepted(w) ELSE w.version >= ShownFrom[cur]

(* The predicate the script waits for once command cur has its result.     *)
Awaited(w) ==
  IF cur = OfferWater THEN Accepted(w) /\ Gifted(w) ELSE w.version >= ShownFrom[cur]

-----------------------------------------------------------------------------
(* The script.                                                             *)

(* The session is open: the first command is due.                          *)
Begin ==
  /\ pc = "Loop"
  /\ cur' = 1 /\ Goto("SendTask")
  /\ UNCHANGED <<serverVars, linkVars, pumpVars, outcome, baseSeq, exerciseVars>>

(* The script resumes and calls session.send, with no deadline.  To accept *)
(* the gift it reads its id from the latest snapshot, which need not be    *)
(* the one that ended the wait.                                            *)
ScriptSend ==
  /\ \/ (cur = AcceptGift => Gifted(world)) /\ SendStart
     \/ SendFlushed
  /\ UNCHANGED exerciseVars

GiftIsGone ==
  /\ pc = "SendTask" /\ cur = AcceptGift /\ ~Gifted(world)
  /\ Stop("scenario")
  /\ UNCHANGED <<serverVars, linkVars, world, pump, pumpError, future, updated,
                 exerciseVars>>

(* Mutant: the result's ok is not looked at.                               *)
StepUnchecked ==
  /\ pc = "AwaitResult" /\ cur # OverTheLimit /\ future[cur].kind = "result"
  /\ pending' = Discard(pending, cur) /\ outcome' = future[cur]
  /\ Goto("WaitTask")
  /\ UNCHANGED <<serverVars, linkVars, world, pump, pumpError, future, updated,
                 cur, baseSeq, exerciseVars>>

(* A successful result: wait for the snapshot, in a task of its own.       *)
StepAnswered ==
  /\ pc = "AwaitResult" /\ cur # OverTheLimit
  /\ future[cur].kind = "result" /\ applied[cur] # 0
  /\ pending' = Discard(pending, cur) /\ outcome' = future[cur]
  /\ Goto("WaitTask")
  /\ UNCHANGED <<serverVars, linkVars, world, pump, pumpError, future, updated,
                 cur, baseSeq, exerciseVars>>

(* The result of the second advertisement and of the offer must name an    *)
(* object; a validator that strays may leave it out.                       *)
ObjectMissing ==
  /\ pc = "AwaitResult" /\ cur \in {Republish, OfferWater} /\ strays > 0
  /\ future[cur].kind = "result" /\ applied[cur] # 0
  /\ Stop("scenario")
  /\ UNCHANGED <<serverVars, linkVars, world, pump, pumpError, future, updated,
                 exerciseVars>>

(* A rejection, or a result for the command over the limit, is not what    *)
(* the guide says; an error for the others is, nor is the end of the pump. *)
StepFailed ==
  /\ pc = "AwaitResult"
  /\ \/ /\ future[cur].kind = "result" /\ (cur = OverTheLimit \/ applied[cur] = 0)
        /\ Stop("scenario")
     \/ future[cur] = Rejected /\ cur # OverTheLimit /\ Stop("protocol error")
     \/ future[cur] = Disconnected /\ Stop("pump")
  /\ UNCHANGED <<serverVars, linkVars, world, pump, pumpError, future, updated,
                 exerciseVars>>

WaitForSnapshot ==
  /\ \/ pc = "WaitTask"
     \/ pc = "WaitSleep" /\ updated
  /\ WaitPass(Awaited(world), "WaitSleep", "SendTask")
  /\ cur' = IF pc' = "SendTask" THEN cur + 1 ELSE cur
  /\ UNCHANGED <<serverVars, linkVars, world, pump, pumpError, pending, future,
                 outcome, baseSeq, exerciseVars>>

(* The refusal of the last command is as intended: sync at once.           *)
LimitConfirmed ==
  /\ pc = "AwaitResult" /\ cur = OverTheLimit /\ future[cur] = Rejected
  /\ \/ /\ open
        /\ pending' = Discard(pending, cur)
        /\ baseSeq' = world.seq /\ toServer' = Append(toServer, Sync)
        /\ Goto("SyncCheck")
        /\ UNCHANGED <<cur, outcome>>
     \/ ~open /\ Stop("connection") /\ UNCHANGED toServer
  /\ UNCHANGED <<serverVars, toClient, open, world, pump, pumpError, future, updated,
                 exerciseVars>>

(* A validator that strays may refuse it with another code.                *)
LimitDenied ==
  /\ pc = "AwaitResult" /\ cur = OverTheLimit /\ future[cur] = Rejected /\ strays > 0
  /\ Stop("scenario")
  /\ UNCHANGED <<serverVars, linkVars, world, pump, pumpError, future, updated,
                 exerciseVars>>

FinalSync == SyncWait /\ UNCHANGED exerciseVars

Complete ==
  /\ pc = "Synced"
  /\ Stop("completed")
  /\ UNCHANGED <<serverVars, linkVars, world, pump, pumpError, future, updated,
                 exerciseVars>>

Script ==
  \/ Begin \/ ScriptSend \/ GiftIsGone \/ StepAnswered \/ ObjectMissing
  \/ StepFailed \/ WaitForSnapshot \/ LimitConfirmed \/ LimitDenied \/ FinalSync \/ Complete

-----------------------------------------------------------------------------
(* The validator, by its guide.                                            *)

Confirm ==
  /\ ServerReady /\ toClient'[Len(toClient')].ready
  /\ UNCHANGED exerciseVars

Takeable(i) == i = AcceptGift => takenAt = 0

Obey ==
  /\ ServerApply /\ Head(toServer).id # OverTheLimit /\ Takeable(Head(toServer).id)
  /\ UNCHANGED exerciseVars

Push ==
  /\ CanSend(1) /\ version < MaxVersion /\ seq < MaxSeq
  /\ version' = version + 1 /\ seq' = seq + 1
  /\ toClient' = Append(toClient, State([Snapshot(seq + 1) EXCEPT !.version = version + 1]))
  /\ UNCHANGED <<phase, failed, answered, applied, toServer, open, pumpVars, runnerVars>>

PeerAccepts ==
  /\ applied[OfferWater] # 0 /\ acceptedAt = 0
  /\ Push /\ acceptedAt' = version + 1
  /\ UNCHANGED <<giftedAt, takenAt, strays>>

PeerGives ==
  /\ acceptedAt # 0 /\ giftedAt = 0
  /\ Push /\ giftedAt' = version + 1
  /\ UNCHANGED <<acceptedAt, takenAt, strays>>

RefuseOverTheLimit ==
  /\ ServerRefuse /\ Head(toServer).id = OverTheLimit
  /\ toClient' = Append(toClient, ProtocolError(OverTheLimit, FALSE))
  /\ UNCHANGED exerciseVars

(* The gift it accepts has been taken back meanwhile.                      *)
RefuseTaken ==
  /\ ServerRefuse /\ ~Takeable(Head(toServer).id)
  /\ toClient'[Len(toClient')].kind = "result"
  /\ UNCHANGED exerciseVars

AnswerSync == ServerSync /\ UNCHANGED exerciseVars

Guide ==
  \/ Confirm \/ Obey \/ PeerAccepts \/ PeerGives
  \/ RefuseOverTheLimit \/ RefuseTaken \/ AnswerSync

PeerTakesBack ==
  /\ giftedAt # 0 /\ takenAt = 0 /\ applied[AcceptGift] = 0
  /\ Push /\ takenAt' = version + 1
  /\ UNCHANGED <<acceptedAt, giftedAt>>

Stray ==
  /\ strays < MaxStrays /\ strays' = strays + 1
  /\ \/ Server /\ UNCHANGED peerVars
     \/ PeerTakesBack

-----------------------------------------------------------------------------
(* The session's own steps, timers and the keyboard.                       *)

ScriptHandshake == Handshake /\ UNCHANGED exerciseVars
ScriptPump      == Pump /\ UNCHANGED exerciseVars

(* Nothing is on its way to the script, and it has seen all there is.      *)
NothingDue ==
  /\ toServer = <<>> /\ toClient = <<>> /\ pc \in {"WaitSleep", "SyncSleep"} /\ ~updated
  /\ applied[OfferWater] # 0 => giftedAt # 0

(* Mutant: the final sync has no deadline.                                 *)
DeadlineOfWaits ==
  /\ pc \in {"WaitTask", "WaitSleep"}
  /\ Stop("timeout")
  /\ strays' = IF NothingDue THEN strays ELSE strays + 1
  /\ UNCHANGED <<serverVars, linkVars, world, pump, pumpError, future, updated,
                 peerVars>>

(* wait_for and sync give up after 5 s.  If something was still due, the   *)
(* validator has been slow, which the guide does not provide for.          *)
Deadline ==
  /\ pc \in {"WaitTask", "WaitSleep", "SyncCheck", "SyncSleep"}
  /\ Stop("timeout")
  /\ strays' = IF NothingDue THEN strays ELSE strays + 1
  /\ UNCHANGED <<serverVars, linkVars, world, pump, pumpError, future, updated,
                 peerVars>>

ScriptInterrupt ==
  /\ \/ Interrupt
     \/ /\ pc \in {"WaitTask", "WaitSleep"}
        /\ Stop("interrupted")
        /\ UNCHANGED <<serverVars, linkVars, world, pump, pumpError, future, updated>>
  /\ UNCHANGED exerciseVars

ScriptShutdown == Shutdown /\ UNCHANGED exerciseVars

ScriptTerminated == pc = "Stopped" /\ UNCHANGED scriptVars

ScriptNext ==
  \/ Guide \/ Stray \/ ScriptHandshake \/ ScriptPump \/ Script
  \/ Deadline \/ ScriptInterrupt \/ ScriptShutdown \/ ScriptTerminated

(* The event loop runs every ready task and fires every due timer.  The    *)
(* validator goes on as long as it has followed its guide; once it has     *)
(* strayed nothing is assumed of it.                                       *)
ScriptFairness ==
  /\ WF_scriptVars(ScriptHandshake) /\ WF_scriptVars(ScriptPump)
  /\ WF_scriptVars(Script) /\ WF_scriptVars(Deadline) /\ WF_scriptVars(ScriptShutdown)
  /\ WF_scriptVars(strays = 0 /\ Guide)

ScriptSpec     == ScriptInit /\ [][ScriptNext]_scriptVars
FairScriptSpec == ScriptSpec /\ ScriptFairness
=============================================================================
