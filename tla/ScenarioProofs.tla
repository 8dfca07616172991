--------------------------- MODULE ScenarioProofs ---------------------------
(***************************************************************************)
(* Proofs about Scenario, for all values of its bounds.                    *)
(***************************************************************************)
EXTENDS ScenarioProperties, SessionSafetyProofs

-----------------------------------------------------------------------------
(* The inductive invariant behind CompletedIsComplete.                     *)

(* A step is left only once its command has taken effect.                  *)
StepsTookEffect ==
  /\ \A i \in 1..cur - 1 : applied[i] # 0
  /\ pc = "Loop" => cur = 0
  /\ pc \in {"WaitTask", "WaitSleep"} => cur \in Exercise /\ applied[cur] # 0

(* As long as the connection lasts, a snapshot read or under way shows     *)
(* every effect there is.                                                  *)
LatestShowsAll == open => \E s \in Held : s.run /\ Effective \subseteq s.records

(* The exercise is shown by the world or by a state among the first n      *)
(* unread messages.                                                        *)
ShownWithin(n) ==
  \/ Exercise \subseteq world.records
  \/ \E j \in DOMAIN toClient :
       /\ j <= n /\ toClient[j].kind = "state"
       /\ toClient[j].snap.run /\ Exercise \subseteq toClient[j].snap.records

IsRefusal(m) == m.kind = "protocol_error" /\ m.id = OverTheLimit

(* The refusal of the last command comes after a state that shows the      *)
(* whole exercise, and the connection keeps the order.                     *)
RefusalComesLast ==
  /\ \A k \in DOMAIN toClient : IsRefusal(toClient[k]) =>
       OverTheLimit \in answered /\ ShownWithin(k)
  /\ future[OverTheLimit] = Rejected =>
       OverTheLimit \in answered /\ Exercise \subseteq world.records

(* What the script has seen when it goes on.                               *)
ExerciseShown ==
  /\ cur > OfferWater => Accepted(world)
  /\ pc \in {"SyncCheck", "SyncSleep", "Synced"} \/ reason = "completed" =>
       cur = OverTheLimit /\ Exercise \subseteq world.records

ScriptInv ==
  /\ Coherent /\ StepsTookEffect /\ LatestShowsAll /\ RefusalComesLast /\ ExerciseShown

-----------------------------------------------------------------------------
(* The steps of the script's specification.                                *)

LEMMA Numbers ==
  /\ Requests = 1..6 /\ OfferWater = 3 /\ AcceptGift = 4 /\ OverTheLimit = 6
  /\ Exercise = 1..5 /\ MaxCommands = 6 /\ OverTheLimit \in Requests
BY ScenarioAssumption DEF Requests, OfferWater, AcceptGift, OverTheLimit, Exercise

(* Steps that are the session's own.                                       *)
SessionStep ==
  Handshake \/ Pump \/ SendStart \/ SendFlushed \/ SyncWait \/ Interrupt \/ Shutdown

(* Steps of the script alone.                                              *)
CancelWait ==
  /\ pc \in {"WaitTask", "WaitSleep"}
  /\ Stop("interrupted")
  /\ UNCHANGED <<serverVars, linkVars, world, pump, pumpError, future, updated>>

ScriptStep ==
  \/ Begin \/ GiftIsGone \/ StepAnswered \/ StepFailed \/ WaitForSnapshot
  \/ LimitConfirmed \/ LimitDenied \/ ObjectMissing \/ Complete \/ Deadline \/ CancelWait

(* Every step is one of the server, of its peer, of the session or of the  *)
(* script; only the peer's change what the peer has done.                  *)
LEMMA StepsOfScript ==
  ASSUME [ScriptNext]_scriptVars
  PROVE  /\ acceptedAt' = acceptedAt \/ acceptedAt = 0
         /\ \/ Server
            \/ Push
            \/ SessionStep /\ acceptedAt' = acceptedAt
            \/ ScriptStep /\ acceptedAt' = acceptedAt
            \/ UNCHANGED <<vars, acceptedAt>>
<1>1. CASE Guide
  BY <1>1 DEF Guide, Confirm, Obey, PeerAccepts, PeerGives, RefuseOverTheLimit, RefuseTaken,
     AnswerSync, Server, exerciseVars, peerVars
<1>2. CASE Stray
  BY <1>2 DEF Stray, PeerTakesBack, peerVars
<1>3. CASE Script
  BY <1>3 DEF Script, ScriptSend, FinalSync, SessionStep, ScriptStep, exerciseVars, peerVars,
     Begin, GiftIsGone, StepAnswered, StepFailed, WaitForSnapshot, LimitConfirmed, LimitDenied,
     ObjectMissing, Complete
<1>4. CASE ScriptHandshake \/ ScriptPump \/ ScriptShutdown \/ Deadline \/ ScriptInterrupt
  BY <1>4 DEF ScriptHandshake, ScriptPump, ScriptShutdown, ScriptInterrupt, Deadline, SessionStep,
     ScriptStep, CancelWait, exerciseVars, peerVars
<1>5. CASE ScriptTerminated \/ UNCHANGED scriptVars
  BY <1>5 DEF ScriptTerminated, scriptVars, exerciseVars, peerVars
<1> QED BY <1>1, <1>2, <1>3, <1>4, <1>5 DEF ScriptNext

-----------------------------------------------------------------------------
(* What the session keeps (Coherent) under the script's steps.             *)

(* No step of the session is the runner's receipt of a result.             *)
LEMMA NotTheRunner ==
  ASSUME Server \/ SessionStep
  PROVE  Next /\ ~(pc = "AwaitResult" /\ pc' \in {"Loop", "SyncTask"})
<1>1. Next
  BY DEF SessionStep, Next, Trade
<1>2. CASE Server \/ Pump
  BY <1>1, <1>2 DEF Server, ServerReady, ServerApply, ServerRefuse, ServerSync, ServerTick, ServerRepeat,
     ServerFault, ServerClose, Pump, PumpState, PumpResult, PumpProtocolError, PumpUndecodable,
     PumpClosed, runnerVars
<1>3. CASE Handshake \/ SendStart \/ SendFlushed \/ SyncWait \/ Interrupt \/ Shutdown
  BY <1>1, <1>3 DEF Handshake, HandshakeState, HandshakeReadiness, HandshakeClosed, SendStart,
     SendFlushed, SyncWait, WaitPass, Interrupt, Shutdown, Stop, Goto
<1> QED BY <1>2, <1>3 DEF SessionStep

(* A push of the peer is a state like those of the server.                 *)
LEMMA PushStep ==
  ASSUME Coherent, Push
  PROVE  /\ Coherent' /\ UNCHANGED <<answered, applied, world, open, future, runnerVars>>
         /\ \E s \in Snapshots : toClient' = Append(toClient, State(s))
<1> USE DEF Coherent
<1> DEFINE t == [Snapshot(seq + 1) EXCEPT !.version = version + 1]
<1>1. t \in Snapshots
  <2>1. Snapshot(seq + 1) \in Snapshots /\ version + 1 \in Nat
    BY MessageTypes DEF DataOK
  <2> QED BY <2>1 DEF Snapshots
<1>2. t.seq = seq + 1 /\ t.version = version + 1 /\ t.records = {i \in answered : applied[i] # 0}
  BY DEF Snapshot
<1>3. /\ seq' = seq + 1 /\ version' = version + 1 /\ version \in Nat /\ seq \in Nat
      /\ toClient' = Append(toClient, State(t))
      /\ UNCHANGED <<phase, failed, answered, applied, toServer, open, pumpVars, runnerVars>>
  BY DEF Push, DataOK
<1>4. State(t) \in ServerMessages /\ State(t).kind = "state" /\ State(t).snap = t
  BY <1>1, MessageTypes DEF State
<1> HIDE DEF t
<1>5. Held' = Held \cup {t}
  BY <1>3, <1>4, HeldGrows DEF pumpVars
<1>6. (SnapshotsAreSound /\ SnapshotsAreOrdered)'
  <2>1. \A i \in answered : applied[i] \in Nat /\ applied[i] <= version + 1
    BY <1>3 DEF DataOK, EffectsAreAnswered
  <2>2. version <= version + 1 /\ version + 1 \in Nat
    BY <1>3
  <2> QED BY <1>1, <1>2, <1>3, <1>5, <2>1, <2>2, SnapshotsPushed
<1>7. toClient \in Seq(ServerMessages)
  BY DEF DataOK
<1>8. DataOK'
  <2>1. toClient' \in Seq(ServerMessages)
    BY <1>3, <1>4, <1>7, MessagesAppend
  <2> QED BY <1>3, <2>1 DEF DataOK, pumpVars, runnerVars
<1>9. EffectsAreAnswered' /\ OneCommandAtTheServer' /\ CommandInProgress'
  <2>1. \A i \in Requests : applied[i] <= version => applied[i] <= version + 1
    BY <1>3 DEF DataOK
  <2> QED BY <1>3, <2>1 DEF EffectsAreAnswered, OneCommandAtTheServer, CommandInProgress, runnerVars
<1>10. HandshakeFirst'
  <2>1. toClient' # <<>> /\ (toClient # <<>> => Head(toClient') = Head(toClient))
    BY <1>3, <1>4, <1>7, MessagesAppend
  <2>2. open
    BY DEF Push, CanSend
  <2> QED BY <1>3, <2>1, <2>2 DEF HandshakeFirst, runnerVars, pumpVars
<1> QED BY <1>1, <1>3, <1>6, <1>8, <1>9, <1>10 DEF pumpVars

(* What any step of the script alone leaves as it is.                      *)
LEMMA ScriptStepKeeps ==
  ASSUME ScriptStep
  PROVE  /\ UNCHANGED <<serverVars, toClient, open, world, pump, pumpError, future>>
         /\ pc' \notin {"AwaitState", "AwaitReadiness", "AwaitResult", "Loop"}
         /\ Held' = Held /\ Messages(toClient)' = Messages(toClient)
<1>1. UNCHANGED <<serverVars, toClient, open, world, pump, pumpError, future>>
  BY DEF ScriptStep, Begin, GiftIsGone, StepAnswered, StepFailed, WaitForSnapshot, LimitConfirmed,
     LimitDenied, ObjectMissing, Complete, Deadline, CancelWait, linkVars, pumpVars
<1>2. pc' \notin {"AwaitState", "AwaitReadiness", "AwaitResult", "Loop"}
  BY DEF ScriptStep, Begin, GiftIsGone, StepAnswered, StepFailed, WaitForSnapshot, LimitConfirmed,
     LimitDenied, ObjectMissing, Complete, Deadline, CancelWait, Stop, Goto, WaitPass
<1> QED BY <1>1, <1>2 DEF Held, Messages

(* A step that stops the script stops it and drops the command's entry.    *)
Halts ==
  /\ pc' = "Stopping" /\ UNCHANGED <<toServer, cur, outcome, baseSeq, updated>>
  /\ pending' = pending \/ pending' = Discard(pending, cur)

(* The steps of the script alone, by what they do to the command at hand.  *)
LEMMA ScriptStepCases ==
  ASSUME Coherent, StepsTookEffect, RefusalComesLast, ScriptStep
  PROVE  /\ reason' # "completed" \/ reason' = reason \/ Complete
         /\ \/ Halts
            \/ Begin /\ cur = 0
            \/ /\ StepAnswered /\ cur \in Exercise /\ applied[cur] # 0
            \/ /\ WaitForSnapshot /\ pc' = "WaitSleep" /\ cur' = cur /\ ~Awaited(world)
               /\ UNCHANGED <<toServer, outcome, baseSeq, pending, reason>> /\ updated' = FALSE
               /\ pumpError = "none" /\ cur \in Exercise /\ applied[cur] # 0
            \/ /\ WaitForSnapshot /\ pc' = "SendTask" /\ cur' = cur + 1 /\ Awaited(world)
               /\ UNCHANGED <<toServer, outcome, baseSeq, pending, reason, updated>>
               /\ cur \in Exercise /\ applied[cur] # 0
            \/ /\ LimitConfirmed /\ pc' = "SyncCheck" /\ cur = OverTheLimit
               /\ cur \in answered /\ Exercise \subseteq world.records
               /\ UNCHANGED <<cur, outcome, updated, reason>> /\ pending' = Discard(pending, cur)
               /\ baseSeq' = world.seq /\ toServer' = Append(toServer, Sync)
<1>1. CASE Begin
  BY <1>1 DEF Begin, Goto, StepsTookEffect
<1>2. CASE GiftIsGone \/ StepFailed \/ ObjectMissing \/ LimitDenied \/ Complete \/ Deadline \/ CancelWait
  <2>1. Halts
    BY <1>2 DEF GiftIsGone, StepFailed, ObjectMissing, LimitDenied, Complete, Deadline, CancelWait, Stop, Halts,
       linkVars
  <2>2. reason' # "completed" \/ Complete
    BY <1>2 DEF GiftIsGone, StepFailed, ObjectMissing, LimitDenied, Deadline, CancelWait, Stop
  <2> QED BY <2>1, <2>2
<1>3. CASE StepAnswered
  <2>1. cur \in Requests /\ cur # OverTheLimit
    BY <1>3, CurrentRequest DEF StepAnswered, Coherent, Sending
  <2>2. cur \in Exercise
    BY <2>1, Numbers
  <2> QED BY <1>3, <2>2 DEF StepAnswered, Goto
<1>4. CASE WaitForSnapshot
  <2>1. cur \in Exercise /\ applied[cur] # 0
    BY <1>4 DEF WaitForSnapshot, StepsTookEffect
  <2>2. UNCHANGED <<toServer, pending, outcome, baseSeq>>
    BY <1>4 DEF WaitForSnapshot, linkVars
  <2>3. CASE Awaited(world) /\ Goto("SendTask") /\ UNCHANGED updated
    BY <1>4, <2>1, <2>2, <2>3 DEF WaitForSnapshot, Goto
  <2>4. CASE ~Awaited(world) /\ pc' = "Stopping" /\ reason' = "pump" /\ UNCHANGED updated
    BY <1>4, <2>2, <2>4 DEF WaitForSnapshot, Halts
  <2>5. CASE ~Awaited(world) /\ pumpError = "none" /\ Goto("WaitSleep") /\ updated' = FALSE
    BY <1>4, <2>1, <2>2, <2>5 DEF WaitForSnapshot, Goto
  <2> QED BY <1>4, <2>3, <2>4, <2>5 DEF WaitForSnapshot, WaitPass
<1>5. CASE LimitConfirmed
  <2>1. CASE ~open
    BY <1>5, <2>1 DEF LimitConfirmed, Stop, Halts
  <2>2. CASE open
    BY <1>5, <2>2 DEF LimitConfirmed, Goto, RefusalComesLast
  <2> QED BY <2>1, <2>2
<1> QED BY <1>1, <1>2, <1>3, <1>4, <1>5 DEF ScriptStep

(* A command that has been answered is not with the server any more.       *)
LEMMA NothingAtTheServer ==
  ASSUME OneCommandAtTheServer,
         cur \in answered \/ pc \notin {"Flushing", "AwaitResult", "Stopping"}
  PROVE  NoCommands(toServer)
BY DEF OneCommandAtTheServer, NoCommands

LEMMA ScriptStepCoherent ==
  ASSUME Coherent, StepsTookEffect, RefusalComesLast, ScriptStep
  PROVE  Coherent'
<1> USE DEF Coherent
<1> DEFINE Kept == /\ UNCHANGED <<serverVars, toClient, open, world, pump, pumpError, future>>
                   /\ pc' \notin {"AwaitState", "AwaitReadiness", "AwaitResult", "Loop"}
                   /\ Held' = Held
<1>0. Kept
  BY ScriptStepKeeps
<1>1. /\ cur \in 0..6 /\ cur \in Nat /\ toServer \in Seq(ClientMessages) /\ answered \subseteq 1..cur
      /\ outcome \in [kind : {"result"}, id : Requests \cup {NoRequest}, version : Nat]
      /\ world.seq \in Nat /\ Requests = 1..6 /\ Exercise = 1..5 /\ MaxCommands = 6
  BY Numbers DEF DataOK, EffectsAreAnswered, Snapshots
<1>2. ASSUME updated' \in BOOLEAN, pending' \in SUBSET Requests, cur' \in 0..6, cur <= cur',
             outcome' \in [kind : {"result"}, id : Requests \cup {NoRequest}, version : Nat],
             baseSeq' \in Nat, toServer' \in Seq(ClientMessages), OneCommandAtTheServer',
             CommandInProgress'
      PROVE  Coherent'
  <2>1. DataOK'
    BY <1>0, <1>1, <1>2 DEF DataOK, serverVars
  <2>2. SnapshotsAreSound' /\ SnapshotsAreOrdered'
    BY <1>0 DEF SnapshotsAreSound, SnapshotsAreOrdered, serverVars
  <2>3. EffectsAreAnswered'
    BY <1>0, <1>1, <1>2 DEF EffectsAreAnswered, serverVars
  <2>4. HandshakeFirst'
    BY <1>0 DEF HandshakeFirst
  <2> QED BY <1>2, <2>1, <2>2, <2>3, <2>4
<1> DEFINE With == {"Flushing", "AwaitResult", "Stopping"}
<1>3. ASSUME NoCommands(toServer'), pc' = "SendTask" => cur' \notin answered
      PROVE  OneCommandAtTheServer'
  BY <1>0, <1>3 DEF OneCommandAtTheServer, NoCommands, serverVars
<1>4. pending \in SUBSET Requests /\ updated \in BOOLEAN /\ baseSeq \in Nat
  BY DEF DataOK
<1>5. CASE Halts
  <2>1. OneCommandAtTheServer' /\ CommandInProgress'
    BY <1>0, <1>5 DEF Halts, OneCommandAtTheServer, CommandInProgress, Sending, Reconciling, serverVars
  <2>2. pending' \in SUBSET Requests
    BY <1>4, <1>5 DEF Halts, Discard
  <2> HIDE DEF Kept
  <2> QED BY <1>1, <1>2, <1>4, <1>5, <2>1, <2>2 DEF Halts
<1>6. CASE Begin /\ cur = 0
  <2>1. pc = "Loop" /\ pc' = "SendTask" /\ cur' = 1
        /\ UNCHANGED <<toServer, pending, updated, outcome, baseSeq>>
    BY <1>6 DEF Begin, Goto, linkVars, pumpVars
  <2>2. NoCommands(toServer') /\ cur' \notin answered
    BY <1>1, <1>6, <2>1, NothingAtTheServer
  <2>3. OneCommandAtTheServer' /\ CommandInProgress'
    BY <1>3, <2>1, <2>2 DEF CommandInProgress
  <2> QED BY <1>1, <1>2, <1>4, <1>6, <2>1, <2>3
<1>7. CASE StepAnswered /\ cur \in Exercise /\ applied[cur] # 0
  <2>1. /\ pc' = "WaitTask" /\ pending' = Discard(pending, cur) /\ outcome' = future[cur]
        /\ future[cur].kind = "result" /\ UNCHANGED <<toServer, updated, cur, baseSeq>>
    BY <1>7 DEF StepAnswered, Goto, linkVars
  <2>2. cur \in answered /\ cur \in Requests
    BY <1>1, <1>7 DEF EffectsAreAnswered
  <2>3. OneCommandAtTheServer' /\ CommandInProgress'
    BY <1>3, <2>1, <2>2, NothingAtTheServer DEF CommandInProgress, Sending, Reconciling
  <2>4. outcome' \in [kind : {"result"}, id : Requests \cup {NoRequest}, version : Nat]
    BY <2>1, <2>2 DEF DataOK, Futures, Unset, Rejected, Disconnected
  <2>5. pending' \in SUBSET Requests
    BY <1>4, <2>1 DEF Discard
  <2> HIDE DEF Kept
  <2> QED BY <1>1, <1>2, <1>4, <2>1, <2>3, <2>4, <2>5
<1>8. CASE /\ WaitForSnapshot /\ cur \in Exercise /\ UNCHANGED <<toServer, outcome, baseSeq, pending>>
           /\ \/ pc' = "WaitSleep" /\ cur' = cur /\ updated' = FALSE
              \/ pc' = "SendTask" /\ cur' = cur + 1 /\ updated' = updated
  <2>1. pc \in {"WaitTask", "WaitSleep"}
    BY <1>8 DEF WaitForSnapshot
  <2>2. NoCommands(toServer')
    BY <1>8, <2>1, NothingAtTheServer
  <2>3. cur + 1 \notin answered /\ cur' \in 0..6 /\ cur <= cur' /\ cur' >= 1
    BY <1>1, <1>8
  <2>4. OneCommandAtTheServer' /\ CommandInProgress'
    BY <1>3, <1>8, <2>2, <2>3 DEF CommandInProgress
  <2> HIDE DEF Kept
  <2> QED BY <1>1, <1>2, <1>4, <1>8, <2>3, <2>4
<1>9. CASE /\ LimitConfirmed /\ pc' = "SyncCheck" /\ cur = OverTheLimit /\ cur \in answered
           /\ UNCHANGED <<cur, outcome, updated>> /\ pending' = Discard(pending, cur)
           /\ baseSeq' = world.seq /\ toServer' = Append(toServer, Sync)
  <2>1. Sync \in ClientMessages /\ Sync.kind # "command"
    BY MessageTypes DEF Sync
  <2>2. NoCommands(toServer') /\ toServer' \in Seq(ClientMessages)
    BY <1>1, <1>9, <2>1, NothingAtTheServer, SingleAppend
  <2>3. OneCommandAtTheServer' /\ CommandInProgress'
    BY <1>3, <1>9, <2>2, Numbers DEF CommandInProgress
  <2>4. pending' \in SUBSET Requests
    BY <1>4, <1>9 DEF Discard
  <2> HIDE DEF Kept
  <2> QED BY <1>1, <1>2, <1>4, <1>9, <2>2, <2>3, <2>4
<1> HIDE DEF Kept
<1>10. \/ Halts
       \/ Begin /\ cur = 0
       \/ StepAnswered /\ cur \in Exercise /\ applied[cur] # 0
       \/ /\ WaitForSnapshot /\ cur \in Exercise /\ UNCHANGED <<toServer, outcome, baseSeq, pending>>
          /\ \/ pc' = "WaitSleep" /\ cur' = cur /\ updated' = FALSE
             \/ pc' = "SendTask" /\ cur' = cur + 1 /\ updated' = updated
       \/ /\ LimitConfirmed /\ pc' = "SyncCheck" /\ cur = OverTheLimit /\ cur \in answered
          /\ UNCHANGED <<cur, outcome, updated>> /\ pending' = Discard(pending, cur)
          /\ baseSeq' = world.seq /\ toServer' = Append(toServer, Sync)
  BY ScriptStepCases
<1> QED BY <1>5, <1>6, <1>7, <1>8, <1>9, <1>10

-----------------------------------------------------------------------------
(* What grows and where the script gets.                                   *)

LEMMA CoherentUnchanged ==
  ASSUME Coherent, UNCHANGED vars
  PROVE  Coherent' /\ Held' = Held /\ Messages(toClient)' = Messages(toClient)
<1>1. DataOK' /\ CommandInProgress'
  BY DataStep DEF Coherent
<1>2. Held' = Held /\ Messages(toClient)' = Messages(toClient)
  BY DEF vars, linkVars, pumpVars, Held, Messages
<1> QED BY <1>1, <1>2 DEF vars, serverVars, linkVars, pumpVars, runnerVars, Coherent,
      SnapshotsAreSound, SnapshotsAreOrdered, EffectsAreAnswered, OneCommandAtTheServer, HandshakeFirst

LEMMA ScriptCoherent ==
  ASSUME ScriptInv, [ScriptNext]_scriptVars
  PROVE  Coherent'
<1>1. CASE Server \/ SessionStep
  BY <1>1, NotTheRunner, CoherentStep DEF ScriptInv
<1>2. CASE Push
  BY <1>2, PushStep DEF ScriptInv
<1>3. CASE ScriptStep
  BY <1>3, ScriptStepCoherent DEF ScriptInv
<1>4. CASE UNCHANGED vars
  BY <1>4, CoherentUnchanged DEF ScriptInv
<1> QED BY <1>1, <1>2, <1>3, <1>4, StepsOfScript

(* Where the steps of the session lead the script.                         *)
LEMMA SessionPlaces ==
  ASSUME Coherent, Server \/ SessionStep \/ Push
  PROVE  /\ cur' = cur
         /\ reason' = reason \/ reason' # "completed"
         /\ \/ pc' = pc
            \/ pc' = "Loop" /\ cur = 0
            \/ pc' \in {"AwaitReadiness", "Flushing", "AwaitResult", "Stopping", "Stopped"}
            \/ pc \in {"SyncCheck", "SyncSleep"} /\ pc' \in {"SyncSleep", "Synced"}
<1>1. CASE Server \/ Pump \/ Push
  BY <1>1 DEF Server, ServerReady, ServerApply, ServerRefuse, ServerSync, ServerTick, ServerRepeat,
     ServerFault, ServerClose, Pump, PumpState, PumpResult, PumpProtocolError, PumpUndecodable,
     PumpClosed, Push, runnerVars
<1>2. CASE Handshake
  BY <1>2 DEF Handshake, HandshakeState, HandshakeReadiness, HandshakeClosed, Stop, Goto, Coherent,
     HandshakeFirst
<1>3. CASE SendStart \/ SendFlushed \/ SyncWait \/ Interrupt \/ Shutdown
  BY <1>3 DEF SendStart, SendFlushed, SyncWait, WaitPass, Interrupt, Shutdown, Stop, Goto
<1> QED BY <1>1, <1>2, <1>3 DEF SessionStep

(* No effect and no answer is forgotten; the world shows what it showed.   *)
LEMMA EffectsGrow ==
  ASSUME ScriptInv, [ScriptNext]_scriptVars
  PROVE  /\ answered \subseteq answered'
         /\ \A i \in Requests : applied[i] # 0 => applied'[i] = applied[i]
         /\ cur # 0 => /\ world.version <= world'.version
                       /\ world.records \subseteq world'.records
<1> USE DEF ScriptInv
<1>0. world.version \in Nat /\ \A i \in Requests : applied[i] # 0 => i \in answered
  BY DEF Coherent, DataOK, Snapshots, EffectsAreAnswered
<1>1. CASE Server \/ SessionStep
  <2>1. Next
    BY <1>1, NotTheRunner
  <2>2. /\ answered \subseteq answered'
        /\ \A i \in answered : applied'[i] = applied[i]
    BY <2>1, EffectsKept
  <2>3. cur # 0 => world' = world \/ /\ world'.version >= world.version
                                     /\ world.records \subseteq world'.records
    BY <2>1, WorldReplaced
  <2>4. world'.version \in Nat
    BY ScriptCoherent DEF Coherent, DataOK, Snapshots
  <2> QED BY <1>0, <2>2, <2>3, <2>4
<1>2. CASE Push \/ ScriptStep \/ UNCHANGED vars
  <2>1. UNCHANGED <<answered, applied, world>>
    BY <1>2, PushStep, ScriptStepKeeps DEF vars, serverVars, pumpVars
  <2> QED BY <1>0, <2>1
<1> QED BY <1>1, <1>2, StepsOfScript

LEMMA StepsTookEffectStep ==
  ASSUME ScriptInv, [ScriptNext]_scriptVars
  PROVE  StepsTookEffect'
<1> USE DEF ScriptInv
<1>1. \A i \in Requests : applied[i] # 0 => applied'[i] # 0
  BY EffectsGrow
<1>2. cur \in 0..6 /\ Requests = 1..6 /\ Exercise = 1..5
  BY Numbers DEF Coherent, DataOK
<1>3. CASE Server \/ SessionStep \/ Push \/ UNCHANGED vars
  <2>1. /\ cur' = cur /\ (pc' = "Loop" => pc = "Loop" \/ cur = 0)
        /\ pc' \in {"WaitTask", "WaitSleep"} => pc' = pc
    BY <1>3, SessionPlaces DEF vars, runnerVars
  <2> QED BY <1>1, <1>2, <2>1 DEF StepsTookEffect
<1>4. CASE ScriptStep
  <2>1. UNCHANGED applied /\ pc' # "Loop"
    BY <1>4, ScriptStepKeeps DEF serverVars
  <2>2. \/ cur' = cur /\ pc' \notin {"WaitTask", "WaitSleep"}
        \/ cur' = 1 /\ pc' \notin {"WaitTask", "WaitSleep"}
        \/ cur' = cur /\ cur \in Exercise /\ applied[cur] # 0
        \/ cur' = cur + 1 /\ pc' = "SendTask" /\ cur \in Exercise /\ applied[cur] # 0
    BY <1>4, ScriptStepCases DEF Halts, Begin, StepAnswered, Goto
  <2> QED BY <1>2, <2>1, <2>2 DEF StepsTookEffect
<1> QED BY <1>3, <1>4, StepsOfScript

LEMMA ExerciseShownStep ==
  ASSUME ScriptInv, [ScriptNext]_scriptVars
  PROVE  ExerciseShown'
<1> USE DEF ScriptInv
<1>1. /\ OfferWater = 3 /\ OverTheLimit = 6 /\ Exercise = 1..5 /\ cur \in 0..6
      /\ world.version \in Nat /\ world'.version \in Nat
  BY Numbers, ScriptCoherent DEF Coherent, DataOK, Snapshots
<1>2. cur # 0 /\ Accepted(world) => acceptedAt' \in 1..world'.version
  <2>1. acceptedAt \in 1..world.version => acceptedAt' = acceptedAt
    BY <1>1, StepsOfScript
  <2> QED BY <1>1, <2>1, EffectsGrow DEF Accepted
<1>3. cur = OverTheLimit /\ Exercise \subseteq world.records => Exercise \subseteq world'.records
  BY <1>1, EffectsGrow
<1>4. CASE Server \/ SessionStep \/ Push \/ UNCHANGED vars
  <2>1. /\ cur' = cur /\ (reason' = "completed" => reason = "completed")
        /\ pc' \in {"SyncCheck", "SyncSleep", "Synced"} => pc \in {"SyncCheck", "SyncSleep", "Synced"}
    BY <1>4, SessionPlaces DEF vars, runnerVars
  <2> QED BY <1>1, <1>2, <1>3, <2>1 DEF ExerciseShown, Accepted
<1>5. CASE ScriptStep
  <2>1. world' = world
    BY <1>5, ScriptStepKeeps
  <2>2. cur' > OfferWater => cur > OfferWater \/ (cur = OfferWater /\ Awaited(world))
    <3>1. cur' = cur \/ cur' = 1 \/ (cur' = cur + 1 /\ Awaited(world))
      BY <1>5, ScriptStepCases DEF Halts, Begin, StepAnswered
    <3> QED BY <1>1, <3>1
  <2>3. cur' > OfferWater => acceptedAt' \in 1..world'.version
    BY <1>1, <1>2, <2>2 DEF ExerciseShown, Awaited
  <2>4. reason' = "completed" => cur' = OverTheLimit /\ Exercise \subseteq world'.records
    <3>1. reason' = "completed" => reason = "completed" \/ pc = "Synced"
      BY <1>5, ScriptStepCases DEF Complete
    <3>2. cur = OverTheLimit => cur' = cur
      BY <1>1, <1>5, ScriptStepCases DEF Halts, Begin, StepAnswered
    <3> QED BY <2>1, <3>1, <3>2 DEF ExerciseShown
  <2>5. pc' \in {"SyncCheck", "SyncSleep", "Synced"} =>
          cur' = OverTheLimit /\ Exercise \subseteq world'.records
    BY <1>5, <2>1, ScriptStepCases DEF Halts, Begin, StepAnswered, Goto
  <2> QED BY <2>3, <2>4, <2>5 DEF ExerciseShown, Accepted
<1> QED BY <1>4, <1>5, StepsOfScript

-----------------------------------------------------------------------------
(* What the connection carries.                                            *)

(* The state that the server pushes with a result shows every effect.      *)
LEMMA ApplyShows ==
  ASSUME Coherent, ServerApply
  PROVE  \E s \in Held' : s.run /\ Effective' \subseteq s.records
<1> USE DEF Coherent
<1> DEFINE i == Head(toServer).id
           t == [Snapshot(seq + 1) EXCEPT !.version = version + 1, !.records = @ \cup {i}]
<1>1. i \in Requests
  BY CommandRead DEF ServerApply
<1>2. PICK v : \/ toClient' = Append(Append(toClient, Result(i, v)), State(t))
               \/ toClient' = Append(Append(toClient, State(t)), Result(i, v))
  BY DEF ServerApply
<1>3. t.run /\ t.records = {j \in answered : applied[j] # 0} \cup {i}
  BY DEF Snapshot
<1>4. Effective' \subseteq t.records
  <2>1. applied' = [applied EXCEPT ![i] = version + 1]
    BY DEF ServerApply
  <2> HIDE DEF i, t
  <2>2. \A j \in Requests : applied'[j] # 0 => j = i \/ applied[j] # 0
    BY <1>1, <2>1 DEF DataOK
  <2> QED BY <1>3, <2>2 DEF Effective, EffectsAreAnswered
<1> DEFINE result == Result(i, v)
           state  == State(t)
<1>5. state.kind = "state" /\ state.snap = t
  BY DEF State
<1>6. \/ toClient' = Append(Append(toClient, result), state)
      \/ toClient' = Append(Append(toClient, state), result)
  BY <1>2
<1> HIDE DEF i, t, result, state
<1>7. state \in Messages(toClient')
  <2>1. toClient \in Seq(ServerMessages \cup {result, state})
    BY DEF DataOK
  <2>2. /\ Messages(Append(Append(toClient, result), state)) = Messages(toClient) \cup {result, state}
        /\ Messages(Append(Append(toClient, state), result)) = Messages(toClient) \cup {state, result}
    BY <2>1, MessagesAppendTwo
  <2> QED BY <1>6, <2>2
<1>8. t \in Held'
  BY <1>5, <1>7 DEF Held
<1> QED BY <1>3, <1>4, <1>8

(* A message in the queue is its head or remains.                          *)
LEMMA HeadOrTail ==
  ASSUME NEW S, NEW q \in Seq(S), q # <<>>
  PROVE  /\ DOMAIN Tail(q) = 1..(Len(q) - 1) /\ DOMAIN q = 1..Len(q) /\ Len(q) \in Nat \ {0}
         /\ \A k \in 1..(Len(q) - 1) : Tail(q)[k] = q[k + 1]
         /\ Head(q) = q[1]
         /\ \A m \in Messages(q) : m = Head(q) \/ m \in Messages(Tail(q))
<1>1. /\ DOMAIN Tail(q) = 1..(Len(q) - 1) /\ DOMAIN q = 1..Len(q) /\ Len(q) \in Nat \ {0}
      /\ \A k \in 1..(Len(q) - 1) : Tail(q)[k] = q[k + 1]
      /\ Head(q) = q[1]
  OBVIOUS
<1>2. \A k \in 1..Len(q) : k = 1 \/ (k - 1 \in 1..(Len(q) - 1) /\ k = (k - 1) + 1)
  BY <1>1
<1>3. ASSUME NEW m \in Messages(q) PROVE m = Head(q) \/ m \in Messages(Tail(q))
  <2>1. PICK k \in 1..Len(q) : m = q[k]
    BY <1>1 DEF Messages
  <2>2. CASE k = 1
    BY <1>1, <2>1, <2>2
  <2>3. CASE k # 1
    <3>1. k - 1 \in 1..(Len(q) - 1) /\ q[k] = Tail(q)[k - 1]
      BY <1>1, <1>2, <2>3
    <3> QED BY <1>1, <2>1, <3>1 DEF Messages
  <2> QED BY <2>2, <2>3
<1> QED BY <1>1, <1>3

(* What the pump reads: the world then shows what the message showed.      *)
LEMMA PumpReads ==
  ASSUME Coherent, Pump
  PROVE  \/ toClient = <<>> /\ toClient' = <<>> /\ world' = world
         \/ /\ toClient # <<>> /\ toClient' = Tail(toClient)
            /\ Head(toClient).kind # "state" => world' = world
            /\ Head(toClient).kind = "state" /\ Head(toClient).snap.run =>
                 /\ world'.run /\ Head(toClient).snap.records \subseteq world'.records
<1> USE DEF Coherent
<1>1. CASE PumpClosed
  BY <1>1 DEF PumpClosed, linkVars
<1>2. CASE PumpResult \/ PumpProtocolError \/ PumpUndecodable
  BY <1>2 DEF PumpResult, PumpProtocolError, PumpUndecodable, Receive
<1>3. CASE PumpState
  <2> DEFINE s == Head(toClient).snap
  <2>1. toClient # <<>> /\ toClient' = Tail(toClient) /\ Head(toClient).kind = "state"
    BY <1>3 DEF PumpState, Receive
  <2>2. s \in Held /\ s \in Snapshots /\ world \in Held /\ world \in Snapshots /\ world.run
    BY <2>1, ReadMessage, HeldTypes DEF Held, HandshakeFirst, DataOK
  <2>3. s.run => \/ world' = s
                 \/ world' = world /\ ~(s.seq > world.seq)
    BY <1>3 DEF PumpState, Replace, Newer, pumpVars
  <2>4. s.seq \in Nat /\ world.seq \in Nat
    BY <2>2 DEF Snapshots
  <2>5. s.run /\ ~(s.seq > world.seq) => s.records \subseteq world.records
    <3>1. ~(s.seq > world.seq) => s.seq <= world.seq
      BY <2>4
    <3> QED BY <2>2, <3>1 DEF SnapshotsAreOrdered
  <2> HIDE DEF s
  <2>6. s.run => world'.run /\ s.records \subseteq world'.records
    BY <2>2, <2>3, <2>5
  <2> QED BY <2>1, <2>6 DEF s
<1> QED BY <1>1, <1>2, <1>3 DEF Pump

LEMMA NothingIssued ==
  ASSUME EffectsAreAnswered, cur = 0
  PROVE  answered = {} /\ Effective = {}
<1>1. answered = {}
  <2>1. 1..0 = {}
    OBVIOUS
  <2> QED BY <2>1 DEF EffectsAreAnswered
<1> QED BY <1>1 DEF EffectsAreAnswered, Effective

LEMMA LatestShowsStep ==
  ASSUME ScriptInv, [ScriptNext]_scriptVars
  PROVE  LatestShowsAll'
<1> USE DEF ScriptInv
<1> SUFFICES ASSUME open' PROVE \E s \in Held' : s.run /\ Effective' \subseteq s.records
  BY DEF LatestShowsAll
<1>0. toClient \in Seq(ServerMessages) /\ world'.run /\ world' \in Held'
  BY ScriptCoherent DEF Coherent, DataOK, HandshakeFirst, Held
<1>1. ASSUME open, Held \subseteq Held', Effective' = Effective
      PROVE  \E s \in Held' : s.run /\ Effective' \subseteq s.records
  BY <1>1 DEF LatestShowsAll
<1>2. CASE Server /\ ~ServerApply
  <2>1. open /\ Messages(toClient) \subseteq Messages(toClient')
    BY <1>2, ServerAnswers
  <2>2. UNCHANGED <<applied, world>>
    BY <1>2 DEF Server, ServerReady, ServerRefuse, ServerSync, ServerTick, ServerRepeat,
       ServerFault, ServerClose, serverVars, pumpVars
  <2> QED BY <1>1, <2>1, <2>2 DEF Held, Effective
<1>3. CASE ServerApply
  BY <1>3, ApplyShows
<1>4. CASE Push
  <2>1. PICK t \in Snapshots : toClient' = Append(toClient, State(t))
    BY <1>4, PushStep
  <2>2. State(t) \in ServerMessages
    BY <2>1, MessageTypes DEF Coherent
  <2>3. Messages(toClient') = Messages(toClient) \cup {State(t)}
    BY <1>0, <2>1, <2>2, MessagesAppend
  <2>4. UNCHANGED <<applied, world, open>>
    BY <1>4, PushStep
  <2> QED BY <1>1, <2>3, <2>4 DEF Held, Effective
<1>5. CASE Handshake
  <2>1. cur = 0 /\ UNCHANGED applied
    BY <1>5 DEF Handshake, HandshakeState, HandshakeReadiness, HandshakeClosed, Coherent,
       HandshakeFirst, serverVars
  <2>2. Effective' = {}
    BY <2>1, NothingIssued DEF Effective, Coherent
  <2> QED BY <1>0, <2>2
<1>6. CASE Pump
  <2>1. UNCHANGED <<applied, open>>
    BY <1>6 DEF Pump, PumpState, PumpResult, PumpProtocolError, PumpUndecodable, PumpClosed,
       Receive, serverVars, linkVars
  <2>2. PICK s \in Held : s.run /\ Effective' \subseteq s.records
    BY <2>1 DEF LatestShowsAll, Effective
  <2>3. CASE s = world
    <3>1. cur # 0 \/ Effective' = {}
      BY <2>1, NothingIssued DEF Effective, Coherent
    <3>2. Effective' \subseteq world'.records
      BY <2>2, <2>3, <3>1, EffectsGrow
    <3> QED BY <1>0, <3>2
  <2>4. ASSUME NEW m \in Messages(toClient), m.kind = "state", s = m.snap
        PROVE  \E r \in Held' : r.run /\ Effective' \subseteq r.records
    <3>1. toClient # <<>>
      BY <2>4 DEF Messages
    <3>2. /\ toClient' = Tail(toClient)
          /\ Head(toClient).kind = "state" /\ Head(toClient).snap.run =>
               Head(toClient).snap.records \subseteq world'.records
      BY <1>6, <3>1, PumpReads
    <3>3. CASE m = Head(toClient)
      <4>1. Effective' \subseteq world'.records
        BY <2>2, <2>4, <3>2, <3>3
      <4> QED BY <1>0, <4>1
    <3>4. CASE m # Head(toClient)
      <4>1. m \in Messages(toClient')
        BY <1>0, <3>1, <3>2, <3>4, HeadOrTail
      <4>2. s \in Held'
        BY <2>4, <4>1 DEF Held
      <4> QED BY <2>2, <4>2
    <3> QED BY <3>3, <3>4
  <2> QED BY <2>3, <2>4 DEF Held
<1>7. CASE SendStart \/ SendFlushed \/ SyncWait \/ Interrupt \/ ScriptStep \/ UNCHANGED vars
  <2>1. UNCHANGED <<applied, open, world, toClient>>
    BY <1>7, ScriptStepKeeps DEF SendStart, SendFlushed, SyncWait, Interrupt, vars, serverVars,
       linkVars, pumpVars
  <2> QED BY <1>1, <2>1 DEF Held, Messages, Effective
<1>8. CASE Shutdown
  BY <1>8 DEF Shutdown
<1> QED BY <1>2, <1>3, <1>4, <1>5, <1>6, <1>7, <1>8, StepsOfScript DEF SessionStep

-----------------------------------------------------------------------------
(* The order of the connection.                                            *)

(* Append extends a sequence by one element and leaves the others alone.   *)
LEMMA AppendsOne ==
  ASSUME NEW S, NEW p \in Seq(S), NEW m \in S
  PROVE  /\ Append(p, m) \in Seq(S) /\ Len(Append(p, m)) = Len(p) + 1
         /\ \A i \in 1..Len(p) : Append(p, m)[i] = p[i]
         /\ Append(p, m)[Len(p) + 1] = m
<1>1. Append(p, m) \in Seq(S) /\ Len(Append(p, m)) = Len(p) + 1
  BY AppendProperties
<1>2. \A i \in 1..Len(p) : Append(p, m)[i] = p[i]
  BY AppendProperties
<1>3. Append(p, m)[Len(p) + 1] = m
  BY AppendProperties
<1> QED BY <1>1, <1>2, <1>3

(* Which positions an extended queue has, and what stands at each: the old *)
(* messages where they were, the new one at the end.                       *)
LEMMA QueueAppend ==
  ASSUME NEW S, NEW q \in Seq(S), NEW m \in S
  PROVE  /\ Append(q, m) \in Seq(S) /\ Len(q) \in Nat /\ DOMAIN q = 1..Len(q)
         /\ \A k \in DOMAIN Append(q, m) : \/ k \in DOMAIN q /\ Append(q, m)[k] = q[k]
                                           \/ k = Len(q) + 1 /\ Append(q, m)[k] = m
         /\ \A k \in DOMAIN q : /\ k < Len(q) + 1 /\ k \in DOMAIN Append(q, m)
                                /\ Append(q, m)[k] = q[k]
         /\ Len(Append(q, m)) = Len(q) + 1
BY AppendProperties

(* A message in the queue after a step of the server or of the peer was    *)
(* there before, or comes after all that were.                             *)
LEMMA ServerQueue ==
  ASSUME Coherent, Server \/ Push, NEW k \in DOMAIN toClient'
  PROVE  \/ k \in DOMAIN toClient /\ toClient'[k] = toClient[k]
         \/ /\ \A j \in DOMAIN toClient :
                 j < k /\ j \in DOMAIN toClient' /\ toClient'[j] = toClient[j]
            /\ open /\ (IsRefusal(toClient'[k]) => ServerRefuse /\ cur = OverTheLimit)
<1> USE DEF Coherent
<1>0. toClient \in Seq(ServerMessages) /\ NoRequest # OverTheLimit
  BY DEF DataOK, NoRequest, OverTheLimit
<1>1. ASSUME NEW m \in ServerMessages, toClient' = Append(toClient, m), open,
             IsRefusal(m) => ServerRefuse /\ cur = OverTheLimit
      PROVE  \/ k \in DOMAIN toClient /\ toClient'[k] = toClient[k]
             \/ /\ \A j \in DOMAIN toClient :
                     j < k /\ j \in DOMAIN toClient' /\ toClient'[j] = toClient[j]
                /\ open /\ (IsRefusal(toClient'[k]) => ServerRefuse /\ cur = OverTheLimit)
  <2>1. \/ k \in DOMAIN toClient /\ toClient'[k] = toClient[k]
        \/ k = Len(toClient) + 1 /\ toClient'[k] = m
    BY <1>0, <1>1, QueueAppend
  <2>2. \A j \in DOMAIN toClient : /\ j < Len(toClient) + 1 /\ j \in DOMAIN toClient'
                                   /\ toClient'[j] = toClient[j]
    BY <1>0, <1>1, QueueAppend
  <2> QED BY <1>1, <2>1, <2>2
<1>2. CASE ServerApply
  <2> DEFINE i == Head(toServer).id
             t == [Snapshot(seq + 1) EXCEPT !.version = version + 1, !.records = @ \cup {i}]
  <2>1. i \in Requests /\ open
    BY <1>2, CommandRead DEF ServerApply, Reads
  <2>2. PICK v \in {0, version + 1} :
          \/ toClient' = Append(Append(toClient, Result(i, v)), State(t))
          \/ toClient' = Append(Append(toClient, State(t)), Result(i, v))
    BY <1>2 DEF ServerApply
  <2> DEFINE result == Result(i, v)
             state  == State(t)
  <2>3. ~IsRefusal(result) /\ ~IsRefusal(state)
    BY DEF IsRefusal, Result, State
  <2>4. \/ toClient' = Append(Append(toClient, result), state)
        \/ toClient' = Append(Append(toClient, state), result)
    BY <2>2
  <2> HIDE DEF i, t, result, state
  <2>5. toClient \in Seq(ServerMessages \cup {result, state})
    BY <1>0
  <2>6. ASSUME NEW m \in {result, state}, NEW n \in {result, state},
               toClient' = Append(Append(toClient, m), n)
        PROVE  \/ k \in DOMAIN toClient /\ toClient'[k] = toClient[k]
               \/ /\ \A j \in DOMAIN toClient :
                       j < k /\ j \in DOMAIN toClient' /\ toClient'[j] = toClient[j]
                  /\ ~IsRefusal(toClient'[k])
    <3> DEFINE q == Append(toClient, m)
               S == ServerMessages \cup {result, state}
    <3>1. /\ q \in Seq(S) /\ Len(q) = Len(toClient) + 1 /\ Len(toClient) \in Nat
          /\ \A j \in DOMAIN q : \/ j \in DOMAIN toClient /\ q[j] = toClient[j]
                                 \/ j = Len(toClient) + 1 /\ q[j] = m
          /\ \A j \in DOMAIN toClient : j < Len(toClient) + 1 /\ j \in DOMAIN q /\ q[j] = toClient[j]
      BY <2>5, QueueAppend
    <3> HIDE DEF q
    <3>2. /\ \A j \in DOMAIN Append(q, n) : \/ j \in DOMAIN q /\ Append(q, n)[j] = q[j]
                                            \/ j = Len(q) + 1 /\ Append(q, n)[j] = n
          /\ \A j \in DOMAIN q : j < Len(q) + 1 /\ j \in DOMAIN Append(q, n) /\ Append(q, n)[j] = q[j]
          /\ DOMAIN q = 1..Len(q)
      BY <3>1, QueueAppend
    <3>3. toClient' = Append(q, n)
      BY <2>6 DEF q
    <3>4. ~IsRefusal(m) /\ ~IsRefusal(n)
      BY <2>3
    <3>5. \A j \in DOMAIN toClient : /\ j < Len(toClient) + 1 /\ j < Len(toClient) + 2
                                     /\ j \in DOMAIN toClient' /\ toClient'[j] = toClient[j]
      BY <3>1, <3>2, <3>3
    <3>6. \/ k \in DOMAIN toClient /\ toClient'[k] = toClient[k]
          \/ k \in {Len(toClient) + 1, Len(toClient) + 2} /\ toClient'[k] \in {m, n}
      BY <3>1, <3>2, <3>3
    <3> QED BY <3>4, <3>5, <3>6
  <2> QED BY <2>1, <2>4, <2>6
<1>3. CASE ServerRefuse
  <2> DEFINE i == Head(toServer).id
  <2>1. i = cur /\ i \in Requests /\ open /\ version \in Nat
    BY <1>3, CommandRead DEF ServerRefuse, Reads, DataOK
  <2>2. PICK m \in {Result(i, version), ProtocolError(i, FALSE), ProtocolError(i, TRUE)} :
          toClient' = Append(toClient, m)
    BY <1>3 DEF ServerRefuse
  <2>3. m \in ServerMessages
    <3>1. /\ Result(i, version) \in ServerMessages
          /\ ProtocolError(i, FALSE) \in ServerMessages /\ ProtocolError(i, TRUE) \in ServerMessages
      BY <2>1, MessageTypes
    <3> QED BY <2>2, <3>1
  <2>4. IsRefusal(m) => cur = OverTheLimit
    BY <2>1, <2>2 DEF IsRefusal, Result, ProtocolError
  <2> QED BY <1>1, <1>3, <2>1, <2>2, <2>3, <2>4
<1>4. CASE ServerReady \/ ServerSync \/ ServerTick \/ ServerRepeat \/ ServerFault
  <2>1. PICK n \in ServerMessages :
          /\ toClient' = Append(toClient, n)
          /\ n.kind = "protocol_error" => n.id = NoRequest
    BY <1>4, OtherMessages
  <2>2. open
    BY <1>4 DEF ServerReady, ServerSync, ServerTick, ServerRepeat, ServerFault, CanSend
  <2> QED BY <1>0, <1>1, <2>1, <2>2 DEF IsRefusal
<1>5. CASE ServerClose
  <2>1. PICK n \in 0..Len(toClient) : toClient' = SubSeq(toClient, 1, n)
    BY <1>5 DEF ServerClose
  <2>2. k \in 1..n /\ toClient'[k] = toClient[k] /\ k \in DOMAIN toClient
    BY <1>0, <2>1
  <2> QED BY <2>2
<1>6. CASE Push
  <2>1. PICK s \in Snapshots : toClient' = Append(toClient, State(s))
    BY <1>6, PushStep
  <2>2. State(s) \in ServerMessages /\ ~IsRefusal(State(s)) /\ open
    BY <1>6, <2>1, MessageTypes DEF State, IsRefusal, Push, CanSend
  <2> QED BY <1>1, <2>1, <2>2
<1> QED BY <1>2, <1>3, <1>4, <1>5, <1>6 DEF Server

(* Only the message of a refusal turns the last command's future into one. *)
LEMMA RefusalRead ==
  ASSUME Coherent, SessionStep, future'[OverTheLimit] = Rejected
  PROVE  \/ future[OverTheLimit] = Rejected
         \/ Pump /\ toClient # <<>> /\ IsRefusal(Head(toClient))
<1> USE DEF Coherent
<1>0. /\ OverTheLimit \in Requests /\ DOMAIN future = Requests
      /\ Rejected # Unset /\ Rejected # Disconnected /\ NoRequest # OverTheLimit
  BY Numbers DEF DataOK, Rejected, Unset, Disconnected, NoRequest
<1>1. ASSUME NEW futures, DOMAIN futures = Requests, future' = FailAll(pending, futures)
      PROVE  futures[OverTheLimit] = Rejected
  BY <1>0, <1>1 DEF FailAll
<1>2. CASE Shutdown
  BY <1>0, <1>1, <1>2 DEF Shutdown, PumpEnd
<1>3. CASE SendStart
  BY <1>0, <1>3 DEF SendStart
<1>4. CASE Handshake \/ SendFlushed \/ SyncWait \/ Interrupt
  BY <1>4 DEF Handshake, HandshakeState, HandshakeReadiness, HandshakeClosed, SendFlushed, SyncWait,
     Interrupt
<1>5. CASE PumpState \/ PumpUndecodable \/ PumpClosed
  BY <1>0, <1>1, <1>5 DEF PumpState, PumpUndecodable, PumpClosed, PumpEnd, pumpVars
<1>6. CASE PumpResult
  <2> DEFINE m == Head(toClient)
  <2>1. future' = Settle(pending, future, m.id, m) /\ m.kind = "result"
    BY <1>6 DEF PumpResult, Receive
  <2>2. m # Rejected
    BY <2>1 DEF Rejected
  <2> HIDE DEF m
  <2> QED BY <1>0, <2>1, <2>2 DEF Settle
<1>7. CASE PumpProtocolError
  <2> DEFINE m == Head(toClient)
             futures == IF m.id # NoRequest THEN Settle(pending, future, m.id, Rejected) ELSE future
  <2>1. toClient # <<>> /\ m.kind = "protocol_error"
    BY <1>7 DEF PumpProtocolError, Receive
  <2>2. future' = FailAll(pending, futures) \/ future' = futures
    BY <1>7 DEF PumpProtocolError, PumpEnd
  <2> HIDE DEF m
  <2>3. DOMAIN futures = Requests /\ (futures[OverTheLimit] = Rejected =>
                                        future[OverTheLimit] = Rejected \/ m.id = OverTheLimit)
    BY <1>0 DEF Settle
  <2> HIDE DEF futures
  <2>4. futures[OverTheLimit] = Rejected
    BY <1>1, <2>2, <2>3
  <2> QED BY <1>7, <2>1, <2>3, <2>4 DEF m, IsRefusal, Pump
<1> QED BY <1>2, <1>3, <1>4, <1>5, <1>6, <1>7 DEF SessionStep, Pump

(* The refusal that the validator sends comes after what it has shown.     *)
LEMMA RefusalSent ==
  ASSUME ScriptInv, ServerRefuse, cur = OverTheLimit, open,
         toClient' \in Seq(ServerMessages), NEW k \in DOMAIN toClient',
         \A j \in DOMAIN toClient : j < k /\ j \in DOMAIN toClient' /\ toClient'[j] = toClient[j]
  PROVE  OverTheLimit \in answered' /\ ShownWithin(k)'
<1> USE DEF ScriptInv
<1>0. DOMAIN toClient = 1..Len(toClient) /\ DOMAIN toClient' = 1..Len(toClient')
      /\ Len(toClient) \in Nat /\ Len(toClient') \in Nat
  BY LenProperties DEF Coherent, DataOK
<1>1. OverTheLimit \in answered' /\ world' = world
  <2>1. Head(toServer).id = cur
    BY CommandRead DEF Coherent, ServerRefuse
  <2> QED BY <2>1 DEF ServerRefuse, pumpVars
<1>2. Exercise \subseteq Effective
  BY Numbers DEF StepsTookEffect, Effective
<1>3. PICK s \in Held : s.run /\ Effective \subseteq s.records
  BY DEF LatestShowsAll
<1>4. CASE s = world
  BY <1>1, <1>2, <1>3, <1>4 DEF ShownWithin
<1>5. CASE s # world
  <2>1. PICK j \in DOMAIN toClient : toClient[j].kind = "state" /\ toClient[j].snap = s
    BY <1>5 DEF Held, Messages
  <2>2. j <= k
    <3>1. j < k /\ j \in Int /\ k \in Int
      BY <1>0, <2>1
    <3> QED BY <3>1
  <2> QED BY <1>1, <1>2, <1>3, <2>1, <2>2 DEF ShownWithin
<1> QED BY <1>4, <1>5

LEMMA RefusalStep ==
  ASSUME ScriptInv, [ScriptNext]_scriptVars
  PROVE  RefusalComesLast'
<1> USE DEF ScriptInv
<1>0. /\ toClient \in Seq(ServerMessages) /\ toClient' \in Seq(ServerMessages)
      /\ OverTheLimit \in Requests /\ OverTheLimit # 0
  BY ScriptCoherent, Numbers DEF Coherent, DataOK
<1>1. /\ answered \subseteq answered'
      /\ OverTheLimit \in answered /\ Exercise \subseteq world.records =>
           Exercise \subseteq world'.records
  <2>1. OverTheLimit \in answered => cur # 0
    BY <1>0, NothingIssued DEF Coherent
  <2> QED BY <2>1, EffectsGrow
<1>2. ASSUME toClient' = toClient, future'[OverTheLimit] = Rejected => future[OverTheLimit] = Rejected
      PROVE  RefusalComesLast'
  BY <1>1, <1>2 DEF RefusalComesLast, ShownWithin
<1>3. CASE Server \/ Push
  <2>1. UNCHANGED <<world, future>>
    BY <1>3, PushStep DEF Server, ServerReady, ServerApply, ServerRefuse, ServerSync, ServerTick,
       ServerRepeat, ServerFault, ServerClose, pumpVars
  <2>2. ASSUME NEW k \in DOMAIN toClient', IsRefusal(toClient'[k])
        PROVE  OverTheLimit \in answered' /\ ShownWithin(k)'
    <3>1. CASE k \in DOMAIN toClient /\ toClient'[k] = toClient[k]
      <4>1. OverTheLimit \in answered' /\ ShownWithin(k)
        BY <1>1, <2>2, <3>1 DEF RefusalComesLast
      <4>2. ASSUME NEW j \in DOMAIN toClient, j <= k
            PROVE  j \in DOMAIN toClient' /\ toClient'[j] = toClient[j]
        <5>1. /\ DOMAIN toClient' = 1..Len(toClient') /\ DOMAIN toClient = 1..Len(toClient)
              /\ Len(toClient') \in Nat /\ Len(toClient) \in Nat
          BY <1>0
        <5>2. j \in DOMAIN toClient' /\ ~(j < j)
          BY <4>2, <5>1
        <5> QED BY <1>3, <5>2, ServerQueue
      <4> QED BY <2>1, <4>1, <4>2 DEF ShownWithin
    <3>2. CASE /\ \A j \in DOMAIN toClient :
                    j < k /\ j \in DOMAIN toClient' /\ toClient'[j] = toClient[j]
               /\ open /\ ServerRefuse /\ cur = OverTheLimit
      BY <1>0, <3>2, RefusalSent
    <3> QED BY <1>3, <2>2, <3>1, <3>2, ServerQueue
  <2> QED BY <1>1, <2>1, <2>2 DEF RefusalComesLast
<1>4. CASE Pump
  <2>1. CASE toClient = <<>> /\ toClient' = <<>>
    BY <1>1, <1>2, <1>4, <2>1, RefusalRead DEF SessionStep
  <2>2. CASE toClient # <<>>
    <3>1. /\ toClient' = Tail(toClient)
          /\ Head(toClient).kind # "state" => world' = world
          /\ Head(toClient).kind = "state" /\ Head(toClient).snap.run =>
                 Head(toClient).snap.records \subseteq world'.records
      BY <1>4, <2>2, PumpReads
    <3>2. /\ DOMAIN toClient' = 1..(Len(toClient) - 1) /\ DOMAIN toClient = 1..Len(toClient)
          /\ Len(toClient) \in Nat \ {0} /\ Head(toClient) = toClient[1]
          /\ \A k \in 1..(Len(toClient) - 1) : toClient'[k] = toClient[k + 1]
      BY <1>0, <2>2, <3>1, HeadOrTail
    <3>3. ASSUME NEW k \in DOMAIN toClient', IsRefusal(toClient'[k])
          PROVE  OverTheLimit \in answered' /\ ShownWithin(k)'
      <4>1. k + 1 \in DOMAIN toClient /\ toClient'[k] = toClient[k + 1] /\ k \in Nat
        BY <3>2, <3>3
      <4>2. OverTheLimit \in answered /\ ShownWithin(k + 1)
        BY <3>3, <4>1 DEF RefusalComesLast
      <4>3. CASE Exercise \subseteq world.records
        BY <1>1, <4>2, <4>3 DEF ShownWithin
      <4>4. ASSUME NEW j \in DOMAIN toClient, j <= k + 1, toClient[j].kind = "state",
                   toClient[j].snap.run, Exercise \subseteq toClient[j].snap.records
            PROVE  ShownWithin(k)'
        <5>1. CASE j = 1
          BY <3>1, <3>2, <4>4, <5>1 DEF ShownWithin
        <5>2. CASE j # 1
          <6>1. /\ j - 1 \in DOMAIN toClient' /\ j - 1 <= k
                /\ j - 1 \in 1..(Len(toClient) - 1) /\ (j - 1) + 1 = j
            BY <3>2, <4>1, <4>4, <5>2
          <6>2. toClient'[j - 1] = toClient[j]
            BY <3>2, <6>1
          <6> QED BY <4>4, <6>1, <6>2 DEF ShownWithin
        <5> QED BY <5>1, <5>2
      <4> QED BY <1>1, <4>2, <4>3, <4>4 DEF ShownWithin
    <3>4. future'[OverTheLimit] = Rejected =>
            OverTheLimit \in answered' /\ Exercise \subseteq world'.records
      <4>1. CASE future[OverTheLimit] = Rejected
        BY <1>1, <4>1 DEF RefusalComesLast
      <4>2. CASE IsRefusal(Head(toClient))
        <5>1. 1 \in DOMAIN toClient /\ OverTheLimit \in answered /\ ShownWithin(1)
          BY <3>2, <4>2 DEF RefusalComesLast
        <5>2. \A j \in DOMAIN toClient : j <= 1 => j = 1
          BY <3>2
        <5>3. Exercise \subseteq world.records
          BY <3>2, <4>2, <5>1, <5>2 DEF ShownWithin, IsRefusal
        <5> QED BY <1>1, <5>1, <5>3
      <4> QED BY <1>4, <4>1, <4>2, RefusalRead DEF SessionStep
    <3> QED BY <3>3, <3>4 DEF RefusalComesLast
  <2> QED BY <1>4, <2>1, <2>2, PumpReads
<1>5. CASE Handshake
  <2>1. OverTheLimit \notin answered /\ \A k \in DOMAIN toClient : ~IsRefusal(toClient[k])
    <3>1. cur = 0
      BY <1>5 DEF Handshake, HandshakeState, HandshakeReadiness, HandshakeClosed, Coherent,
         HandshakeFirst
    <3> QED BY <3>1, NothingIssued DEF Coherent, RefusalComesLast
  <2>2. toClient' = toClient \/ (toClient # <<>> /\ toClient' = Tail(toClient))
    BY <1>5 DEF Handshake, HandshakeState, HandshakeReadiness, HandshakeClosed, linkVars
  <2>3. \A k \in DOMAIN toClient' : ~IsRefusal(toClient'[k])
    <3>1. CASE toClient' = toClient
      BY <2>1, <3>1
    <3>2. CASE toClient # <<>> /\ toClient' = Tail(toClient)
      <4>1. Messages(toClient') \subseteq Messages(toClient)
        BY <1>0, <3>2, MessagesTail
      <4> QED BY <2>1, <4>1 DEF Messages
    <3> QED BY <2>2, <3>1, <3>2
  <2>4. future' = future
    BY <1>5 DEF Handshake, HandshakeState, HandshakeReadiness, HandshakeClosed
  <2> QED BY <2>1, <2>3, <2>4 DEF RefusalComesLast
<1>6. CASE Shutdown
  <2>1. toClient' = <<>> /\ DOMAIN toClient' = {}
    BY <1>6 DEF Shutdown
  <2>2. future'[OverTheLimit] = Rejected => future[OverTheLimit] = Rejected
    BY <1>6, RefusalRead DEF SessionStep, Shutdown, Pump, PumpState, PumpResult, PumpProtocolError,
       PumpUndecodable, PumpClosed, Receive, runnerVars
  <2> QED BY <1>1, <2>1, <2>2 DEF RefusalComesLast
<1>7. CASE SendStart \/ SendFlushed \/ SyncWait \/ Interrupt
  <2>1. toClient' = toClient
    BY <1>7 DEF SendStart, SendFlushed, SyncWait, Interrupt, linkVars
  <2>2. future'[OverTheLimit] = Rejected =>
          future[OverTheLimit] = Rejected
    <3>1. future' = future \/ SendStart
      BY <1>7 DEF SendFlushed, SyncWait, Interrupt
    <3>2. SendStart => future' = future \/ future' = [future EXCEPT ![cur] = Unset]
      BY DEF SendStart
    <3>3. Rejected # Unset
      BY DEF Rejected, Unset
    <3> QED BY <1>0, <3>1, <3>2, <3>3 DEF Coherent, DataOK
  <2> QED BY <1>2, <2>1, <2>2
<1>8. CASE ScriptStep \/ UNCHANGED vars
  BY <1>2, <1>8, ScriptStepKeeps DEF vars, linkVars, pumpVars
<1> QED BY <1>3, <1>4, <1>5, <1>6, <1>7, <1>8, StepsOfScript DEF SessionStep

-----------------------------------------------------------------------------
LEMMA ScriptInvInit == ScriptInit => ScriptInv
<1> SUFFICES ASSUME ScriptInit PROVE ScriptInv
  OBVIOUS
<1>1. toClient = <<State(Snapshot(1))>> /\ Messages(toClient) = {State(Snapshot(1))}
  BY DEF ScriptInit, Messages
<1>2. Held = {NoWorld, Snapshot(1)}
  BY <1>1 DEF ScriptInit, Held, State
<1>3. /\ Snapshot(1).run /\ Snapshot(1).seq = 1 /\ Snapshot(1).version = 2 /\ Snapshot(1).records = {}
      /\ NoWorld.run /\ NoWorld.seq = 0 /\ NoWorld.version = 0 /\ NoWorld.records = {}
  BY DEF ScriptInit, Snapshot, NoWorld
<1>4. DataOK
  <2>1. Snapshot(1) \in Snapshots /\ NoWorld \in Snapshots
    BY DEF ScriptInit, Snapshot, NoWorld, Snapshots, Phases
  <2>2. toClient \in Seq(ServerMessages)
    <3>1. State(Snapshot(1)) \in ServerMessages
      BY <2>1 DEF State, ServerMessages
    <3> QED BY <1>1, <3>1
  <2>3. outcome \in [kind : {"result"}, id : Requests \cup {NoRequest}, version : Nat]
    BY DEF ScriptInit, NoOutcome, Result
  <2>4. cur \in 0..MaxCommands
    BY BoundsAssumption DEF ScriptInit
  <2>5. future \in [Requests -> Futures] /\ toServer \in Seq(ClientMessages)
    BY DEF ScriptInit, Futures
  <2> QED BY <2>1, <2>2, <2>3, <2>4, <2>5 DEF ScriptInit, DataOK, Phases, PumpErrors
<1>5. SnapshotsAreSound /\ SnapshotsAreOrdered
  <2>1. seq = 1 /\ version = 2
    BY DEF ScriptInit
  <2> HIDE DEF Snapshot, NoWorld
  <2> QED BY <1>2, <1>3, <2>1 DEF SnapshotsAreSound, SnapshotsAreOrdered
<1>6. HandshakeFirst
  <2>1. toClient # <<>> /\ Head(toClient).kind = "state" /\ Head(toClient).snap.run
    BY <1>1, <1>3 DEF State
  <2> QED BY <1>3, <2>1 DEF HandshakeFirst, ScriptInit
<1>7. CommandInProgress /\ EffectsAreAnswered /\ OneCommandAtTheServer
  BY DEF ScriptInit, CommandInProgress, Sending, Reconciling, EffectsAreAnswered, OneCommandAtTheServer
<1>8. StepsTookEffect /\ ExerciseShown
  BY Numbers DEF ScriptInit, StepsTookEffect, ExerciseShown
<1>9. LatestShowsAll
  <2>1. Effective = {}
    BY DEF ScriptInit, Effective
  <2> QED BY <1>2, <1>3, <2>1 DEF LatestShowsAll
<1>10. RefusalComesLast
  <2>1. \A k \in DOMAIN toClient : ~IsRefusal(toClient[k])
    BY <1>1 DEF State, IsRefusal
  <2>2. future[OverTheLimit] # Rejected
    BY Numbers DEF ScriptInit, Unset, Rejected
  <2> QED BY <2>1, <2>2 DEF RefusalComesLast
<1> QED BY <1>4, <1>5, <1>6, <1>7, <1>8, <1>9, <1>10 DEF ScriptInv, Coherent

(* ScriptInv is an invariant of the exercise.                              *)
THEOREM ScriptInvariant == ScriptSpec => []ScriptInv
<1>1. ScriptInv /\ [ScriptNext]_scriptVars => ScriptInv'
  BY ScriptCoherent, StepsTookEffectStep, LatestShowsStep, RefusalStep, ExerciseShownStep DEF ScriptInv
<1> QED BY <1>1, ScriptInvInit, PTL DEF ScriptSpec

(* However many pushes, errors or delays there were that the guide does not*)
(* provide for, an exercise reported as completed ends with a snapshot of  *)
(* all its effects (scenario.py, the final sync of run_sample_scenario).   *)
THEOREM CompletedExercise == ScriptSpec => []CompletedIsComplete
<1>1. ScriptInv => CompletedIsComplete
  BY Numbers DEF ScriptInv, ExerciseShown, CompletedIsComplete
<1> QED BY <1>1, ScriptInvariant, PTL
-----------------------------------------------------------------------------
(* The inductive invariant behind HandledBeforeSending and                 *)
(* NoSpuriousFailure: where the exercise stands as long as the validator   *)
(* keeps to its guide.                                                     *)

(* Commands that have had their effect.                                    *)
effects == IF cur = 0 \/ cur \in answered \ {OverTheLimit} THEN cur ELSE cur - 1

Moved(at) == IF at = 0 THEN 0 ELSE 1

Syncing == {"SyncCheck", "SyncSleep"}

(* The world advances by the effects and by P02's two moves, which follow  *)
(* the offer and come before the next command.                             *)
Course ==
  /\ phase = "RUNNING" /\ takenAt = 0
  /\ cur \in answered \ {OverTheLimit} => applied[cur] # 0
  /\ acceptedAt \in {0, 6} /\ giftedAt \in {0, 7} /\ (giftedAt # 0 => acceptedAt # 0)
  /\ acceptedAt # 0 => OfferWater \in answered
  /\ cur > OfferWater => giftedAt # 0
  /\ version = 2 + effects + Moved(acceptedAt) + Moved(giftedAt)

(* The states among the messages q come in order, and after number n.      *)
Rising(q, n) ==
  \A k \in DOMAIN q : q[k].kind = "state" =>
    /\ n < q[k].snap.seq
    /\ \A j \in DOMAIN q : j < k /\ q[j].kind = "state" => q[j].snap.seq < q[k].snap.seq

(* Every version is pushed once, with the next number; one more state      *)
(* answers the sync.                                                       *)
InStep ==
  /\ \A s \in Held : /\ s.run
                     /\ s.seq # 0 => s.phase = "RUNNING" /\ (seq < version => s.version = s.seq + 1)
  /\ Rising(toClient, world.seq)
  /\ open => \E s \in Held : s.seq = seq

(* Until it is answered, a command or the sync was sent on the latest      *)
(* state there is.                                                         *)
CaughtUp ==
  /\ \/ seq + 1 = version
     \/ /\ seq = version /\ cur = OverTheLimit /\ cur \in answered
        /\ pc \in Syncing \cup {"Synced", "Stopping", "Stopped"}
  /\ cur # 0 /\ (cur \notin answered \/ (cur = OverTheLimit /\ seq < version)) => world.seq = seq

Alive ==
  /\ reason \in {"none", "completed", "interrupted"}
  /\ pc # "Stopped" => open /\ pumpError = "none" /\ pump # "ended"
  /\ pc = "Stopped" => toServer = <<>> /\ ~open /\ pump # "running"

(* The handshake: a state, its number confirmed, and nothing else.         *)
Greeting ==
  pump = "off" =>
    /\ cur = 0 /\ pc \in {"AwaitState", "AwaitReadiness", "Stopping", "Stopped"}
    /\ \A i \in Requests : future[i] = Unset
    /\ \A k \in DOMAIN toServer : toServer[k].kind = "ready"
    /\ pc = "AwaitState" =>
         /\ seq # 0 /\ toServer = <<>>
         /\ \E s \in Held : s.seq = seq /\ toClient = <<State(s)>>
    /\ pc = "AwaitReadiness" =>
         /\ world.seq # 0
         /\ \/ toServer = <<Ready(world.seq)>> /\ toClient = <<>>
            \/ toServer = <<>> /\ toClient = <<Readiness(world.seq, TRUE)>>

(* The reply that the guide has for the last command.                      *)
IsReply(m) ==
  \/ m.kind = "result" /\ m.id = cur /\ cur # OverTheLimit
  \/ m = ProtocolError(OverTheLimit, FALSE) /\ cur = OverTheLimit

(* Among states there is at most one reply, to a command that waits for it.*)
Replies ==
  pump = "running" =>
    /\ \A k \in DOMAIN toClient : toClient[k].kind # "state" =>
         /\ IsReply(toClient[k]) /\ cur \in answered /\ future[cur] = Unset
         /\ \A j \in DOMAIN toClient : toClient[j].kind # "state" => j = k
    /\ \A i \in Requests :
         \/ future[i] = Unset
         \/ future[i].kind = "result" /\ i \in answered /\ i # OverTheLimit
         \/ future[i] = Rejected /\ i \in answered /\ i = OverTheLimit

(* What is sent is sent when nothing is unread, and the validator pushes   *)
(* nothing before it has answered.                                         *)
OneAtATime ==
  pump = "running" =>
    /\ world.seq # 0 /\ pc \notin {"AwaitState", "AwaitReadiness"}
    /\ \/ toServer = <<>>
       \/ toServer = <<Command(cur)>> /\ toClient = <<>> /\ future[cur] = Unset
       \/ /\ toServer = <<Sync>> /\ toClient = <<>> /\ pc \in Syncing \cup {"Stopping"}
          /\ cur = OverTheLimit /\ cur \in answered /\ seq < version
    /\ pc \in {"Loop", "SendTask"} => toServer = <<>> /\ toClient = <<>>

(* What the waits rely on.                                                 *)
Waits ==
  /\ pc \in {"WaitTask", "WaitSleep"} => future[cur] # Unset
  /\ pc = "WaitSleep" /\ Awaited(world) => updated
  /\ pc \in Syncing => baseSeq + 1 = version /\ (toServer = <<Sync>> \/ seq = version)
  /\ pc = "SyncSleep" /\ world.seq > baseSeq => updated

Guided ==
  /\ Course /\ InStep /\ CaughtUp /\ Alive /\ Greeting /\ Replies /\ OneAtATime /\ Waits

-----------------------------------------------------------------------------
(* What the course says of the numbers.                                    *)

LEMMA CourseTypes ==
  ASSUME ScriptInv, Guided
  PROVE  /\ cur \in 0..6 /\ seq \in Nat /\ version \in Nat /\ baseSeq \in Nat
         /\ world \in Held /\ world \in Snapshots
         /\ toClient \in Seq(ServerMessages) /\ toServer \in Seq(ClientMessages)
         /\ \A s \in Held : /\ s \in Snapshots /\ s.seq \in Nat /\ s.version \in Nat /\ s.run
                            /\ s.seq <= seq /\ s.version <= version /\ s.records \subseteq answered
         /\ answered \subseteq 1..cur
         /\ \A i \in 1..6 : applied[i] # 0 => i \in answered
         /\ \A i \in 1..cur - 1 : i \in answered
<1> USE DEF ScriptInv, Guided, Coherent
<1>1. cur \in 0..6 /\ Requests = 1..6
  BY Numbers DEF DataOK
<1>2. \A s \in Held : /\ s \in Snapshots /\ s.seq \in Nat /\ s.version \in Nat /\ s.run
                     /\ s.seq <= seq /\ s.version <= version /\ s.records \subseteq answered
  BY HeldTypes DEF Snapshots, InStep, SnapshotsAreSound
<1>3. \A i \in 1..cur - 1 : i \in answered
  BY <1>1 DEF StepsTookEffect, EffectsAreAnswered
<1> QED BY <1>1, <1>2, <1>3 DEF DataOK, Held, EffectsAreAnswered

(* The pump runs from the end of the handshake to the stop.                *)
LEMMA PumpRuns ==
  ASSUME ScriptInv, Guided
  PROVE  /\ pc \notin {"AwaitState", "AwaitReadiness", "Stopping", "Stopped"} => pump = "running"
         /\ open => pc # "Stopped" /\ pump \in {"off", "running"}
         /\ pump = "running" => /\ open /\ pumpError = "none" /\ world.seq # 0
                                /\ world.phase = "RUNNING" /\ pc # "Stopped"
<1>1. pump \in {"off", "running", "ended"} /\ world \in Held
  BY DEF ScriptInv, Coherent, DataOK, Held
<1> QED BY <1>1 DEF Guided, Alive, Greeting, OneAtATime, InStep

(* A state without a successor is the world.                               *)
LEMMA NothingUnread ==
  ASSUME ScriptInv, Guided, open, toClient = <<>>
  PROVE  world.seq = seq /\ Held = {world}
<1>1. Held = {world}
  BY DEF Held, Messages
<1> QED BY <1>1 DEF Guided, InStep

(* A message in the queue that is a state is held.                         *)
LEMMA UnreadIsHeld ==
  ASSUME NEW k \in DOMAIN toClient, toClient[k].kind = "state"
  PROVE  toClient[k].snap \in Held
BY DEF Held, Messages

(* With the latest state read and no reply under way, nothing is unread.   *)
LEMMA AllRead ==
  ASSUME ScriptInv, Guided, pump = "running", cur \notin answered \/ future[cur] # Unset, world.seq = seq
  PROVE  toClient = <<>>
<1>1. \A k \in DOMAIN toClient : toClient[k].kind = "state"
  BY DEF Guided, Replies
<1>2. ASSUME NEW k \in DOMAIN toClient PROVE FALSE
  <2>1. toClient[k].snap \in Held /\ world.seq < toClient[k].snap.seq
    BY <1>1, UnreadIsHeld DEF Guided, InStep, Rising
  <2> QED BY <2>1, CourseTypes
<1>3. toClient \in Seq(ServerMessages)
  BY CourseTypes
<1> QED BY <1>2, <1>3

(* P02 moves between the offer's effect and the next command.              *)
LEMMA MovesAfterOffer ==
  ASSUME ScriptInv, Guided, PeerAccepts \/ PeerGives
  PROVE  /\ cur = OfferWater /\ cur \in answered /\ pump = "running"
         /\ toServer = <<>> /\ pc \notin {"Loop", "SendTask"} \cup Syncing
         /\ seq + 1 = version /\ (PeerAccepts => version = 5) /\ (PeerGives => version = 6)
<1>1. /\ OfferWater = 3 /\ OverTheLimit = 6 /\ cur \in 0..6 /\ answered \subseteq 1..cur
      /\ applied[3] # 0 => 3 \in answered
  BY Numbers, CourseTypes
<1>2. OfferWater \in answered /\ cur = 3
  BY <1>1 DEF PeerAccepts, PeerGives, Guided, Course
<1>3. open /\ pump # "ended"
  BY DEF PeerAccepts, PeerGives, Push, CanSend
<1>4. pump = "running"
  BY <1>2, <1>3, PumpRuns DEF Guided, Greeting
<1>5. pc \notin {"Loop", "SendTask"} \cup Syncing
  BY <1>1, <1>2 DEF ScriptInv, Coherent, OneCommandAtTheServer, StepsTookEffect, ExerciseShown, Syncing
<1>6. toServer = <<>>
  <2>1. toServer # <<Command(cur)>>
    <3>1. toServer = <<Command(cur)>> => 1 \in DOMAIN toServer /\ toServer[1].kind = "command"
      BY DEF Command
    <3> QED BY <1>2, <1>1, <3>1 DEF ScriptInv, Coherent, OneCommandAtTheServer
  <2> QED BY <1>1, <1>2, <1>4, <2>1 DEF Guided, OneAtATime
<1>7. seq + 1 = version
  BY <1>1, <1>2 DEF Guided, CaughtUp
<1>8. (PeerAccepts => version = 5) /\ (PeerGives => version = 6)
  BY <1>1, <1>2 DEF PeerAccepts, PeerGives, Guided, Course, effects, Moved
<1> QED BY <1>1, <1>2, <1>4, <1>5, <1>6, <1>7, <1>8
-----------------------------------------------------------------------------
(* The order of the states in the queue.                                   *)

LEMMA RisingAppend ==
  ASSUME NEW S, NEW q \in Seq(S), NEW m \in S, NEW n, Rising(q, n),
         m.kind = "state" =>
           /\ n < m.snap.seq
           /\ \A k \in DOMAIN q : q[k].kind = "state" => q[k].snap.seq < m.snap.seq
  PROVE  Rising(Append(q, m), n)
<1>1. /\ \A k \in DOMAIN Append(q, m) : \/ k \in DOMAIN q /\ Append(q, m)[k] = q[k]
                                        \/ k = Len(q) + 1 /\ Append(q, m)[k] = m
      /\ \A k \in DOMAIN q : k < Len(q) + 1
      /\ DOMAIN q = 1..Len(q) /\ Len(q) \in Nat
  BY QueueAppend
<1>2. \A j \in DOMAIN q : ~(Len(q) + 1 < j)
  BY <1>1
<1>3. ~(Len(q) + 1 < Len(q) + 1)
  BY <1>1
<1> QED BY <1>1, <1>2, <1>3 DEF Rising

LEMMA RisingTail ==
  ASSUME NEW S, NEW q \in Seq(S), q # <<>>, NEW n, Rising(q, n)
  PROVE  /\ Rising(Tail(q), n)
         /\ Head(q).kind = "state" => Rising(Tail(q), Head(q).snap.seq)
<1>1. /\ DOMAIN Tail(q) = 1..(Len(q) - 1) /\ DOMAIN q = 1..Len(q) /\ Len(q) \in Nat \ {0}
      /\ \A k \in 1..(Len(q) - 1) : Tail(q)[k] = q[k + 1]
      /\ Head(q) = q[1]
  BY HeadOrTail
<1>2. \A k \in 1..(Len(q) - 1) : k + 1 \in 1..Len(q) /\ 1 < k + 1
  BY <1>1
<1>3. \A j, k \in 1..(Len(q) - 1) : j < k => j + 1 < k + 1
  OBVIOUS
<1>4. 1 \in 1..Len(q)
  BY <1>1
<1> QED BY <1>1, <1>2, <1>3, <1>4 DEF Rising

LEMMA RisingShort ==
  /\ \A n : Rising(<<>>, n)
  /\ \A n, m : (m.kind = "state" => n < m.snap.seq) => Rising(<<m>>, n)
  /\ \A n, l, m : l.kind # "state" /\ (m.kind = "state" => n < m.snap.seq) =>
       Rising(<<l, m>>, n) /\ Rising(<<m, l>>, n)
<1>1. /\ DOMAIN <<>> = {} /\ \A m : DOMAIN <<m>> = {1} /\ <<m>>[1] = m
      /\ \A l, m : DOMAIN <<l, m>> = {1, 2} /\ <<l, m>>[1] = l /\ <<l, m>>[2] = m
  OBVIOUS
<1>2. ~(1 < 1) /\ ~(2 < 2) /\ ~(2 < 1)
  OBVIOUS
<1> QED BY <1>1, <1>2 DEF Rising

(* What is appended to a queue with an empty or a short past.              *)
LEMMA MessagesShort ==
  /\ Messages(<<>>) = {}
  /\ \A m : Messages(<<m>>) = {m} /\ Append(<<>>, m) = <<m>> /\ Tail(<<m>>) = <<>> /\ Head(<<m>>) = m
  /\ \A l, m : Messages(<<l, m>>) = {l, m} /\ Append(Append(<<>>, l), m) = <<l, m>>
<1>1. Messages(<<>>) = {}
  BY DEF Messages
<1>2. ASSUME NEW m
      PROVE  Messages(<<m>>) = {m} /\ Append(<<>>, m) = <<m>> /\ Tail(<<m>>) = <<>> /\ Head(<<m>>) = m
  <2>1. DOMAIN <<m>> = {1} /\ <<m>>[1] = m
    OBVIOUS
  <2>2. Messages(<<m>>) = {m}
    BY <2>1, Zenon DEF Messages
  <2>3. Append(<<>>, m) = <<m>> /\ Tail(<<m>>) = <<>> /\ Head(<<m>>) = m
    OBVIOUS
  <2> QED BY <2>2, <2>3
<1>3. ASSUME NEW l, NEW m
      PROVE  Messages(<<l, m>>) = {l, m} /\ Append(Append(<<>>, l), m) = <<l, m>>
  <2>1. DOMAIN <<l, m>> = {1, 2} /\ <<l, m>>[1] = l /\ <<l, m>>[2] = m
    OBVIOUS
  <2>2. Messages(<<l, m>>) = {l, m}
    BY <2>1, Zenon DEF Messages
  <2>3. Append(Append(<<>>, l), m) = <<l, m>>
    <3>1. Append(<<>>, l) = <<l>>
      OBVIOUS
    <3>2. Append(<<l>>, m) = <<l, m>>
      <4> DEFINE S == {l, m}
                 p == <<l>>
                 q == Append(p, m)
                 r == <<l, m>>
      <4>1. p \in Seq(S) /\ Len(p) = 1 /\ p[1] = l /\ m \in S
        OBVIOUS
      <4>2. r \in Seq(S) /\ Len(r) = 2 /\ r[1] = l /\ r[2] = m
        OBVIOUS
      <4> HIDE DEF p, r, S
      <4>3. q \in Seq(S) /\ Len(q) = 2 /\ q[1] = l /\ q[2] = m
        <5>1. /\ q \in Seq(S) /\ Len(q) = Len(p) + 1
              /\ \A i \in 1..Len(p) : q[i] = p[i]
              /\ q[Len(p) + 1] = m
          BY <4>1, AppendsOne, Zenon
        <5>2. 1 \in 1..Len(p) /\ Len(p) + 1 = 2
          BY <4>1
        <5> HIDE DEF q
        <5> QED BY <4>1, <5>1, <5>2
      <4> HIDE DEF q
      <4>4. \A i \in 1..Len(q) : q[i] = r[i]
        <5>1. 1..Len(q) = {1, 2}
          BY <4>3
        <5> QED BY <4>2, <4>3, <5>1
      <4>5. q = r
        BY <4>2, <4>3, <4>4, SeqEqual
      <4> QED BY <4>5 DEF p, q, r
    <3> QED BY <3>1, <3>2
  <2> QED BY <2>2, <2>3
<1> QED BY <1>1, <1>2, <1>3

-----------------------------------------------------------------------------
(* The validator's steps by its guide keep the exercise on its course.     *)

LEMMA GuidedConfirm ==
  ASSUME ScriptInv, Guided, Confirm
  PROVE  Guided'
<1> USE DEF Guided
<1> DEFINE m == Readiness(Head(toServer).seq, TRUE)
<1>1. /\ UNCHANGED <<serverVars, open, pumpVars, runnerVars, exerciseVars>>
      /\ open /\ toServer # <<>> /\ Head(toServer).kind = "ready" /\ toServer' = Tail(toServer)
  BY DEF Confirm, ServerReady, Reads
<1>2. toClient \in Seq(ServerMessages) /\ toServer \in Seq(ClientMessages)
  BY CourseTypes
<1>3. pump = "off"
  <2>1. CASE pump = "running"
    <3>1. Head(toServer).kind \in {"command", "sync"}
      BY <1>1, <2>1 DEF OneAtATime, Command, Sync
    <3> QED BY <1>1, <3>1
  <2> QED BY <1>1, <2>1, PumpRuns
<1>4. cur = 0 /\ pc \in {"AwaitReadiness", "Stopping"}
  BY <1>1, <1>3 DEF Greeting, Alive
<1>5. m \in ServerMessages /\ m.kind = "readiness" /\ toClient' = Append(toClient, m)
  <2>1. PICK ok \in BOOLEAN : toClient' = Append(toClient, Readiness(Head(toServer).seq, ok))
    BY DEF Confirm, ServerReady
  <2>2. Head(toServer).seq \in Nat
    <3>1. Head(toServer) \in ClientMessages
      BY <1>1, <1>2
    <3> QED BY <1>1, <3>1 DEF ClientMessages, Sync
  <2>3. \A b \in BOOLEAN : Readiness(Head(toServer).seq, b) \in ServerMessages
    BY <2>2 DEF Readiness, ServerMessages
  <2>4. toClient'[Len(toClient')] = Readiness(Head(toServer).seq, ok)
    BY <1>2, <2>1, <2>3
  <2>5. ok = TRUE
    BY <2>1, <2>4 DEF Confirm, Readiness
  <2> QED BY <2>1, <2>3, <2>5 DEF Readiness
<1> HIDE DEF m
<1>6. Held' = Held
  BY <1>1, <1>5, HeldGrows DEF pumpVars, ScriptInv, Coherent
<1>7. Course' /\ CaughtUp' /\ Alive' /\ Waits'
  BY <1>1, <1>3, <1>4 DEF Course, effects, CaughtUp, Alive, Waits, Syncing, serverVars, pumpVars,
     runnerVars, exerciseVars, peerVars
<1>8. InStep'
  <2>1. Rising(toClient', world.seq)
    BY <1>2, <1>5, RisingAppend DEF InStep
  <2> QED BY <1>1, <1>6, <2>1 DEF InStep, serverVars, pumpVars
<1>9. Greeting'
  <2>1. \A k \in DOMAIN toServer' : toServer'[k].kind = "ready"
    BY <1>1, <1>2, <1>3, HeadOrTail DEF Greeting
  <2>2. pc = "AwaitReadiness" => /\ toServer' = <<>> /\ toClient' = <<Readiness(world.seq, TRUE)>>
                                 /\ world.seq # 0
    <3> SUFFICES ASSUME pc = "AwaitReadiness"
                 PROVE  toServer' = <<>> /\ toClient' = <<Readiness(world.seq, TRUE)>> /\ world.seq # 0
      OBVIOUS
    <3>1. toServer = <<Ready(world.seq)>> /\ toClient = <<>> /\ world.seq # 0
      BY <1>1, <1>3 DEF Greeting
    <3>2. Ready(world.seq).seq = world.seq
      BY DEF Ready
    <3> HIDE DEF Ready
    <3>3. Head(toServer) = Ready(world.seq) /\ Tail(toServer) = <<>> /\ Append(toClient, m) = <<m>>
      BY <3>1, MessagesShort
    <3> QED BY <1>1, <1>5, <3>1, <3>2, <3>3 DEF m
  <2> QED BY <1>1, <1>3, <1>4, <2>1, <2>2 DEF Greeting, pumpVars, runnerVars
<1>10. Replies' /\ OneAtATime'
  BY <1>1, <1>3 DEF Replies, OneAtATime, pumpVars
<1> QED BY <1>7, <1>8, <1>9, <1>10

(* The command at hand is all there is on the connection.                  *)
LEMMA CommandAlone ==
  ASSUME ScriptInv, Guided, Reads("command"), pump # "ended"
  PROVE  /\ pump = "running" /\ toServer = <<Command(cur)>> /\ Head(toServer).id = cur /\ Tail(toServer) = <<>>
         /\ toClient = <<>> /\ future[cur] = Unset /\ Held = {world}
         /\ cur \in 1..6 /\ cur \notin answered /\ applied[cur] = 0
         /\ world.seq = seq /\ seq + 1 = version
         /\ pc \in {"Flushing", "AwaitResult", "Stopping"}
<1> USE DEF Guided
<1>1. open /\ toServer # <<>> /\ Head(toServer).kind = "command"
  BY DEF Reads
<1>2. /\ Head(toServer).id = cur /\ cur \in Requests /\ cur \notin answered
      /\ pc \in {"Flushing", "AwaitResult", "Stopping"}
  BY CommandRead DEF ScriptInv, Coherent
<1>3. pump = "running"
  <2>1. Head(toServer) = toServer[1] /\ 1 \in DOMAIN toServer
    BY <1>1, CourseTypes
  <2> QED BY <1>1, <2>1, PumpRuns DEF Greeting
<1>4. toServer = <<Command(cur)>> /\ toClient = <<>> /\ future[cur] = Unset
  BY <1>1, <1>3 DEF OneAtATime, Sync
<1>5. cur \in 1..6 /\ applied[cur] = 0
  BY <1>2, Numbers, CourseTypes
<1>6. world.seq = seq /\ seq + 1 = version
  BY <1>2, <1>5 DEF CaughtUp
<1>7. Tail(toServer) = <<>>
  BY <1>4, MessagesShort
<1> QED BY <1>1, <1>2, <1>3, <1>4, <1>5, <1>6, <1>7, NothingUnread

LEMMA GuidedObey ==
  ASSUME ScriptInv, Guided, Obey
  PROVE  Guided'
<1> USE DEF Guided
<1> DEFINE t == [Snapshot(seq + 1) EXCEPT !.version = version + 1, !.records = @ \cup {cur}]
<1>1. /\ pump = "running" /\ toServer = <<Command(cur)>> /\ Head(toServer).id = cur /\ Tail(toServer) = <<>>
      /\ toClient = <<>> /\ future[cur] = Unset /\ Held = {world}
      /\ cur \in 1..6 /\ cur \notin answered /\ applied[cur] = 0
      /\ world.seq = seq /\ seq + 1 = version
      /\ pc \in {"Flushing", "AwaitResult", "Stopping"}
  <2>1. Reads("command") /\ pump # "ended"
    BY DEF Obey, ServerApply, CanSend
  <2> QED BY <2>1, CommandAlone
<1>2. cur # OverTheLimit
  BY <1>1 DEF Obey
<1>3. /\ answered' = answered \cup {cur} /\ applied' = [applied EXCEPT ![cur] = version + 1]
      /\ version' = version + 1 /\ seq' = seq + 1 /\ toServer' = <<>> /\ open
      /\ UNCHANGED <<phase, failed, open, pumpVars, runnerVars, exerciseVars>>
  BY <1>1 DEF Obey, ServerApply, Reads
<1>4. PICK v \in {0, version + 1} : \/ toClient' = Append(Append(<<>>, Result(cur, v)), State(t))
                                    \/ toClient' = Append(Append(<<>>, State(t)), Result(cur, v))
  BY <1>1 DEF Obey, ServerApply
<1>5. /\ seq \in Nat /\ version \in Nat /\ cur \in 0..6 /\ Requests = 1..6 /\ OfferWater = 3
      /\ OverTheLimit = 6 /\ applied \in [Requests -> Nat] /\ world.seq \in Nat /\ answered \subseteq 1..cur
  BY CourseTypes, Numbers DEF ScriptInv, Coherent, DataOK
<1>6. t.run /\ t.seq = seq + 1 /\ t.version = version + 1 /\ t.phase = "RUNNING"
  BY DEF Snapshot, Course
<1> DEFINE l == Result(cur, v)
           m == State(t)
<1>7. l.kind = "result" /\ l.id = cur /\ m.kind = "state" /\ m.snap = t
  BY DEF Result, State
<1>8. toClient' = Append(Append(<<>>, l), m) \/ toClient' = Append(Append(<<>>, m), l)
  BY <1>4
<1> HIDE DEF t, l, m
<1>9. toClient' \in {<<l, m>>, <<m, l>>}
  BY <1>8, MessagesShort
<1>10. Held' = {world, t}
  <2>1. Messages(toClient') = {l, m}
    BY <1>9, MessagesShort
  <2> QED BY <1>3, <1>7, <2>1 DEF Held, pumpVars
<1>11. Course'
  <2>1. applied'[cur] = version + 1 /\ version + 1 # 0
    BY <1>1, <1>3, <1>5
  <2>2. effects' = effects + 1
    BY <1>1, <1>2, <1>3, <1>5 DEF effects, runnerVars
  <2>3. effects \in Int /\ Moved(acceptedAt) \in Int /\ Moved(giftedAt) \in Int
    BY <1>5 DEF effects, Moved
  <2> HIDE DEF effects
  <2> QED BY <1>3, <1>5, <2>1, <2>2, <2>3 DEF Course, runnerVars, exerciseVars, peerVars, Moved
<1>12. InStep'
  <2>1. Rising(toClient', world.seq)
    <3>1. world.seq < m.snap.seq /\ l.kind # "state"
      BY <1>1, <1>5, <1>6, <1>7
    <3> QED BY <1>9, <3>1, RisingShort
  <2>2. \A s \in Held : s.run /\ (s.seq # 0 => s.phase = "RUNNING" /\ s.version = s.seq + 1)
    BY <1>1, <1>5 DEF InStep
  <2> QED BY <1>1, <1>3, <1>5, <1>6, <1>10, <2>1, <2>2 DEF InStep, pumpVars
<1>13. CaughtUp' /\ Alive' /\ Greeting' /\ OneAtATime' /\ Waits'
  BY <1>1, <1>2, <1>3, <1>5 DEF CaughtUp, Alive, Greeting, OneAtATime, Waits, Syncing, pumpVars, runnerVars
<1>14. Replies'
  <2>1. \A k \in DOMAIN toClient' : toClient'[k].kind # "state" =>
          /\ toClient'[k] = l /\ \A j \in DOMAIN toClient' : toClient'[j].kind # "state" => j = k
    BY <1>7, <1>9
  <2> QED BY <1>1, <1>2, <1>3, <1>7, <2>1 DEF Replies, IsReply, pumpVars, runnerVars
<1> QED BY <1>11, <1>12, <1>13, <1>14

LEMMA GuidedMove ==
  ASSUME ScriptInv, Guided, PeerAccepts \/ PeerGives
  PROVE  Guided'
<1> USE DEF Guided
<1> DEFINE t == [Snapshot(seq + 1) EXCEPT !.version = version + 1]
           m == State(t)
<1>1. /\ cur = OfferWater /\ cur \in answered /\ pump = "running"
      /\ toServer = <<>> /\ pc \notin {"Loop", "SendTask"} \cup Syncing
      /\ seq + 1 = version /\ (PeerAccepts => version = 5) /\ (PeerGives => version = 6)
  BY MovesAfterOffer
<1>2. /\ version' = version + 1 /\ seq' = seq + 1 /\ toClient' = Append(toClient, m)
      /\ UNCHANGED <<phase, failed, answered, applied, toServer, open, pumpVars, runnerVars>>
      /\ UNCHANGED <<takenAt, strays>>
  BY DEF PeerAccepts, PeerGives, Push
<1>3. \/ acceptedAt = 0 /\ acceptedAt' = version + 1 /\ giftedAt' = giftedAt
      \/ acceptedAt # 0 /\ giftedAt = 0 /\ giftedAt' = version + 1 /\ acceptedAt' = acceptedAt
  BY DEF PeerAccepts, PeerGives
<1>4. /\ seq \in Nat /\ version \in Nat /\ cur \in 0..6 /\ Requests = 1..6 /\ OfferWater = 3
      /\ OverTheLimit = 6 /\ world.seq \in Nat /\ world.version \in Nat
      /\ world.seq <= seq /\ world.version <= version
  BY CourseTypes, Numbers
<1>5. t.run /\ t.seq = seq + 1 /\ t.version = version + 1 /\ t.phase = "RUNNING"
  BY DEF Snapshot, Course
<1>6. m.kind = "state" /\ m.snap = t /\ m \in ServerMessages
  <2>1. t \in Snapshots
    <3>1. Snapshot(seq + 1) \in Snapshots
      BY <1>4, MessageTypes DEF ScriptInv, Coherent
    <3> QED BY <1>4, <3>1 DEF Snapshots
  <2> QED BY <2>1, MessageTypes DEF State, ScriptInv, Coherent
<1> HIDE DEF t, m
<1>7. Held' = Held \cup {t}
  BY <1>2, <1>6, HeldGrows DEF pumpVars, ScriptInv, Coherent
<1>8. Course'
  <2>1. effects' = effects /\ effects = 3
    BY <1>1, <1>2, <1>4 DEF effects, runnerVars
  <2>2. \/ PeerAccepts /\ version = 5 /\ acceptedAt = 0 /\ acceptedAt' = 6 /\ giftedAt' = giftedAt
        \/ PeerGives /\ version = 6 /\ acceptedAt # 0 /\ giftedAt = 0 /\ giftedAt' = 7
           /\ acceptedAt' = acceptedAt
    BY <1>1 DEF PeerAccepts, PeerGives
  <2> QED BY <1>1, <1>2, <1>4, <2>1, <2>2 DEF Course, Moved, runnerVars
<1>9. InStep'
  <2>1. \A k \in DOMAIN toClient : toClient[k].kind = "state" => toClient[k].snap.seq < m.snap.seq
    <3> SUFFICES ASSUME NEW k \in DOMAIN toClient, toClient[k].kind = "state"
                 PROVE  toClient[k].snap.seq < m.snap.seq
      OBVIOUS
    <3>1. toClient[k].snap.seq \in Nat /\ toClient[k].snap.seq <= seq
      BY UnreadIsHeld, CourseTypes
    <3> QED BY <1>4, <1>5, <1>6, <3>1
  <2>2. world.seq < m.snap.seq
    BY <1>4, <1>5, <1>6
  <2>3. Rising(toClient', world.seq)
    BY <1>2, <1>6, <2>1, <2>2, RisingAppend, CourseTypes DEF InStep
  <2>4. \A s \in Held : s.run /\ (s.seq # 0 => s.phase = "RUNNING" /\ s.version = s.seq + 1)
    BY <1>1, <1>4 DEF InStep
  <2> QED BY <1>1, <1>2, <1>4, <1>5, <1>7, <2>3, <2>4 DEF InStep, pumpVars
<1>10. CaughtUp' /\ Alive' /\ Greeting' /\ OneAtATime'
  BY <1>1, <1>2, <1>4 DEF CaughtUp, Alive, Greeting, OneAtATime, Syncing, pumpVars, runnerVars
<1>11. Waits'
  <2>1. ~Awaited(world)'
    <3>1. ~(acceptedAt' \in 1..world.version) \/ ~(giftedAt' \in 1..world.version)
      BY <1>3, <1>4
    <3> QED BY <1>1, <1>2, <3>1 DEF Awaited, Accepted, Gifted, pumpVars, runnerVars
  <2> QED BY <1>1, <1>2, <2>1 DEF Waits, pumpVars, runnerVars, Syncing
<1>12. Replies'
  <2>1. /\ \A k \in DOMAIN toClient' : toClient'[k].kind # "state" =>
             k \in DOMAIN toClient /\ toClient'[k] = toClient[k]
        /\ \A k \in DOMAIN toClient : toClient'[k] = toClient[k]
    BY <1>2, <1>6, QueueAppend, CourseTypes
  <2> QED BY <1>1, <1>2, <2>1 DEF Replies, IsReply, pumpVars, runnerVars
<1> QED BY <1>8, <1>9, <1>10, <1>11, <1>12

LEMMA GuidedRefusal ==
  ASSUME ScriptInv, Guided, RefuseOverTheLimit
  PROVE  Guided'
<1> USE DEF Guided
<1> DEFINE m == ProtocolError(OverTheLimit, FALSE)
<1>1. /\ pump = "running" /\ toServer = <<Command(cur)>> /\ Head(toServer).id = cur /\ Tail(toServer) = <<>>
      /\ toClient = <<>> /\ future[cur] = Unset /\ Held = {world}
      /\ cur \in 1..6 /\ cur \notin answered /\ applied[cur] = 0
      /\ world.seq = seq /\ seq + 1 = version
      /\ pc \in {"Flushing", "AwaitResult", "Stopping"}
  <2>1. Reads("command") /\ pump # "ended"
    BY DEF RefuseOverTheLimit, ServerRefuse, CanSend
  <2> QED BY <2>1, CommandAlone
<1>2. cur = OverTheLimit
  BY <1>1 DEF RefuseOverTheLimit
<1>3. /\ answered' = answered \cup {cur} /\ toServer' = <<>> /\ open
      /\ UNCHANGED <<version, phase, failed, seq, applied, open, pumpVars, runnerVars, exerciseVars>>
  BY <1>1 DEF RefuseOverTheLimit, ServerRefuse, Reads
<1>4. toClient' = <<m>> /\ Messages(toClient') = {m}
  BY <1>1, MessagesShort DEF RefuseOverTheLimit
<1>5. /\ seq \in Nat /\ version \in Nat /\ Requests = 1..6 /\ OfferWater = 3 /\ OverTheLimit = 6
      /\ world.seq \in Nat /\ m.kind = "protocol_error"
  BY CourseTypes, Numbers DEF ProtocolError
<1> HIDE DEF m
<1>6. Held' = {world}
  BY <1>3, <1>4, <1>5 DEF Held, pumpVars
<1>7. Course'
  <2>1. effects' = effects
    BY <1>1, <1>2, <1>3, <1>5 DEF effects, runnerVars
  <2> QED BY <1>1, <1>2, <1>3, <1>5, <2>1 DEF Course, runnerVars, exerciseVars, peerVars
<1>8. InStep'
  <2>1. Rising(toClient', world.seq)
    BY <1>4, <1>5, RisingShort
  <2> QED BY <1>1, <1>3, <1>6, <2>1 DEF InStep, pumpVars
<1>9. CaughtUp' /\ Alive' /\ Greeting' /\ OneAtATime' /\ Waits'
  BY <1>1, <1>2, <1>3, <1>5 DEF CaughtUp, Alive, Greeting, OneAtATime, Waits, Syncing, pumpVars, runnerVars
<1>10. Replies'
  <2>1. DOMAIN toClient' = {1} /\ toClient'[1] = m
    BY <1>4
  <2> QED BY <1>1, <1>2, <1>3, <2>1 DEF Replies, IsReply, m, pumpVars, runnerVars
<1> QED BY <1>7, <1>8, <1>9, <1>10

LEMMA GuidedSync ==
  ASSUME ScriptInv, Guided, AnswerSync
  PROVE  Guided'
<1> USE DEF Guided
<1> DEFINE t == Snapshot(seq + 1)
           m == State(t)
<1>1. /\ seq' = seq + 1 /\ toServer' = Tail(toServer) /\ toClient' = Append(toClient, m)
      /\ UNCHANGED <<version, phase, failed, answered, applied, open, pumpVars, runnerVars, exerciseVars>>
      /\ open /\ toServer # <<>> /\ Head(toServer).kind = "sync" /\ pump # "ended"
  BY DEF AnswerSync, ServerSync, Reads, CanSend
<1>2. pump = "running"
  <2>1. Head(toServer) = toServer[1] /\ 1 \in DOMAIN toServer
    BY <1>1, CourseTypes
  <2> QED BY <1>1, <2>1, PumpRuns DEF Greeting
<1>3. /\ toServer = <<Sync>> /\ toClient = <<>> /\ pc \in Syncing \cup {"Stopping"}
      /\ cur = OverTheLimit /\ cur \in answered /\ seq < version
  <2>1. toServer # <<Command(cur)>>
    BY <1>1 DEF Command
  <2> QED BY <1>1, <1>2, <2>1 DEF OneAtATime
<1>4. toServer' = <<>> /\ toClient' = <<m>> /\ Messages(toClient') = {m}
  BY <1>1, <1>3, MessagesShort
<1>5. /\ seq \in Nat /\ version \in Nat /\ OverTheLimit = 6 /\ world.seq \in Nat
      /\ seq + 1 = version /\ world.seq = seq
  BY <1>3, CourseTypes, Numbers DEF CaughtUp
<1>6. m.kind = "state" /\ m.snap = t /\ t.run /\ t.seq = seq + 1 /\ t.phase = "RUNNING"
  BY DEF State, Snapshot, Course
<1> HIDE DEF t, m
<1>7. Held' = {world, t}
  BY <1>1, <1>4, <1>6 DEF Held, pumpVars
<1>8. Course' /\ CaughtUp' /\ Alive' /\ Greeting' /\ OneAtATime' /\ Waits'
  BY <1>1, <1>2, <1>3, <1>4, <1>5 DEF Course, effects, CaughtUp, Alive, Greeting, OneAtATime, Waits, Awaited,
     Accepted, Gifted, Syncing, pumpVars, runnerVars, exerciseVars, peerVars
<1>9. InStep'
  <2>1. Rising(toClient', world.seq)
    BY <1>4, <1>5, <1>6, RisingShort
  <2>2. world \in Held
    BY CourseTypes
  <2> QED BY <1>1, <1>5, <1>6, <1>7, <2>1, <2>2 DEF InStep, pumpVars
<1>10. Replies'
  <2>1. DOMAIN toClient' = {1} /\ toClient'[1] = m
    BY <1>4
  <2> QED BY <1>1, <1>2, <1>6, <2>1 DEF Replies, IsReply, pumpVars, runnerVars
<1> QED BY <1>8, <1>9, <1>10
-----------------------------------------------------------------------------
(* So do the session's.                                                    *)

LEMMA GuidedHandshake ==
  ASSUME ScriptInv, Guided, ScriptHandshake
  PROVE  Guided'
<1> USE DEF Guided
<1>1. /\ pc \in {"AwaitState", "AwaitReadiness"} /\ pump = "off" /\ cur = 0 /\ open
      /\ UNCHANGED <<serverVars, open, pumpError, future, updated, exerciseVars>>
      /\ seq \in Nat /\ version \in Nat
  <2>1. pc \in {"AwaitState", "AwaitReadiness"}
    BY DEF ScriptHandshake, Handshake, HandshakeState, HandshakeReadiness, HandshakeClosed
  <2>2. UNCHANGED <<serverVars, open, pumpError, future, updated, exerciseVars>>
    BY DEF ScriptHandshake, Handshake, HandshakeState, HandshakeReadiness, HandshakeClosed, linkVars
  <2> QED BY <2>1, <2>2, CourseTypes DEF Alive, ScriptInv, Coherent, HandshakeFirst
<1>2. answered = {} /\ seq + 1 = version /\ OverTheLimit = 6 /\ OfferWater = 3
  BY <1>1, Numbers, NothingIssued DEF ScriptInv, Coherent, CaughtUp
<1>3. CASE HandshakeState
  <2>1. PICK s \in Held : s.seq = seq /\ toClient = <<State(s)>> /\ seq # 0
    BY <1>1, <1>3 DEF HandshakeState, Greeting
  <2> DEFINE m == State(s)
  <2>2. m.kind = "state" /\ m.snap = s
    BY DEF State
  <2> HIDE DEF m
  <2>3. Head(toClient) = m /\ Tail(toClient) = <<>> /\ toServer = <<>>
    <3>1. toClient = <<m>>
      BY <2>1 DEF m
    <3> QED BY <1>1, <1>3, <3>1, MessagesShort DEF Greeting, HandshakeState
  <2>4. /\ toClient' = <<>> /\ world' = s /\ toServer' = Append(<<>>, Ready(s.seq))
        /\ pc' = "AwaitReadiness" /\ UNCHANGED <<pump, pending, cur, outcome, baseSeq, reason>>
    BY <1>1, <1>3, <2>2, <2>3 DEF HandshakeState, Goto
  <2>5. toServer' = <<Ready(s.seq)>> /\ Messages(toClient') = {} /\ Ready(s.seq).kind = "ready"
    BY <2>4, MessagesShort DEF Ready
  <2>6. Held' = {s}
    BY <2>4, <2>5 DEF Held
  <2>7. InStep'
    <3>1. Rising(toClient', s.seq)
      BY <2>4, RisingShort
    <3> QED BY <1>1, <2>1, <2>4, <2>6, <3>1 DEF InStep, serverVars
  <2>8. Greeting'
    <3>1. DOMAIN toServer' = {1} /\ toServer'[1] = Ready(s.seq)
      BY <2>5
    <3> QED BY <1>1, <2>1, <2>4, <2>5, <3>1 DEF Greeting, serverVars
  <2>9. Course' /\ CaughtUp' /\ Alive' /\ Replies' /\ OneAtATime' /\ Waits'
    BY <1>1, <1>2, <2>4 DEF Course, effects, CaughtUp, Alive, Replies, OneAtATime, Waits, Syncing,
       serverVars, exerciseVars, peerVars
  <2> QED BY <2>7, <2>8, <2>9
<1>4. CASE HandshakeReadiness
  <2> DEFINE m == Readiness(world.seq, TRUE)
  <2>1. toServer = <<>> /\ toClient = <<m>> /\ world.seq # 0 /\ pc = "AwaitReadiness"
    BY <1>1, <1>4 DEF HandshakeReadiness, Greeting
  <2>2. m.kind = "readiness" /\ m.ready /\ m.seq = world.seq
    BY DEF Readiness
  <2> HIDE DEF m
  <2>3. Head(toClient) = m /\ Tail(toClient) = <<>> /\ Messages(toClient) = {m}
    BY <2>1, MessagesShort
  <2>4. /\ toClient' = <<>> /\ pump' = "running" /\ pc' = "Loop"
        /\ UNCHANGED <<toServer, world, pending, cur, outcome, baseSeq, reason>>
    BY <1>4, <2>2, <2>3 DEF HandshakeReadiness, Goto
  <2>5. Held = {world} /\ Held' = {world} /\ DOMAIN toClient' = {}
    <3>1. Messages(toClient') = {}
      BY <2>4, MessagesShort
    <3> QED BY <2>2, <2>3, <2>4, <3>1 DEF Held
  <2>6. InStep'
    <3>1. Rising(toClient', world.seq)
      BY <2>4, RisingShort
    <3> QED BY <1>1, <2>4, <2>5, <3>1 DEF InStep, serverVars
  <2>7. Replies'
    BY <1>1, <2>4, <2>5 DEF Greeting, Replies
  <2>8. Course' /\ CaughtUp' /\ Alive' /\ Greeting' /\ OneAtATime' /\ Waits'
    BY <1>1, <1>2, <2>1, <2>4 DEF Course, effects, CaughtUp, Alive, Greeting, OneAtATime, Waits, Syncing,
       serverVars, exerciseVars, peerVars
  <2> QED BY <2>6, <2>7, <2>8
<1>5. CASE HandshakeClosed
  BY <1>1, <1>5 DEF HandshakeClosed
<1> QED BY <1>3, <1>4, <1>5 DEF ScriptHandshake, Handshake

(* The pump reads the next state, or the one reply.                        *)
LEMMA GuidedPump ==
  ASSUME ScriptInv, Guided, ScriptPump
  PROVE  Guided'
<1> USE DEF Guided
<1> DEFINE m == Head(toClient)
<1>1. /\ pump = "running" /\ open /\ pumpError = "none" /\ pc # "Stopped"
      /\ UNCHANGED <<serverVars, toServer, open, runnerVars, exerciseVars>>
  <2>1. pump = "running"
    BY DEF ScriptPump, Pump, PumpState, PumpResult, PumpProtocolError, PumpUndecodable, PumpClosed, Receive
  <2>2. UNCHANGED <<serverVars, toServer, open, runnerVars, exerciseVars>>
    BY DEF ScriptPump, Pump, PumpState, PumpResult, PumpProtocolError, PumpUndecodable, PumpClosed, linkVars
  <2> QED BY <2>1, <2>2, PumpRuns
<1>2. toClient # <<>> /\ toClient' = Tail(toClient) /\ ~PumpClosed
  BY <1>1 DEF ScriptPump, Pump, PumpState, PumpResult, PumpProtocolError, PumpUndecodable, PumpClosed, Receive
<1>3. /\ DOMAIN toClient' = 1..(Len(toClient) - 1) /\ DOMAIN toClient = 1..Len(toClient)
      /\ Len(toClient) \in Nat \ {0} /\ m = toClient[1] /\ 1 \in DOMAIN toClient
      /\ \A k \in DOMAIN toClient' : k + 1 \in DOMAIN toClient /\ toClient'[k] = toClient[k + 1] /\ k + 1 # 1
      /\ \A n \in Messages(toClient) : n = m \/ n \in Messages(toClient')
      /\ Messages(toClient') \subseteq Messages(toClient)
  <2>1. toClient \in Seq(ServerMessages)
    BY CourseTypes
  <2>2. /\ DOMAIN toClient' = 1..(Len(toClient) - 1) /\ DOMAIN toClient = 1..Len(toClient)
        /\ Len(toClient) \in Nat \ {0} /\ m = toClient[1]
        /\ \A k \in 1..(Len(toClient) - 1) : toClient'[k] = toClient[k + 1]
        /\ \A n \in Messages(toClient) : n = m \/ n \in Messages(toClient')
        /\ Messages(toClient') \subseteq Messages(toClient)
    BY <1>2, <2>1, HeadOrTail, MessagesTail
  <2> HIDE DEF m
  <2> QED BY <2>2
<1>4. toServer = <<>> /\ pc \notin {"Loop", "SendTask"}
  BY <1>1, <1>2 DEF OneAtATime
<1>5. /\ cur \in 0..6 /\ Requests = 1..6 /\ OverTheLimit = 6 /\ seq \in Nat
      /\ world \in Held /\ toClient \in Seq(ServerMessages)
      /\ \A s \in Held : s.seq \in Nat /\ s.seq <= seq /\ s.run
  BY CourseTypes, Numbers
<1>6. CASE m.kind = "state"
  <2> DEFINE s == m.snap
  <2>1. s \in Held /\ world.seq < s.seq /\ s.run /\ s.seq <= seq /\ s.seq \in Nat /\ world.seq \in Nat
    <3>1. s \in Held /\ world.seq < s.seq
      BY <1>3, <1>6, UnreadIsHeld DEF InStep, Rising
    <3> QED BY <1>5, <3>1
  <2>2. Rising(toClient', s.seq)
    BY <1>2, <1>5, <1>6, RisingTail DEF InStep
  <2>3. s.seq > world.seq
    BY <2>1
  <2>4. PumpState
    BY <1>2, <1>6 DEF ScriptPump, Pump, PumpResult, PumpProtocolError, PumpUndecodable, Receive
  <2>5. world' = s /\ updated' = TRUE /\ UNCHANGED <<pump, pumpError, future>>
    BY <2>1, <2>3, <2>4 DEF PumpState, Newer, Replace
  <2>6. \A k \in DOMAIN toClient' : toClient'[k].kind # "state" =>
          \A j \in DOMAIN toClient' : toClient'[j].kind # "state" => j = k
    <3> SUFFICES ASSUME NEW k \in DOMAIN toClient', toClient'[k].kind # "state",
                        NEW j \in DOMAIN toClient', toClient'[j].kind # "state"
                 PROVE  j = k
      OBVIOUS
    <3>1. j + 1 = k + 1 /\ j \in Nat /\ k \in Nat
      BY <1>1, <1>3 DEF Replies
    <3> QED BY <3>1
  <2> HIDE DEF m
  <2>7. InStep'
    <3>1. Held' \subseteq Held
      BY <1>3, <2>1, <2>5 DEF Held
    <3>2. \E r \in Held' : r.seq = seq
      <4>1. PICK r \in Held : r.seq = seq
        BY <1>1 DEF InStep
      <4>2. r # world
        BY <2>1, <4>1
      <4>3. r = s \/ r \in Held'
        BY <1>3, <4>2 DEF Held
      <4>4. s \in Held'
        BY <2>5 DEF Held
      <4> QED BY <4>1, <4>3, <4>4
    <3> QED BY <1>1, <2>2, <2>5, <3>1, <3>2 DEF InStep, serverVars
  <2>8. ~(cur # 0 /\ (cur \notin answered \/ (cur = OverTheLimit /\ seq < version)))
    BY <2>1 DEF CaughtUp
  <2>9. Course' /\ CaughtUp' /\ Alive' /\ Greeting' /\ OneAtATime' /\ Waits'
    <3>1. world'.seq # 0
      BY <2>1, <2>5
    <3> QED BY <1>1, <1>4, <2>5, <2>8, <3>1 DEF Course, effects, CaughtUp, Alive, Greeting, OneAtATime,
              Waits, serverVars, runnerVars, exerciseVars, peerVars
  <2>10. Replies'
    <3>1. \A k \in DOMAIN toClient' : toClient'[k].kind # "state" =>
            IsReply(toClient'[k]) /\ cur \in answered /\ future[cur] = Unset
      BY <1>1, <1>3 DEF Replies
    <3>2. cur' = cur /\ answered' = answered /\ future' = future
      BY <1>1, <2>5 DEF serverVars, runnerVars
    <3> QED BY <1>1, <2>6, <3>1, <3>2 DEF Replies, IsReply
  <2> QED BY <2>7, <2>9, <2>10
<1>7. CASE m.kind # "state"
  <2>1. /\ IsReply(m) /\ cur \in answered /\ future[cur] = Unset
        /\ \A k \in DOMAIN toClient : toClient[k].kind # "state" => k = 1
    BY <1>1, <1>3, <1>7 DEF Replies
  <2>2. cur \in Requests /\ future \in [Requests -> Futures]
    BY <1>5, <2>1, CourseTypes DEF ScriptInv, Coherent, DataOK
  <2>3. \A k \in DOMAIN toClient' : toClient'[k].kind = "state"
    BY <1>3, <2>1
  <2>4. /\ UNCHANGED <<world, pump, pumpError, updated>>
        /\ \/ future' = future
           \/ \E v : /\ future' = [future EXCEPT ![cur] = v]
                     /\ \/ v.kind = "result" /\ cur # OverTheLimit
                        \/ v = Rejected /\ cur = OverTheLimit
    <3>1. CASE m.kind = "result" /\ m.id = cur /\ cur # OverTheLimit
      <4>1. PumpResult
        BY <1>2, <3>1 DEF ScriptPump, Pump, PumpState, PumpProtocolError, PumpUndecodable, Receive
      <4> QED BY <3>1, <4>1 DEF PumpResult, Settle
    <3>2. CASE m = ProtocolError(OverTheLimit, FALSE) /\ cur = OverTheLimit
      <4>1. m.kind = "protocol_error" /\ m.id = cur /\ m.close = FALSE /\ m.id # NoRequest
        BY <1>5, <3>2 DEF ProtocolError, NoRequest
      <4>2. PumpProtocolError
        BY <1>2, <4>1 DEF ScriptPump, Pump, PumpState, PumpResult, PumpUndecodable, Receive
      <4> QED BY <3>2, <4>1, <4>2 DEF PumpProtocolError, Settle
    <3> QED BY <2>1, <3>1, <3>2 DEF IsReply
  <2>5. Held' = Held
    BY <1>3, <1>7, <2>4 DEF Held
  <2>6. InStep'
    <3>1. Rising(toClient', world.seq)
      BY <1>2, <1>5, RisingTail DEF InStep
    <3> QED BY <1>1, <2>4, <2>5, <3>1 DEF InStep, serverVars
  <2>7. Replies'
    <3>1. \A i \in Requests :
         \/ future'[i] = Unset
         \/ future'[i].kind = "result" /\ i \in answered /\ i # OverTheLimit
         \/ future'[i] = Rejected /\ i \in answered /\ i = OverTheLimit
      BY <1>1, <2>1, <2>2, <2>4 DEF Replies
    <3> QED BY <1>1, <2>3, <3>1 DEF Replies, serverVars
  <2>8. pc \notin {"WaitTask", "WaitSleep"}
    BY <2>1 DEF Waits
  <2>9. Course' /\ CaughtUp' /\ Alive' /\ Greeting' /\ OneAtATime' /\ Waits'
    BY <1>1, <1>4, <2>4, <2>8 DEF Course, effects, CaughtUp, Alive, Greeting, OneAtATime,
       Waits, serverVars, runnerVars, exerciseVars, peerVars
  <2> QED BY <2>6, <2>7, <2>9
<1> QED BY <1>6, <1>7

LEMMA GuidedShutdown ==
  ASSUME ScriptInv, Guided, ScriptShutdown
  PROVE  Guided'
<1> USE DEF Guided
<1>1. /\ pc = "Stopping" /\ pc' = "Stopped" /\ open' = FALSE /\ toServer' = <<>> /\ toClient' = <<>>
      /\ UNCHANGED <<serverVars, world, cur, baseSeq, reason, exerciseVars>>
      /\ pump \in {"off", "running"}
      /\ IF pump = "running" THEN pump' = "ended" ELSE UNCHANGED <<pump, future>>
  BY PumpRuns DEF ScriptShutdown, Shutdown, PumpEnd, Alive
<1>2. Messages(toClient') = {} /\ DOMAIN toServer' = {}
  BY <1>1, MessagesShort
<1>3. Held' = {world} /\ world \in Held
  BY <1>1, <1>2 DEF Held
<1>4. InStep'
  <2>1. Rising(toClient', world.seq)
    BY <1>1, RisingShort
  <2> QED BY <1>1, <1>3, <2>1 DEF InStep, serverVars
<1>5. Greeting' /\ pump' \in {"off", "ended"}
  BY <1>1, <1>2 DEF Greeting
<1>6. Course' /\ CaughtUp' /\ Alive' /\ Replies' /\ OneAtATime' /\ Waits'
  BY <1>1, <1>5 DEF Course, effects, CaughtUp, Alive, Replies, OneAtATime, Waits, Syncing, serverVars,
     exerciseVars, peerVars
<1> QED BY <1>4, <1>5, <1>6
-----------------------------------------------------------------------------
(* And the script's.                                                       *)

LEMMA InStepKept ==
  ASSUME InStep, UNCHANGED <<seq, version, world, toClient, open>>
  PROVE  InStep'
<1>1. Held' = Held
  BY DEF Held, Messages
<1> QED BY <1>1 DEF InStep

(* A wait ends with the latest state, and not before all that it waits for.*)
LEMMA WaitEnds ==
  ASSUME ScriptInv, Guided, pc \in {"WaitTask", "WaitSleep"}
  PROVE  /\ pump = "running" /\ cur \in 1..5 /\ cur \in answered /\ cur + 1 \notin answered
         /\ seq + 1 = version /\ effects = cur
         /\ Awaited(world) => world.seq = seq /\ (cur = OfferWater => giftedAt # 0)
         /\ world.seq = seq /\ (cur = OfferWater => giftedAt # 0) => Awaited(world)
<1> USE DEF Guided
<1>1. /\ cur \in 1..5 /\ applied[cur] # 0 /\ OfferWater = 3 /\ AcceptGift = 4 /\ OverTheLimit = 6
  BY Numbers DEF ScriptInv, StepsTookEffect
<1>2. cur \in answered /\ cur + 1 \notin answered /\ effects = cur
  BY <1>1, CourseTypes DEF effects
<1>3. pump = "running" /\ world.seq # 0
  BY PumpRuns
<1>4. seq + 1 = version
  BY <1>1 DEF CaughtUp
<1>5. /\ seq \in Nat /\ world.seq \in Nat /\ world.version \in Nat /\ version \in Nat
      /\ world.version <= version /\ world.version = world.seq + 1 /\ world.records \subseteq answered
  <2>1. /\ seq \in Nat /\ world.seq \in Nat /\ world.version \in Nat /\ version \in Nat /\ world \in Held
        /\ world.version <= version /\ world.records \subseteq answered
    BY CourseTypes
  <2> QED BY <1>3, <1>4, <2>1 DEF InStep
<1>6. /\ version = 2 + cur + Moved(acceptedAt) + Moved(giftedAt) /\ takenAt = 0
      /\ acceptedAt \in {0, 6} /\ giftedAt \in {0, 7} /\ (giftedAt # 0 => acceptedAt # 0)
      /\ (acceptedAt # 0 => 3 \in answered) /\ (cur > 3 => giftedAt # 0)
  BY <1>1, <1>2 DEF Course
<1>7. 3 \in answered => cur >= 3
  BY <1>1, CourseTypes
<1>8. CASE cur = 3
  <2>1. Awaited(world) <=> Accepted(world) /\ Gifted(world)
    BY <1>1, <1>8 DEF Awaited
  <2>2. Gifted(world) => giftedAt = 7 /\ world.version >= 7
    BY <1>5, <1>6 DEF Gifted
  <2>3. giftedAt # 0 => version = 7
    BY <1>6, <1>8 DEF Moved
  <2>4. giftedAt # 0 /\ world.version = 7 => Accepted(world) /\ Gifted(world)
    <3>1. 4 \notin world.records
      BY <1>2, <1>5, <1>8
    <3> QED BY <1>1, <1>6, <3>1 DEF Accepted, Gifted
  <2>5. Awaited(world) => world.seq = seq /\ giftedAt # 0
    BY <1>4, <1>5, <2>1, <2>2, <2>3
  <2>6. world.seq = seq /\ giftedAt # 0 => Awaited(world)
    BY <1>4, <1>5, <2>1, <2>3, <2>4
  <2> QED BY <1>1, <1>2, <1>3, <1>4, <1>8, <2>5, <2>6
<1>9. CASE cur # 3
  <2>1. Awaited(world) <=> world.version >= ShownFrom[cur]
    BY <1>1, <1>9 DEF Awaited
  <2>2. version = ShownFrom[cur]
    <3>1. CASE cur \in {1, 2}
      <4>1. acceptedAt = 0 /\ giftedAt = 0
        BY <1>6, <1>7, <3>1
      <4> QED BY <1>6, <3>1, <4>1 DEF Moved, ShownFrom
    <3>2. CASE cur \in {4, 5}
      <4>1. acceptedAt # 0 /\ giftedAt # 0
        BY <1>6, <3>2
      <4> QED BY <1>6, <3>2, <4>1 DEF Moved, ShownFrom
    <3> QED BY <1>1, <1>9, <3>1, <3>2
  <2>3. Awaited(world) <=> world.seq = seq
    BY <1>4, <1>5, <2>1, <2>2
  <2> QED BY <1>1, <1>2, <1>3, <1>4, <1>9, <2>3
<1> QED BY <1>8, <1>9

(* The gift is there when the script accepts it.                           *)
LEMMA GiftIsThere ==
  ASSUME ScriptInv, Guided, pc = "SendTask"
  PROVE  ~GiftIsGone
<1> USE DEF Guided
<1> SUFFICES ASSUME cur = AcceptGift PROVE Gifted(world)
  BY DEF GiftIsGone
<1>1. /\ AcceptGift = 4 /\ OverTheLimit = 6 /\ OfferWater = 3 /\ cur = 4
  BY Numbers
<1>2. 4 \notin answered /\ pump = "running" /\ world.seq # 0
  BY <1>1, PumpRuns DEF ScriptInv, Coherent, OneCommandAtTheServer
<1>3. effects = 3 /\ world.seq = seq /\ seq + 1 = version
  BY <1>1, <1>2 DEF effects, CaughtUp
<1>4. giftedAt = 7 /\ takenAt = 0 /\ version = 7
  BY <1>1, <1>3 DEF Course, Moved
<1>5. world.version = 7 /\ world.records \subseteq answered
  <2>1. world \in Held /\ world.records \subseteq answered /\ seq \in Nat
    BY CourseTypes
  <2> QED BY <1>2, <1>3, <1>4, <2>1 DEF InStep
<1> QED BY <1>1, <1>2, <1>4, <1>5 DEF Gifted

(* No reply is other than the guide says.                                  *)
LEMMA NoStepFails ==
  ASSUME ScriptInv, Guided, strays = 0
  PROVE  ~StepFailed /\ ~ObjectMissing /\ ~LimitDenied /\ ~GiftIsGone
<1> USE DEF Guided
<1>1. ASSUME StepFailed PROVE FALSE
  <2>1. pc = "AwaitResult" /\ pump = "running" /\ cur \in Requests
    BY <1>1, PumpRuns, CurrentRequest DEF StepFailed, ScriptInv, Coherent, Sending
  <2>2. \/ future[cur] = Unset
        \/ future[cur].kind = "result" /\ cur \in answered /\ cur # OverTheLimit
        \/ future[cur] = Rejected /\ cur = OverTheLimit
    BY <2>1 DEF Replies
  <2>3. cur \in answered /\ cur # OverTheLimit => applied[cur] # 0
    BY DEF Course
  <2>4. /\ Unset.kind # "result" /\ Rejected.kind # "result" /\ Disconnected.kind # "result"
        /\ Unset # Rejected /\ Unset # Disconnected /\ Rejected # Disconnected
    BY DEF Unset, Rejected, Disconnected
  <2>5. \/ future[cur].kind = "result" /\ (cur = OverTheLimit \/ applied[cur] = 0)
        \/ future[cur] = Rejected /\ cur # OverTheLimit
        \/ future[cur] = Disconnected
    BY <1>1 DEF StepFailed
  <2> QED BY <2>2, <2>3, <2>4, <2>5
<1>2. ~LimitDenied /\ ~ObjectMissing
  BY DEF LimitDenied, ObjectMissing
<1> QED BY <1>1, <1>2, GiftIsThere DEF GiftIsGone

(* No wait gives up: whatever it waits for arrives, and wakes it.          *)
LEMMA NoWaitFails ==
  ASSUME ScriptInv, Guided, strays = 0, strays' = 0
  PROVE  ~Deadline
<1> USE DEF Guided
<1> SUFFICES ASSUME Deadline PROVE FALSE
  OBVIOUS
<1>1. NothingDue
  BY DEF Deadline
<1>2. toServer = <<>> /\ toClient = <<>> /\ pc \in {"WaitSleep", "SyncSleep"} /\ ~updated
      /\ (applied[OfferWater] # 0 => giftedAt # 0)
  BY <1>1 DEF NothingDue
<1>3. world.seq = seq
  BY <1>2, PumpRuns, NothingUnread
<1>4. CASE pc = "WaitSleep"
  <2>1. cur = OfferWater => giftedAt # 0
    BY <1>2, <1>4 DEF ScriptInv, StepsTookEffect
  <2> QED BY <1>2, <1>3, <1>4, <2>1, WaitEnds DEF Waits
<1>5. CASE pc = "SyncSleep"
  <2>1. baseSeq + 1 = version /\ seq = version /\ (world.seq > baseSeq => updated)
    BY <1>2, <1>5 DEF Waits, Syncing
  <2>2. baseSeq \in Nat /\ seq \in Nat
    BY CourseTypes
  <2> QED BY <1>2, <1>3, <2>1, <2>2
<1> QED BY <1>2, <1>4, <1>5

LEMMA GuidedStop ==
  ASSUME ScriptInv, Guided, pc # "Stopped", pc' = "Stopping", reason' \in {"completed", "interrupted"},
         UNCHANGED <<serverVars, linkVars, world, pump, pumpError, future, cur, exerciseVars>>
  PROVE  Guided'
<1> USE DEF Guided
<1>1. InStep'
  BY InStepKept DEF serverVars, linkVars
<1>2. /\ Course' /\ CaughtUp' /\ Alive' /\ Greeting' /\ Replies' /\ Waits'
  BY Zenon DEF Course, effects, CaughtUp, Alive, Greeting, Held, Messages, Replies, IsReply, Waits, Syncing,
     serverVars, linkVars, exerciseVars, peerVars
<1>3. OneAtATime'
  BY DEF OneAtATime, Syncing, serverVars, linkVars
<1> QED BY <1>1, <1>2, <1>3

LEMMA GuidedBegin ==
  ASSUME ScriptInv, Guided, Begin
  PROVE  Guided'
<1> USE DEF Guided
<1>1. /\ pc = "Loop" /\ cur' = 1 /\ pc' = "SendTask" /\ reason' = reason
      /\ UNCHANGED <<serverVars, linkVars, pumpVars, outcome, baseSeq, exerciseVars>>
  BY DEF Begin, Goto
<1>2. /\ cur = 0 /\ answered = {} /\ OverTheLimit = 6 /\ OfferWater = 3
      /\ pump = "running" /\ toServer = <<>> /\ toClient = <<>> /\ open
  BY <1>1, Numbers, NothingIssued, PumpRuns DEF ScriptInv, Coherent, StepsTookEffect, OneAtATime
<1>3. world.seq = seq /\ seq + 1 = version
  BY <1>2, NothingUnread DEF CaughtUp
<1>4. InStep'
  BY <1>1, InStepKept DEF serverVars, linkVars, pumpVars
<1>5. Course' /\ CaughtUp' /\ Alive' /\ Greeting' /\ OneAtATime' /\ Waits'
  BY <1>1, <1>2, <1>3 DEF Course, effects, CaughtUp, Alive, Greeting, OneAtATime, Waits, Syncing, serverVars,
     linkVars, pumpVars, exerciseVars, peerVars
<1>6. Replies'
  <2>1. DOMAIN toClient' = {}
    BY <1>1, <1>2 DEF linkVars
  <2> QED BY <1>1, <2>1 DEF Replies, serverVars, pumpVars
<1> QED BY <1>4, <1>5, <1>6

LEMMA GuidedSend ==
  ASSUME ScriptInv, Guided, ScriptSend
  PROVE  Guided'
<1> USE DEF Guided
<1>1. CASE SendStart
  <2>1. /\ pc = "SendTask" /\ pump = "running" /\ open /\ pumpError = "none" /\ world.phase = "RUNNING"
        /\ toServer = <<>> /\ toClient = <<>>
    BY <1>1, PumpRuns DEF SendStart, OneAtATime
  <2>2. /\ future' = [future EXCEPT ![cur] = Unset] /\ toServer' = Append(<<>>, Command(cur))
        /\ pc' = "Flushing" /\ UNCHANGED <<cur, outcome, baseSeq, reason>>
        /\ UNCHANGED <<serverVars, toClient, open, world, pump, pumpError, updated, exerciseVars>>
    BY <1>1, <2>1 DEF SendStart, Goto, ScriptSend
  <2>3. toServer' = <<Command(cur)>> /\ DOMAIN toClient' = {}
    BY <2>1, <2>2, MessagesShort
  <2>4. cur \in Requests /\ cur \notin answered /\ future \in [Requests -> Futures]
        /\ cur \in 1..6 /\ Requests = 1..6
    BY <2>1, CurrentRequest, Numbers DEF Sending, ScriptInv, Coherent, OneCommandAtTheServer, DataOK
  <2>5. seq + 1 = version
    BY <2>1 DEF CaughtUp, Syncing
  <2>6. InStep'
    BY <2>2, InStepKept DEF serverVars
  <2>7. Course' /\ CaughtUp' /\ Alive' /\ Greeting' /\ Waits'
    BY <2>1, <2>2, <2>5 DEF Course, effects, CaughtUp, Alive, Greeting, Waits, Syncing, serverVars,
       exerciseVars, peerVars
  <2>8. Replies' /\ OneAtATime'
    BY <2>1, <2>2, <2>3, <2>4 DEF Replies, OneAtATime, serverVars
  <2> QED BY <2>6, <2>7, <2>8
<1>2. CASE SendFlushed
  <2>1. pc = "Flushing" /\ pump = "running" /\ open
    BY <1>2, PumpRuns DEF SendFlushed
  <2>2. /\ pc' = "AwaitResult" /\ UNCHANGED <<pending, cur, outcome, baseSeq, reason>>
        /\ UNCHANGED <<serverVars, linkVars, world, pump, pumpError, future, updated, exerciseVars>>
    BY <1>2, <2>1 DEF SendFlushed, Goto, ScriptSend
  <2>3. InStep'
    BY <2>2, InStepKept DEF serverVars, linkVars
  <2>4. Course' /\ Alive' /\ Greeting' /\ Replies' /\ Waits'
    BY <2>1, <2>2, Zenon DEF Course, effects, Alive, Greeting, Replies, IsReply, Waits, Syncing, serverVars,
       linkVars, exerciseVars, peerVars
  <2>5. CaughtUp' /\ OneAtATime'
    BY <2>1, <2>2 DEF CaughtUp, OneAtATime, Syncing, serverVars, linkVars
  <2> QED BY <2>3, <2>4, <2>5
<1> QED BY <1>1, <1>2 DEF ScriptSend

LEMMA GuidedAnswered ==
  ASSUME ScriptInv, Guided, StepAnswered
  PROVE  Guided'
<1> USE DEF Guided
<1>1. /\ pc = "AwaitResult" /\ future[cur].kind = "result" /\ pc' = "WaitTask" /\ reason' = reason
      /\ UNCHANGED <<serverVars, linkVars, world, pump, pumpError, future, updated, cur, baseSeq, exerciseVars>>
  BY DEF StepAnswered, Goto
<1>2. pump = "running" /\ future[cur] # Unset
  BY <1>1, PumpRuns DEF Unset
<1>3. InStep'
  BY <1>1, InStepKept DEF serverVars, linkVars
<1>4. Course' /\ Alive' /\ Greeting' /\ Replies' /\ Waits'
  BY <1>1, <1>2, Zenon DEF Course, effects, Alive, Greeting, Replies, IsReply, Waits, Syncing, serverVars,
     linkVars, exerciseVars, peerVars
<1>5. CaughtUp' /\ OneAtATime'
  BY <1>1, <1>2 DEF CaughtUp, OneAtATime, Syncing, serverVars, linkVars
<1> QED BY <1>3, <1>4, <1>5

LEMMA GuidedWait ==
  ASSUME ScriptInv, Guided, WaitForSnapshot
  PROVE  Guided'
<1> USE DEF Guided
<1>1. /\ pc \in {"WaitTask", "WaitSleep"}
      /\ UNCHANGED <<serverVars, linkVars, world, pump, pumpError, pending, future, outcome, baseSeq, exerciseVars>>
  BY DEF WaitForSnapshot
<1>2. /\ pump = "running" /\ cur \in 1..5 /\ cur \in answered /\ cur + 1 \notin answered
      /\ seq + 1 = version /\ effects = cur
      /\ Awaited(world) => world.seq = seq /\ (cur = OfferWater => giftedAt # 0)
  BY <1>1, WaitEnds
<1>3. open /\ pumpError = "none" /\ future[cur] # Unset /\ OverTheLimit = 6 /\ OfferWater = 3
  BY <1>1, <1>2, PumpRuns, Numbers DEF Waits
<1>4. toServer = <<>>
  <2>1. toServer # <<Command(cur)>>
    BY <1>2, <1>3 DEF OneAtATime
  <2> QED BY <1>2, <1>3, <2>1 DEF OneAtATime
<1>5. InStep'
  BY <1>1, InStepKept DEF serverVars, linkVars
<1>6. CASE Awaited(world) /\ pc' = "SendTask" /\ reason' = reason /\ updated' = updated /\ cur' = cur + 1
  <2>1. toClient = <<>> /\ DOMAIN toClient' = {}
    <3>1. toClient = <<>>
      BY <1>2, <1>3, <1>6, AllRead
    <3> QED BY <1>1, <3>1 DEF linkVars
  <2>2. effects' = cur
    BY <1>1, <1>2, <1>6 DEF effects, serverVars
  <2>3. Course'
    <3>1. cur' > OfferWater => giftedAt # 0
      BY <1>2, <1>3, <1>6 DEF Course
    <3>2. cur' \notin answered
      BY <1>2, <1>6
    <3> HIDE DEF effects
    <3> QED BY <1>1, <1>2, <2>2, <3>1, <3>2 DEF Course, serverVars, exerciseVars, peerVars
  <2>4. CaughtUp' /\ Alive' /\ Greeting' /\ OneAtATime' /\ Waits'
    BY <1>1, <1>2, <1>3, <1>4, <1>6, <2>1 DEF CaughtUp, Alive, Greeting, OneAtATime, Waits, Syncing, serverVars,
       linkVars
  <2>5. Replies'
    BY <1>1, <2>1 DEF Replies, serverVars
  <2> QED BY <1>5, <2>3, <2>4, <2>5
<1>7. CASE ~Awaited(world) /\ pc' = "WaitSleep" /\ reason' = reason /\ updated' = FALSE /\ cur' = cur
  <2>1. ~Awaited(world)'
    BY <1>1, <1>7 DEF Awaited, Accepted, Gifted, exerciseVars, peerVars
  <2>2. Course' /\ Alive' /\ Greeting' /\ Replies'
    BY <1>1, <1>2, <1>7, Zenon DEF Course, effects, Alive, Greeting, Replies, IsReply, Syncing, serverVars,
       linkVars, exerciseVars, peerVars
  <2>3. CaughtUp' /\ OneAtATime' /\ Waits'
    BY <1>1, <1>2, <1>3, <1>4, <1>7, <2>1 DEF CaughtUp, OneAtATime, Waits, Syncing, serverVars, linkVars
  <2> QED BY <1>5, <2>2, <2>3
<1>8. \/ Awaited(world) /\ pc' = "SendTask" /\ reason' = reason /\ updated' = updated /\ cur' = cur + 1
      \/ ~Awaited(world) /\ pc' = "WaitSleep" /\ reason' = reason /\ updated' = FALSE /\ cur' = cur
  BY <1>3 DEF WaitForSnapshot, WaitPass, Goto
<1> QED BY <1>6, <1>7, <1>8

LEMMA GuidedLimit ==
  ASSUME ScriptInv, Guided, LimitConfirmed
  PROVE  Guided'
<1> USE DEF Guided
<1>1. /\ pc = "AwaitResult" /\ cur = OverTheLimit /\ future[cur] = Rejected /\ cur \in Requests
      /\ pump = "running" /\ open
  BY PumpRuns, Numbers DEF LimitConfirmed
<1>2. /\ toServer' = Append(toServer, Sync) /\ pc' = "SyncCheck" /\ baseSeq' = world.seq /\ reason' = reason
      /\ UNCHANGED <<serverVars, toClient, open, world, pump, pumpError, future, updated, cur, outcome, exerciseVars>>
  BY <1>1 DEF LimitConfirmed, Goto
<1>3. cur \in answered /\ future[cur] # Unset
  BY <1>1 DEF Replies, Rejected, Unset
<1>4. toServer = <<>> /\ toServer' = <<Sync>>
  <2>1. toServer = <<>>
    BY <1>1, <1>3 DEF OneAtATime, Syncing
  <2> QED BY <1>2, <2>1, MessagesShort
<1>5. seq + 1 = version /\ world.seq = seq /\ seq \in Nat /\ cur = 6
  <2>1. seq + 1 = version /\ seq \in Nat /\ cur = 6
    BY <1>1, CourseTypes, Numbers DEF CaughtUp, Syncing
  <2> QED BY <1>1, <2>1 DEF CaughtUp
<1>6. toClient = <<>>
  BY <1>1, <1>3, <1>5, AllRead
<1>7. InStep'
  BY <1>2, InStepKept DEF serverVars
<1>8. Course' /\ CaughtUp' /\ Alive' /\ Greeting' /\ OneAtATime' /\ Waits'
  BY <1>1, <1>2, <1>3, <1>4, <1>5, <1>6 DEF Course, effects, CaughtUp, Alive, Greeting, OneAtATime, Waits, Syncing,
     serverVars, exerciseVars, peerVars
<1>9. Replies'
  <2>1. DOMAIN toClient' = {}
    BY <1>2, <1>6
  <2> QED BY <1>2, <2>1 DEF Replies, serverVars
<1> QED BY <1>7, <1>8, <1>9

LEMMA GuidedFinal ==
  ASSUME ScriptInv, Guided, FinalSync
  PROVE  Guided'
<1> USE DEF Guided
<1>1. /\ pc \in Syncing
      /\ UNCHANGED <<serverVars, linkVars, world, pump, pumpError, pending, future, cur, outcome, baseSeq, exerciseVars>>
  BY DEF FinalSync, SyncWait, Syncing
<1>2. pump = "running" /\ pumpError = "none" /\ cur = OverTheLimit
  BY <1>1, PumpRuns DEF Syncing, ScriptInv, ExerciseShown
<1>3. \/ world.seq > baseSeq /\ pc' = "Synced" /\ reason' = reason /\ updated' = updated
      \/ ~(world.seq > baseSeq) /\ pc' = "SyncSleep" /\ reason' = reason /\ updated' = FALSE
  BY <1>2 DEF FinalSync, SyncWait, WaitPass, Goto
<1>4. world.seq > baseSeq => seq = version
  <2>1. baseSeq + 1 = version /\ (toServer = <<Sync>> \/ seq = version)
    BY <1>1 DEF Waits
  <2>2. world.seq <= seq /\ world.seq \in Nat /\ seq \in Nat /\ version \in Nat /\ baseSeq \in Nat
    BY CourseTypes
  <2> QED BY <2>1, <2>2 DEF CaughtUp
<1>5. version \in Nat /\ toServer # <<Command(cur)>>
  <2>1. toServer = <<Command(cur)>> => toServer[1].kind = "command" /\ 1 \in DOMAIN toServer
    BY DEF Command
  <2> QED BY <1>1, <2>1, CourseTypes DEF ScriptInv, Coherent, OneCommandAtTheServer, Syncing
<1>6. InStep'
  BY <1>1, InStepKept DEF serverVars, linkVars
<1>7. Course' /\ Alive' /\ Greeting' /\ Replies'
  <2>1. pc' \notin {"Stopped", "AwaitState", "AwaitReadiness"} /\ reason' = reason /\ pc # "Stopped"
    BY <1>1, <1>3 DEF Syncing
  <2> QED BY <1>1, <1>2, <2>1, Zenon DEF Course, effects, Alive, Greeting, Replies, IsReply, serverVars,
       linkVars, exerciseVars, peerVars
<1>8. CaughtUp' /\ OneAtATime' /\ Waits'
  BY <1>1, <1>2, <1>3, <1>4, <1>5 DEF CaughtUp, OneAtATime, Waits, Syncing, serverVars, linkVars
<1> QED BY <1>6, <1>7, <1>8
-----------------------------------------------------------------------------
(* As long as the validator keeps to its guide the exercise is guided.     *)
ByGuide == strays = 0 => Guided

LEMMA GuidedInit == ScriptInit => Guided
<1> SUFFICES ASSUME ScriptInit PROVE Guided
  OBVIOUS
<1>1. toClient = <<State(Snapshot(1))>> /\ seq = 1 /\ version = 2 /\ toServer = <<>> /\ DOMAIN toServer = {}
  BY DEF ScriptInit
<1>2. Held = {NoWorld, Snapshot(1)}
  <2>1. Messages(toClient) = {State(Snapshot(1))}
    BY <1>1, MessagesShort
  <2> QED BY <2>1 DEF ScriptInit, Held, State
<1>3. /\ Snapshot(1).run /\ Snapshot(1).seq = 1 /\ Snapshot(1).version = 2 /\ Snapshot(1).phase = "RUNNING"
      /\ NoWorld.run /\ NoWorld.seq = 0
  BY DEF ScriptInit, Snapshot, NoWorld
<1>4. InStep
  <2>1. State(Snapshot(1)).kind = "state" /\ State(Snapshot(1)).snap = Snapshot(1)
    BY DEF State
  <2> HIDE DEF State, Snapshot, NoWorld
  <2>2. Rising(toClient, world.seq)
    <3>1. world.seq < Snapshot(1).seq
      BY <1>3 DEF ScriptInit
    <3> QED BY <1>1, <2>1, <3>1, RisingShort
  <2> QED BY <1>1, <1>2, <1>3, <2>2 DEF InStep
<1>5. Greeting
  <2> HIDE DEF State, Snapshot, NoWorld
  <2> QED BY <1>1, <1>2, <1>3 DEF ScriptInit, Greeting
<1>6. Course /\ CaughtUp /\ Alive /\ Replies /\ OneAtATime /\ Waits
  BY Numbers DEF ScriptInit, Course, effects, Moved, CaughtUp, Alive, Replies, OneAtATime, Waits, Syncing
<1> QED BY <1>4, <1>5, <1>6 DEF Guided

(* No step other than these keeps strays at 0.                             *)
LEMMA GuidedStep ==
  ASSUME ScriptInv, Guided, strays = 0, strays' = 0, [ScriptNext]_scriptVars
  PROVE  Guided'
<1>1. CASE Guide
  <2>1. ~RefuseTaken
    BY DEF RefuseTaken, Takeable, Guided, Course
  <2> QED BY <1>1, <2>1, GuidedConfirm, GuidedObey, GuidedMove, GuidedRefusal, GuidedSync DEF Guide
<1>2. ~Stray /\ ~Deadline
  <2>1. ~Stray
    BY DEF Stray
  <2> QED BY <2>1, NoWaitFails
<1>3. CASE ScriptHandshake \/ ScriptPump \/ ScriptShutdown
  BY <1>3, GuidedHandshake, GuidedPump, GuidedShutdown
<1>4. CASE Complete \/ ScriptInterrupt
  <2>1. /\ pc # "Stopped" /\ pc' = "Stopping" /\ reason' \in {"completed", "interrupted"}
        /\ UNCHANGED <<serverVars, linkVars, world, pump, pumpError, future, cur, exerciseVars>>
    BY <1>4 DEF Complete, ScriptInterrupt, Interrupt, Stop, Sending, Reconciling
  <2> QED BY <2>1, GuidedStop
<1>5. CASE Script /\ ~Complete
  <2>1. \/ Begin \/ ScriptSend \/ StepAnswered \/ WaitForSnapshot \/ LimitConfirmed \/ FinalSync
    BY <1>5, NoStepFails DEF Script
  <2> QED BY <2>1, GuidedBegin, GuidedSend, GuidedAnswered, GuidedWait, GuidedLimit, GuidedFinal
<1>6. CASE ScriptTerminated \/ UNCHANGED scriptVars
  <2>1. UNCHANGED scriptVars
    BY <1>6 DEF ScriptTerminated
  <2>2. InStep'
    BY <2>1, InStepKept DEF Guided, scriptVars, vars, serverVars, linkVars, pumpVars
  <2> USE DEF Guided, scriptVars, vars, serverVars, linkVars, pumpVars, runnerVars, exerciseVars, peerVars
  <2>3. Course' /\ CaughtUp' /\ Alive'
    BY <2>1 DEF Course, effects, CaughtUp, Alive
  <2>4. Held' = Held
    BY <2>1 DEF Held, Messages
  <2>5. Greeting' /\ Replies'
    BY <2>1, <2>4, Zenon DEF Greeting, Replies, IsReply
  <2>6. Awaited(world)' = Awaited(world)
    BY <2>1 DEF Awaited, Accepted, Gifted
  <2>7. OneAtATime' /\ Waits'
    BY <2>1, <2>6 DEF OneAtATime, Waits
  <2> QED BY <2>2, <2>3, <2>5, <2>7
<1> QED BY <1>1, <1>2, <1>3, <1>4, <1>5, <1>6 DEF ScriptNext

(* A departure is not taken back.                                          *)
LEMMA StraysCount ==
  ASSUME [ScriptNext]_scriptVars, strays \in Nat
  PROVE  strays' \in Nat /\ (strays' = 0 => strays = 0)
<1>1. strays' = strays \/ strays' = strays + 1
  BY DEF ScriptNext, Guide, Confirm, Obey, PeerAccepts, PeerGives, RefuseOverTheLimit, RefuseTaken, AnswerSync,
     Stray, ScriptHandshake, ScriptPump, Script, Begin, ScriptSend, GiftIsGone, StepAnswered, StepFailed,
     WaitForSnapshot, LimitConfirmed, LimitDenied, ObjectMissing, FinalSync, Complete, Deadline, ScriptInterrupt,
     ScriptShutdown, ScriptTerminated, scriptVars, exerciseVars
<1> QED BY <1>1

(* ScriptInv and ByGuide together are inductive.                           *)
THEOREM GuidedInvariant == ScriptSpec => [](ScriptInv /\ ByGuide)
<1> DEFINE I == ScriptInv /\ ByGuide /\ strays \in Nat
<1>1. ScriptInit => I
  BY ScriptInvInit, GuidedInit DEF ByGuide, ScriptInit
<1>2. I /\ [ScriptNext]_scriptVars => I'
  <2> SUFFICES ASSUME I, [ScriptNext]_scriptVars PROVE I'
    OBVIOUS
  <2>1. ScriptInv'
    BY ScriptCoherent, StepsTookEffectStep, LatestShowsStep, RefusalStep, ExerciseShownStep DEF ScriptInv
  <2>2. strays' \in Nat /\ (strays' = 0 => strays = 0)
    BY StraysCount
  <2>3. strays' = 0 => Guided'
    BY <2>2, GuidedStep DEF ByGuide
  <2> QED BY <2>1, <2>2, <2>3 DEF ByGuide
<1> QED BY <1>1, <1>2, PTL DEF ScriptSpec

(* Nothing is sent to a validator that keeps to its guide before all its   *)
(* messages have been handled and P02 has moved (validator/README.md).     *)
THEOREM SendsWhenHandled == ScriptSpec => []HandledBeforeSending
<1>1. ScriptInv /\ ByGuide => HandledBeforeSending
  <2> SUFFICES ASSUME ScriptInv, ByGuide, strays = 0, NEW k \in DOMAIN toServer, toServer[k].kind # "ready"
               PROVE  toClient = <<>> /\ (cur >= AcceptGift => giftedAt \in 1..world.version)
    BY DEF HandledBeforeSending
  <2> USE DEF ByGuide
  <2>1. /\ AcceptGift = 4 /\ OfferWater = 3 /\ OverTheLimit = 6 /\ cur \in 0..6 /\ seq \in Nat
        /\ world \in Held /\ toServer # <<>>
    BY CourseTypes, Numbers
  <2>2. pump = "running"
    <3>1. pump # "off"
      BY DEF Guided, Greeting
    <3>2. pc # "Stopped"
      BY <2>1 DEF Guided, Alive
    <3> QED BY <3>1, <3>2, PumpRuns DEF Guided, Alive
  <2>3. toClient = <<>> /\ world.seq # 0
    BY <2>1, <2>2 DEF Guided, OneAtATime
  <2>4. cur # 0 => world.seq = seq /\ seq + 1 = version
    <3>1. CASE toServer = <<Command(cur)>>
      <4>1. toServer[1].kind = "command" /\ 1 \in DOMAIN toServer
        BY <3>1 DEF Command
      <4>2. cur \notin answered
        BY <4>1 DEF ScriptInv, Coherent, OneCommandAtTheServer
      <4> QED BY <4>2 DEF Guided, CaughtUp
    <3>2. CASE cur = OverTheLimit /\ cur \in answered /\ seq < version
      BY <2>1, <3>2 DEF Guided, CaughtUp
    <3> QED BY <2>1, <2>2, <3>1, <3>2 DEF Guided, OneAtATime
  <2>5. ASSUME cur >= AcceptGift PROVE giftedAt \in 1..world.version
    <3>1. world.version = version /\ version \in Nat
      BY <2>1, <2>3, <2>4, <2>5, CourseTypes DEF Guided, InStep
    <3>2. giftedAt = 7 /\ version >= 7
      BY <2>1, <2>5 DEF Guided, Course, effects, Moved
    <3> QED BY <3>1, <3>2
  <2> QED BY <2>3, <2>5
<1> QED BY <1>1, GuidedInvariant, PTL

(* Against a validator that keeps to its guide the script never fails: no  *)
(* wait misses its snapshot, no object it names is missing.                *)
THEOREM ScriptNeverFails == ScriptSpec => []NoSpuriousFailure
<1>1. ByGuide => NoSpuriousFailure
  BY DEF ByGuide, Guided, Alive, NoSpuriousFailure
<1> QED BY <1>1, GuidedInvariant, PTL
=============================================================================
