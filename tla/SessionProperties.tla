-------------------------- MODULE SessionProperties --------------------------
(***************************************************************************)
(* What the session and the trading runner promise; see Session.           *)
(***************************************************************************)
EXTENDS Session

(* The messages of a queue.                                                *)
Messages(queue) == {queue[k] : k \in DOMAIN queue}

Snapshots == [run : BOOLEAN, seq : Nat, version : Nat, phase : Phases,
              failed : BOOLEAN, records : SUBSET Requests]
ServerMessages ==
       [kind : {"state"}, snap : Snapshots]
  \cup [kind : {"readiness"}, seq : Nat, ready : BOOLEAN]
  \cup [kind : {"result"}, id : Requests, version : Nat]
  \cup [kind : {"protocol_error"}, id : Requests \cup {NoRequest}, close : BOOLEAN]
  \cup {Undecodable}
ClientMessages ==
  [kind : {"ready"}, seq : Nat] \cup [kind : {"command"}, id : Requests] \cup {Sync}
Futures ==
  {Unset, Rejected, Disconnected} \cup [kind : {"result"}, id : Requests, version : Nat]
Labels ==
  {"AwaitState", "AwaitReadiness", "Loop", "Idle", "Stopping", "Stopped"}
    \cup Sending \cup Reconciling
Reasons == {"none", "handshake", "connection", "finished", "pump", "not running",
            "protocol error", "timeout", "interrupted"}
PumpErrors == {"none", "run changed", "protocol error", "undecodable", "closed"}

(* The data has its type: the messages of both directions, the snapshot    *)
(* the session holds and the futures of its request table.                 *)
DataOK ==
  /\ version \in Nat /\ phase \in Phases /\ failed \in BOOLEAN /\ seq \in Nat
  /\ answered \in SUBSET Requests /\ applied \in [Requests -> Nat]
  /\ toServer \in Seq(ClientMessages) /\ toClient \in Seq(ServerMessages)
  /\ open \in BOOLEAN
  /\ world \in Snapshots /\ pump \in {"off", "running", "ended"}
  /\ pumpError \in PumpErrors /\ pending \in SUBSET Requests
  /\ future \in [Requests -> Futures] /\ updated \in BOOLEAN
  /\ cur \in 0..MaxCommands
  /\ outcome \in [kind : {"result"}, id : Requests \cup {NoRequest}, version : Nat]
  /\ baseSeq \in Nat

(* Every variable has its type, the runner's place and its reason to stop  *)
(* included (of all that drives a session, only these depend on the driver).*)
TypeOK == DataOK /\ pc \in Labels /\ reason \in Reasons

(* The effect of command i, if it had one, is in the snapshot w.           *)
Reflects(w, i) == applied[i] <= w.version

(* When the runner decides, every command it ever issued has been answered *)
(* and its effect is in the snapshot it decides on: no trade is chosen on  *)
(* stock that an earlier trade has already moved (session.reconcile, the   *)
(* loop of _run_trading).                                                  *)
DecidesOnSettledWorld ==
  pc \in {"Loop", "Idle"} =>
    \A i \in 1..cur : i \in answered /\ Reflects(world, i)

(* The snapshot never goes back: a replacement is of the same run, newer   *)
(* in sequence, no older in version, and forgets no request record         *)
(* (the guards of _pump on run_id and snapshot_sequence).                  *)
WorldOnlyAdvances ==
  [][world' # world /\ pump = "running" =>
       /\ world'.run /\ world'.seq > world.seq /\ world'.version >= world.version
       /\ world.records \subseteq world'.records]_vars

(* Nobody sleeps through what it waits for: while the runner sleeps on the *)
(* event and a snapshot satisfying its wait is in place, or the pump is    *)
(* gone, the event is set; while it awaits a result from a dead pump, its  *)
(* future is done (wait_for's clear-and-recheck, _pump's finally).         *)
NoLostWakeup ==
  /\ pc = "Idle" /\ world.seq > baseSeq => updated
  /\ pc = "SyncSleep" /\ world.seq > baseSeq => updated
  /\ pc = "IncludeSleep" /\ IncludesResult(world, outcome) => updated
  /\ pump = "ended" /\ pc \in {"Idle", "SyncSleep", "IncludeSleep"} => updated
  /\ pump = "ended" /\ pc \in {"Flushing", "AwaitResult"} => future[cur] # Unset

(* A reply to the command in flight is never dropped: once the server has  *)
(* answered and the pump has read the answer, the caller's future holds it *)
(* (send_command registers before it writes).                              *)
ReplyIsKept ==
  pc \in {"Flushing", "AwaitResult"} /\ cur \in answered /\ future[cur] = Unset =>
    \/ \E k \in 1..Len(toClient) :
         toClient[k].kind \in {"result", "protocol_error"} /\ toClient[k].id = cur
    \/ ~open

(* The request table holds the command in flight and nothing else: timeouts,*)
(* rejections and shutdown leave no entry behind (send_command's finally). *)
TableHoldsOnlyInFlight ==
  pending # {} => pc \in {"Flushing", "AwaitResult"} /\ pending = {cur}

(* A dead pump stops the client: whatever the runner is waiting for when   *)
(* the connection or the protocol fails, it ends (_pump's finally).  A pump*)
(* that has ended never runs again, so `eventually' need not be nested.    *)
PumpDeathStopsRunner == []<>(pump = "ended" => pc = "Stopped")

(* Every command ends: the runner gets to decide again, or the client      *)
(* stops, even if the server never answers (the two 15 s deadlines).       *)
CommandEnds == []<>(pc \notin Sending \cup Reconciling \cup {"Stopping"})

(* A newer snapshot wakes an idle runner: it never sleeps on with one at   *)
(* hand while the pump runs.                                               *)
SnapshotWakesIdle == []<>(pc = "Idle" /\ pump = "running" => world.seq <= baseSeq)

(* README.md: the strategy waits for a running phase, and stops when the   *)
(* run finishes or aborts, the station fails or the connection fails: the  *)
(* phase alone must not stop the client while the run is not over.         *)
PauseDoesNotStop == reason = "not running" => world.phase \in Over

(* The session implements the abstract client of ReadYourWrites: commands  *)
(* 1..cur have been issued, the server has answered and applied some, and  *)
(* the snapshot reflects those applied at or before its version.           *)
Effective == {i \in Requests : applied[i] # 0}

Abstract == INSTANCE ReadYourWrites WITH
  Commands  <- Requests,
  issued    <- 1..cur,
  decided   <- answered,
  effective <- Effective,
  seen      <- {i \in Effective : Reflects(world, i)}

(* The session's behaviours, seen through that mapping, are behaviours of  *)
(* a client that reads its own writes.                                     *)
ReadsItsWrites == Abstract!ASpec

-----------------------------------------------------------------------------
(* A command is in progress only once one has been issued.                 *)
CommandInProgress == pc \in Sending \cup Reconciling => cur >= 1

(* The inductive invariant behind DecidesOnSettledWorld, WorldOnlyAdvances,*)
(* NoLostWakeup and ReadsItsWrites.                                        *)

(* The snapshots the client holds or will read.                            *)
Held == {world} \cup {m.snap : m \in {n \in Messages(toClient) : n.kind = "state"}}

(* No snapshot of this run is ahead of the server, and one that records a  *)
(* request is at or past the version of its effect.                        *)
SnapshotsAreSound ==
  \A s \in Held : s.run =>
    /\ s.seq <= seq /\ s.version <= version
    /\ \A i \in s.records : i \in answered /\ 0 < applied[i] /\ applied[i] <= s.version

(* Later snapshots show at least what earlier ones show.                   *)
SnapshotsAreOrdered ==
  \A s, t \in Held : s.run /\ t.run /\ s.seq <= t.seq =>
    s.version <= t.version /\ s.records \subseteq t.records

(* A result that states a version states one that covers the effect.       *)
Honest(r) == r.id \in answered /\ (r.version = 0 \/ applied[r.id] <= r.version)

ResultsAreHonest ==
  /\ \A m \in Messages(toClient) : m.kind = "result" => Honest(m)
  /\ \A i \in Requests : future[i].kind = "result" => future[i].id = i /\ Honest(future[i])
  /\ pc \in Reconciling => outcome.id = cur /\ Honest(outcome)

(* Effects belong to answered requests, and answers to issued ones.        *)
EffectsAreAnswered ==
  /\ answered \subseteq 1..cur
  /\ \A i \in Requests : applied[i] # 0 => i \in answered /\ applied[i] <= version

(* The one command that can be with the server is the last one issued,     *)
(* unanswered and awaited.                                                 *)
OneCommandAtTheServer ==
  /\ \A k \in DOMAIN toServer : toServer[k].kind = "command" =>
       /\ toServer[k].id = cur /\ cur \notin answered
       /\ pc \in {"Flushing", "AwaitResult", "Stopping"}
       /\ \A l \in DOMAIN toServer : toServer[l].kind = "command" => k = l
  /\ pc = "SendTask" => cur \notin answered

(* All commands but the last are settled at all times.                     *)
EarlierCommandsSettled ==
  \A i \in 1..cur - 1 : i \in answered /\ Reflects(world, i)

(* The session's run is that of its first state; nothing is issued, and no *)
(* pump runs, before the handshake has ended.                              *)
HandshakeFirst ==
  /\ world.run
  /\ pc \in {"AwaitState", "AwaitReadiness"} => cur = 0 /\ pump = "off"
  /\ pc = "AwaitState" =>
       \/ toClient # <<>> /\ (Head(toClient).kind = "state" => Head(toClient).snap.run)
       \/ toClient = <<>> /\ ~open

(* What a sleeping runner relies on.                                       *)
PumpIsAccountable ==
  /\ pump = "ended" <=> pumpError # "none"
  /\ pc \in {"Flushing", "AwaitResult"} => cur \in pending \/ future[cur] # Unset

(* The part that any program driving the session keeps, whatever it sends  *)
(* (module Scenario has another one than the runner).                      *)
Coherent ==
  /\ DataOK /\ CommandInProgress
  /\ SnapshotsAreSound /\ SnapshotsAreOrdered
  /\ EffectsAreAnswered /\ OneCommandAtTheServer /\ HandshakeFirst

Inductive ==
  /\ TypeOK /\ Coherent /\ ResultsAreHonest /\ EarlierCommandsSettled
  /\ PumpIsAccountable /\ DecidesOnSettledWorld /\ NoLostWakeup
=============================================================================
