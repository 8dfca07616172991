------------------------------- MODULE Session -------------------------------
(***************************************************************************)
(* One connection of the Planet CharLu client to the Bazaar server, and    *)
(* the trading runner that drives it.                                      *)
(*                                                                         *)
(*   - the readiness handshake (session.py, perform_readiness_handshake);  *)
(*   - the receive pump, the background task that is the only reader of    *)
(*     the socket (session.py, ClientSession._pump): it replaces `world'   *)
(*     and settles the futures of PendingTable;                            *)
(*   - the runner (strategy.py, _run_trading): decide on `world', send one *)
(*     command and await its result under a 15 s timeout, reconcile, and   *)
(*     decide again, or wait for a newer snapshot when there is nothing to *)
(*     do;                                                                 *)
(*   - shutdown (main.py, stop_pump), a keyboard interrupt.                *)
(*                                                                         *)
(* The client is one asyncio loop: a task runs from one await to the next  *)
(* without interruption, so an action is one such run of the pump or of    *)
(* the runner.  A timer may fire at any await the timer covers.            *)
(*                                                                         *)
(* The server is not part of the repository.  It is modelled by what the   *)
(* client relies on: an in-order connection, a snapshot_sequence that      *)
(* counts the states pushed on it, a world_version that never decreases, a *)
(* result for a processed command and a record of it in later snapshots.   *)
(* Everything else it does is unconstrained: it ticks, pauses, ends the    *)
(* run, never answers, repeats a snapshot, faults or closes at any moment. *)
(***************************************************************************)
EXTENDS Integers, Sequences, PendingTable

CONSTANTS
  MaxCommands,   \* bound: commands the runner may decide to send
  MaxVersion,    \* bound: world versions of the server
  MaxSeq,        \* bound: states pushed on the connection
  MaxInFlight    \* bound: messages of the server not yet read by the client

ASSUME BoundsAssumption ==
  MaxCommands \in Nat /\ MaxVersion \in Nat /\ MaxSeq \in Nat /\ MaxInFlight \in Nat

VARIABLES
  \* the server and the two directions of the connection
  version,    \* world_version
  phase,      \* phase of the run
  failed,     \* this station's health is 0 or it has failed once
  seq,        \* snapshot_sequence of the last state pushed
  answered,   \* requests the server has answered
  applied,    \* request -> world version that records its effect, 0 if none
  toServer,   \* messages of the client the server has not read
  toClient,   \* messages of the server the client has not read
  open,       \* FALSE once either side has closed the connection
  \* the client
  world,      \* ClientSession.world; the initial state during the handshake
  pump,       \* "off", "running", "ended"
  pumpError,  \* ClientSession._pump_error
  pending,    \* PendingRequests._pending
  future,     \* the futures handed out by PendingRequests.register
  updated,    \* the asyncio.Event ClientSession._world_updated
  pc,         \* where the runner is suspended
  cur,        \* commands decided so far; the id of the last one
  outcome,    \* the CommandOutcome being reconciled
  baseSeq,    \* the sequence a wait wants to get past
  reason      \* why the runner stopped

serverVars == <<version, phase, failed, seq, answered, applied>>
linkVars   == <<toServer, toClient, open>>
pumpVars   == <<world, pump, pumpError, pending, future, updated>>
runnerVars == <<pc, cur, outcome, baseSeq, reason>>
vars       == <<serverVars, linkVars, pumpVars, runnerVars>>

Requests == 1..MaxCommands
NoRequest == 0
Phases == {"READY", "RUNNING", "PAUSED", "FINISHED", "ABORTED"}
Over   == {"FINISHED", "ABORTED"}

-----------------------------------------------------------------------------
(* Messages.                                                               *)

(* What the properties tell apart in a State message and the WorldView     *)
(* built from it; `run' is FALSE when the run_id is not the session's.     *)
Snapshot(s) ==
  [run |-> TRUE, seq |-> s, version |-> version, phase |-> phase, failed |-> failed,
   records |-> {i \in answered : applied[i] # 0}]

State(snap)      == [kind |-> "state", snap |-> snap]
Readiness(s, ok) == [kind |-> "readiness", seq |-> s, ready |-> ok]
ProtocolError(i, close) == [kind |-> "protocol_error", id |-> i, close |-> close]
Undecodable      == [kind |-> "undecodable"]

Ready(s)   == [kind |-> "ready", seq |-> s]
Command(i) == [kind |-> "command", id |-> i]
Sync       == [kind |-> "sync"]

(* Before the first state has been read there is no WorldView.             *)
NoWorld == [run |-> TRUE, seq |-> 0, version |-> 0, phase |-> "READY",
            failed |-> FALSE, records |-> {}]

NoOutcome == Result(NoRequest, 0)

-----------------------------------------------------------------------------
(* The server greets with the current state of the run, or refuses the     *)
(* session.                                                                *)
Init ==
  /\ version = 1 /\ phase \in {"READY", "RUNNING", "PAUSED"} /\ failed = FALSE
  /\ seq = 1 /\ answered = {} /\ applied = [i \in Requests |-> 0]
  /\ toServer = <<>> /\ open = TRUE
  /\ toClient \in {<<State(Snapshot(1))>>, <<ProtocolError(NoRequest, TRUE)>>}
  /\ world = NoWorld /\ pump = "off" /\ pumpError = "none"
  /\ pending = {} /\ future = [i \in Requests |-> Unset] /\ updated = FALSE
  /\ pc = "AwaitState" /\ cur = 0 /\ outcome = NoOutcome /\ baseSeq = 0
  /\ reason = "none"

-----------------------------------------------------------------------------
(* The server.                                                             *)

(* What is sent once the client has stopped reading changes nothing and is *)
(* left out.                                                               *)
CanSend(n) == open /\ pump # "ended" /\ Len(toClient) + n <= MaxInFlight
Reads(kind) == open /\ toServer # <<>> /\ Head(toServer).kind = kind

(* Handle `ready': confirm it, or decline.                                 *)
ServerReady ==
  /\ Reads("ready") /\ CanSend(1)
  /\ toServer' = Tail(toServer)
  /\ \E ok \in BOOLEAN :
       toClient' = Append(toClient, Readiness(Head(toServer).seq, ok))
  /\ UNCHANGED <<serverVars, open, pumpVars, runnerVars>>

(* Process a command and record it at a new world version.  The result and *)
(* the state that includes it are pushed in either order; the result may   *)
(* leave its processed_version 0.                                          *)
ServerApply ==
  /\ Reads("command") /\ CanSend(2) /\ version < MaxVersion /\ seq < MaxSeq
  /\ LET i == Head(toServer).id IN
     /\ answered' = answered \cup {i}
     /\ applied' = [applied EXCEPT ![i] = version + 1]
     /\ version' = version + 1 /\ seq' = seq + 1
     /\ toServer' = Tail(toServer)
     /\ \E v \in {0, version + 1} :
          LET result == Result(i, v)
              state  == State([Snapshot(seq + 1) EXCEPT
                                 !.version = version + 1, !.records = @ \cup {i}])
          IN toClient' \in {Append(Append(toClient, result), state),
                            Append(Append(toClient, state), result)}
  /\ UNCHANGED <<phase, failed, open, pumpVars, runnerVars>>

(* Answer a command without recording it: a rejection that does not        *)
(* advance the version, or a protocol error such as REQUEST_CAPACITY_EXCEEDED. *)
ServerRefuse ==
  /\ Reads("command") /\ CanSend(1)
  /\ LET i == Head(toServer).id IN
     /\ answered' = answered \cup {i}
     /\ toServer' = Tail(toServer)
     /\ toClient' \in {Append(toClient, Result(i, version)),
                       Append(toClient, ProtocolError(i, FALSE)),
                       Append(toClient, ProtocolError(i, TRUE))}
  /\ UNCHANGED <<version, phase, failed, seq, applied, open, pumpVars, runnerVars>>

(* Answer `sync' with the current state.                                   *)
ServerSync ==
  /\ Reads("sync") /\ CanSend(1) /\ seq < MaxSeq
  /\ seq' = seq + 1
  /\ toServer' = Tail(toServer)
  /\ toClient' = Append(toClient, State(Snapshot(seq + 1)))
  /\ UNCHANGED <<version, phase, failed, answered, applied, open, pumpVars, runnerVars>>

(* A tick or another station's command advances the world; the run may     *)
(* change phase and this station may fail.  The new state is pushed.       *)
ServerTick ==
  /\ CanSend(1) /\ version < MaxVersion /\ seq < MaxSeq /\ phase \notin Over
  /\ version' = version + 1 /\ seq' = seq + 1
  /\ phase' \in (IF phase = "READY" THEN Phases ELSE Phases \ {"READY"})
  /\ failed' \in (IF failed THEN {TRUE} ELSE BOOLEAN)
  /\ toClient' = Append(toClient,
       State([Snapshot(seq + 1) EXCEPT !.version = version + 1,
                                       !.phase = phase', !.failed = failed']))
  /\ UNCHANGED <<answered, applied, toServer, open, pumpVars, runnerVars>>

(* A snapshot in flight, or the last one read, is delivered again.         *)
ServerRepeat ==
  /\ CanSend(1)
  /\ \/ world.seq > 0 /\ toClient' = Append(toClient, State(world))
     \/ \E k \in 1..Len(toClient) :
          toClient[k].kind = "state" /\ toClient' = Append(toClient, toClient[k])
  /\ UNCHANGED <<serverVars, toServer, open, pumpVars, runnerVars>>

(* A frame that ends the session: not a server message, a session-wide     *)
(* error (null request_id), or the state of another run.                   *)
ServerFault ==
  /\ CanSend(1)
  /\ toClient' \in {Append(toClient, Undecodable),
                    Append(toClient, ProtocolError(NoRequest, FALSE)),
                    Append(toClient, State([NoWorld EXCEPT !.run = FALSE]))}
  /\ UNCHANGED <<serverVars, toServer, open, pumpVars, runnerVars>>

(* The connection goes down; what the server sent last may be lost.        *)
ServerClose ==
  /\ open /\ open' = FALSE
  /\ \E k \in 0..Len(toClient) : toClient' = SubSeq(toClient, 1, k)
  /\ toServer' = <<>>
  /\ UNCHANGED <<serverVars, pumpVars, runnerVars>>

Server ==
  \/ ServerReady \/ ServerApply \/ ServerRefuse \/ ServerSync
  \/ ServerTick \/ ServerRepeat \/ ServerFault \/ ServerClose

-----------------------------------------------------------------------------
(* The runner's steps share these.                                         *)

(* The task leaves _run_trading; `finally' in send_command drops the id.   *)
Stop(r) ==
  /\ pc' = "Stopping" /\ reason' = r
  /\ pending' = Discard(pending, cur)
  /\ UNCHANGED <<cur, outcome, baseSeq>>

Goto(label) == pc' = label /\ UNCHANGED reason

(* Mutant: a newer sequence is taken for proof, with no look at the version.*)
IncludesIfNewer(w, o) == w.seq > baseSeq

(* reconcile: does `world' prove that the command's effect is in it?       *)
IncludesResult(w, o) ==
  \/ o.version > 0 /\ w.version >= o.version
  \/ o.id \in w.records

(* One pass of the loop in ClientSession.wait_for: leave if the predicate  *)
(* holds, fail if the pump is gone, else clear the event and sleep on it.  *)
WaitPass(predicate, sleep, done) ==
  \/ predicate /\ Goto(done) /\ UNCHANGED updated
  \/ ~predicate /\ pumpError # "none" /\ pc' = "Stopping" /\ reason' = "pump"
     /\ UNCHANGED updated
  \/ ~predicate /\ pumpError = "none" /\ Goto(sleep) /\ updated' = FALSE

-----------------------------------------------------------------------------
(* The readiness handshake: the runner's task reads the socket itself.     *)

HandshakeState ==
  /\ pc = "AwaitState" /\ toClient # <<>>
  /\ toClient' = Tail(toClient)
  /\ LET m == Head(toClient) IN
     \/ /\ m.kind = "state" /\ open
        /\ world' = m.snap
        /\ toServer' = Append(toServer, Ready(m.snap.seq))
        /\ Goto("AwaitReadiness")
        /\ UNCHANGED <<pending, cur, outcome, baseSeq>>
     \/ m.kind # "state" /\ Stop("handshake") /\ UNCHANGED <<world, toServer>>
     \/ m.kind = "state" /\ ~open /\ Stop("connection") /\ UNCHANGED <<world, toServer>>
  /\ UNCHANGED <<serverVars, open, pump, pumpError, future, updated>>

(* The next message must confirm this very readiness; then the session     *)
(* exists and its pump starts.                                             *)
HandshakeReadiness ==
  /\ pc = "AwaitReadiness" /\ toClient # <<>>
  /\ toClient' = Tail(toClient)
  /\ LET m == Head(toClient)
         confirmed == m.kind = "readiness" /\ m.ready /\ m.seq = world.seq
     IN \/ confirmed /\ pump' = "running" /\ Goto("Loop")
           /\ UNCHANGED <<pending, cur, outcome, baseSeq>>
        \/ ~confirmed /\ Stop("handshake") /\ UNCHANGED pump
  /\ UNCHANGED <<serverVars, toServer, open, world, pumpError, future, updated>>

HandshakeClosed ==
  /\ pc \in {"AwaitState", "AwaitReadiness"} /\ ~open /\ toClient = <<>>
  /\ Stop("connection")
  /\ UNCHANGED <<serverVars, linkVars, world, pump, pumpError, future, updated>>

-----------------------------------------------------------------------------
(* The pump: one message, or the end of the connection, per step.          *)

(* Mutant: the pump dies without signalling the event.                     *)
PumpEndSilently(error, futures) ==
  /\ pump' = "ended" /\ pumpError' = error
  /\ future' = FailAll(pending, futures) /\ pending' = {}
  /\ UNCHANGED updated

(* The except and finally clauses of _pump.                                *)
PumpEnd(error, futures) ==
  /\ pump' = "ended" /\ pumpError' = error
  /\ future' = FailAll(pending, futures) /\ pending' = {}
  /\ updated' = TRUE

Receive(kind) ==
  /\ pump = "running" /\ toClient # <<>> /\ Head(toClient).kind = kind
  /\ toClient' = Tail(toClient)

(* Mutants: the event is not signalled; every state replaces the last.     *)
ReplaceSilently(s) == world' = s /\ UNCHANGED updated
AnyState(s) == TRUE

Replace(s) == world' = s /\ updated' = TRUE

Newer(s) == s.seq > world.seq

(* A state of another run ends the session; one that is not newer is       *)
(* skipped; a newer one replaces `world' and signals the event.            *)
PumpState ==
  /\ Receive("state")
  /\ LET s == Head(toClient).snap IN
     \/ ~s.run /\ PumpEnd("run changed", future) /\ UNCHANGED world
     \/ s.run /\ ~Newer(s) /\ UNCHANGED pumpVars
     \/ /\ s.run /\ Newer(s)
        /\ Replace(s)
        /\ UNCHANGED <<pump, pumpError, pending, future>>
  /\ UNCHANGED <<serverVars, toServer, open, runnerVars>>

PumpResult ==
  /\ Receive("result")
  /\ LET m == Head(toClient) IN
     /\ future' = Settle(pending, future, m.id, m)
     /\ pending' = Discard(pending, m.id)
  /\ UNCHANGED <<serverVars, toServer, open, world, pump, pumpError, updated, runnerVars>>

(* A protocol error rejects its request; without a request, or when it     *)
(* closes the session, it ends the pump.                                   *)
PumpProtocolError ==
  /\ Receive("protocol_error")
  /\ LET m == Head(toClient)
         futures == IF m.id # NoRequest THEN Settle(pending, future, m.id, Rejected) ELSE future
     IN \/ /\ m.close \/ m.id = NoRequest
           /\ PumpEnd("protocol error", futures)
        \/ /\ ~m.close /\ m.id # NoRequest
           /\ future' = futures /\ pending' = Discard(pending, m.id)
           /\ UNCHANGED <<pump, pumpError, updated>>
  /\ UNCHANGED <<serverVars, toServer, open, world, runnerVars>>

PumpUndecodable ==
  /\ Receive("undecodable")
  /\ PumpEnd("undecodable", future)
  /\ UNCHANGED <<serverVars, toServer, open, world, runnerVars>>

PumpClosed ==
  /\ pump = "running" /\ ~open /\ toClient = <<>>
  /\ PumpEnd("closed", future)
  /\ UNCHANGED <<serverVars, linkVars, world, runnerVars>>

Pump ==
  \/ PumpState \/ PumpResult \/ PumpProtocolError \/ PumpUndecodable \/ PumpClosed

-----------------------------------------------------------------------------
(* The trading runner.                                                     *)

Ended(w) == w.phase \in Over \/ w.failed

(* choose returned a decision: it needs a running phase.  record() counts  *)
(* it, and wait_for(session.send(...), 15) starts the send in a new task.  *)
Decide ==
  /\ pc = "Loop" /\ world.phase = "RUNNING" /\ ~Ended(world) /\ cur < MaxCommands
  /\ cur' = cur + 1 /\ Goto("SendTask")
  /\ UNCHANGED <<serverVars, linkVars, pumpVars, outcome, baseSeq>>

(* The send task runs: session.send's two checks, then register before     *)
(* writing, so that a fast reply finds its future.                         *)
SendStart ==
  /\ pc = "SendTask"
  /\ \/ pumpError # "none" /\ Stop("pump") /\ UNCHANGED <<toServer, future>>
     \/ /\ pumpError = "none" /\ world.phase # "RUNNING"
        /\ Stop("not running") /\ UNCHANGED <<toServer, future>>
     \/ /\ pumpError = "none" /\ world.phase = "RUNNING" /\ ~open
        /\ Stop("connection") /\ UNCHANGED <<toServer, future>>
     \/ /\ pumpError = "none" /\ world.phase = "RUNNING" /\ open
        /\ pending' = Register(pending, cur)
        /\ future' = [future EXCEPT ![cur] = Unset]
        /\ toServer' = Append(toServer, Command(cur))
        /\ Goto("Flushing")
        /\ UNCHANGED <<cur, outcome, baseSeq>>
  /\ UNCHANGED <<serverVars, toClient, open, world, pump, pumpError, updated>>

(* connection.send returns, or finds the socket closed.                    *)
SendFlushed ==
  /\ pc = "Flushing"
  /\ \/ Goto("AwaitResult") /\ UNCHANGED <<pending, cur, outcome, baseSeq>>
     \/ ~open /\ Stop("connection")
  /\ UNCHANGED <<serverVars, linkVars, world, pump, pumpError, future, updated>>

(* Mutant: whatever the future holds is taken for the command's outcome.   *)
ReceiveAnything ==
  /\ pc = "AwaitResult" /\ future[cur] # Unset
  /\ outcome' = future[cur] /\ pending' = Discard(pending, cur) /\ Goto("SyncTask")
  /\ UNCHANGED <<serverVars, linkVars, world, pump, pumpError, future, updated,
                 cur, baseSeq>>

(* The future is done: reconcile a result, let a failure stop the runner.  *)
ReceiveOutcome ==
  /\ pc = "AwaitResult" /\ future[cur] # Unset
  /\ \/ /\ future[cur].kind = "result"
        /\ outcome' = future[cur]
        /\ pending' = Discard(pending, cur)
        /\ Goto(IF IncludesResult(world, future[cur]) THEN "Loop" ELSE "SyncTask")
        /\ UNCHANGED <<cur, baseSeq>>
     \/ /\ future[cur].kind # "result"
        /\ Stop(IF future[cur] = Rejected THEN "protocol error" ELSE "pump")
  /\ UNCHANGED <<serverVars, linkVars, world, pump, pumpError, future, updated>>

(* ClientSession.sync: note the sequence, then write the request.          *)
SyncStart ==
  /\ pc = "SyncTask"
  /\ \/ /\ open
        /\ baseSeq' = world.seq
        /\ toServer' = Append(toServer, Sync)
        /\ Goto("SyncCheck")
        /\ UNCHANGED <<pending, cur, outcome>>
     \/ ~open /\ Stop("connection") /\ UNCHANGED toServer
  /\ UNCHANGED <<serverVars, toClient, open, world, pump, pumpError, future, updated>>

(* Wait for any newer snapshot ...                                         *)
SyncWait ==
  /\ \/ pc = "SyncCheck"
     \/ pc = "SyncSleep" /\ updated
  /\ WaitPass(world.seq > baseSeq, "SyncSleep", "Synced")
  /\ UNCHANGED <<serverVars, linkVars, world, pump, pumpError, pending, future,
                 cur, outcome, baseSeq>>

(* ... which may be a tick push older than the command: then wait for one  *)
(* that includes it.                                                       *)
IncludeWait ==
  /\ \/ pc = "Synced"
     \/ pc = "IncludeSleep" /\ updated
  /\ WaitPass(IncludesResult(world, outcome), "IncludeSleep", "Loop")
  /\ UNCHANGED <<serverVars, linkVars, world, pump, pumpError, pending, future,
                 cur, outcome, baseSeq>>

(* choose returned None: sleep, without a deadline, until a newer snapshot.*)
IdleStart ==
  /\ pc = "Loop" /\ ~Ended(world)
  /\ baseSeq' = world.seq
  /\ WaitPass(FALSE, "Idle", "Loop")
  /\ UNCHANGED <<serverVars, linkVars, world, pump, pumpError, pending, future,
                 cur, outcome>>

IdleWait ==
  /\ pc = "Idle" /\ updated
  /\ WaitPass(world.seq > baseSeq, "Idle", "Loop")
  /\ UNCHANGED <<serverVars, linkVars, world, pump, pumpError, pending, future,
                 cur, outcome, baseSeq>>

Finish ==
  /\ pc = "Loop" /\ Ended(world) /\ Stop("finished")
  /\ UNCHANGED <<serverVars, linkVars, world, pump, pumpError, future, updated>>

Handshake == HandshakeState \/ HandshakeReadiness \/ HandshakeClosed

Trade ==
  \/ Decide \/ SendStart \/ SendFlushed \/ ReceiveOutcome
  \/ SyncStart \/ SyncWait \/ IncludeWait \/ IdleStart \/ IdleWait \/ Finish

-----------------------------------------------------------------------------
(* Timers, the keyboard, and shutdown.                                     *)

Sending     == {"SendTask", "Flushing", "AwaitResult"}
Reconciling == {"SyncTask", "SyncCheck", "SyncSleep", "Synced", "IncludeSleep"}

(* Mutant: the reconciliation has no deadline.                             *)
TimeoutOfSend ==
  /\ pc \in Sending
  /\ Stop("timeout")
  /\ UNCHANGED <<serverVars, linkVars, world, pump, pumpError, future, updated>>

(* One of the two 15 s deadlines passes, whether or not the answer has     *)
(* just arrived: a timer that fires first cancels the inner task.          *)
Timeout ==
  /\ pc \in Sending \cup Reconciling
  /\ Stop("timeout")
  /\ UNCHANGED <<serverVars, linkVars, world, pump, pumpError, future, updated>>

(* Ctrl-C cancels the main task at whatever it awaits.                     *)
Interrupt ==
  /\ pc \in {"AwaitState", "AwaitReadiness", "Idle"} \cup Sending \cup Reconciling
  /\ Stop("interrupted")
  /\ UNCHANGED <<serverVars, linkVars, world, pump, pumpError, future, updated>>

(* main.py's finally: stop_pump cancels the pump, whose own finally runs;  *)
(* then the connection is closed.                                          *)
Shutdown ==
  /\ pc = "Stopping"
  /\ IF pump = "running"
     THEN PumpEnd("closed", future)
     ELSE UNCHANGED <<pump, pumpError, future, pending, updated>>
  /\ open' = FALSE /\ toServer' = <<>> /\ toClient' = <<>>
  /\ pc' = "Stopped"
  /\ UNCHANGED <<serverVars, world, cur, outcome, baseSeq, reason>>

(* The process has exited.                                                 *)
Terminated == pc = "Stopped" /\ UNCHANGED vars

Next ==
  \/ Server \/ Handshake \/ Pump \/ Trade
  \/ Timeout \/ Interrupt \/ Shutdown \/ Terminated

(* The event loop runs every ready task and fires every due timer; nothing *)
(* is assumed of the server or of the keyboard.                            *)
Fairness ==
  /\ WF_vars(Handshake) /\ WF_vars(Pump) /\ WF_vars(Trade)
  /\ WF_vars(Timeout) /\ WF_vars(Shutdown)

Spec     == Init /\ [][Next]_vars
FairSpec == Spec /\ Fairness
=============================================================================
