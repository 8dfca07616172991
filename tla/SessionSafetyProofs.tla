------------------------- MODULE SessionSafetyProofs -------------------------
(***************************************************************************)
(* The inductive invariant of Session, conjunct by conjunct, and the       *)
(* theorems that follow from it.                                           *)
(***************************************************************************)
EXTENDS SessionProofs

-----------------------------------------------------------------------------
(* Snapshots held.                                                         *)

(* Reading a message takes it from the queue.                              *)
LEMMA ReadMessage ==
  ASSUME DataOK, toClient # <<>>
  PROVE  /\ Head(toClient) \in ServerMessages /\ Head(toClient) \in Messages(toClient)
         /\ Tail(toClient) \in Seq(ServerMessages)
         /\ Messages(Tail(toClient)) \subseteq Messages(toClient)
         /\ Head(toClient).kind = "state" => Head(toClient).snap \in Held
<1>1. toClient \in Seq(ServerMessages)
  BY DEF DataOK
<1>2. /\ Head(toClient) \in ServerMessages /\ Head(toClient) \in Messages(toClient)
      /\ Tail(toClient) \in Seq(ServerMessages)
      /\ Messages(Tail(toClient)) \subseteq Messages(toClient)
  BY <1>1, MessagesTail
<1> QED BY <1>2 DEF Held

(* No other snapshots are held after a step that leaves the queue's        *)
(* messages among those it had, and the world among the snapshots held.    *)
LEMMA HeldShrinks ==
  ASSUME Messages(toClient') \subseteq Messages(toClient), world' \in Held
  PROVE  Held' \subseteq Held
BY DEF Held, Messages

(* The snapshots held have the type of snapshots.                          *)
LEMMA HeldTypes == DataOK => Held \subseteq Snapshots
<1> SUFFICES ASSUME DataOK, NEW m \in Messages(toClient), m.kind = "state"
             PROVE  m.snap \in Snapshots
  BY DEF Held, DataOK
<1>1. m \in ServerMessages
  BY DEF Messages, DataOK
<1> QED BY <1>1, MessageFields

(* What a step does to the messages in flight to the client: the server    *)
(* adds some, every other step leaves a part of them.                      *)
LEMMA ClientOnlyReads ==
  ASSUME DataOK, Handshake \/ Pump \/ Trade \/ Timeout \/ Interrupt \/ Shutdown
  PROVE  /\ UNCHANGED serverVars
         /\ Messages(toClient') \subseteq Messages(toClient)
         /\ Held' \subseteq Held
<1>1. UNCHANGED serverVars
  BY DEF Handshake, HandshakeState, HandshakeReadiness, HandshakeClosed,
         Pump, PumpState, PumpResult, PumpProtocolError, PumpUndecodable, PumpClosed,
         Trade, Decide, SendStart, SendFlushed, ReceiveOutcome, SyncStart, SyncWait, IncludeWait,
         IdleStart, IdleWait, Finish, Timeout, Interrupt, Shutdown
<1>2. world \in Held
  BY DEF Held
<1>3. CASE HandshakeState \/ HandshakeReadiness \/ PumpState \/ PumpResult \/ PumpProtocolError
             \/ PumpUndecodable
  <2>1. toClient # <<>> /\ toClient' = Tail(toClient)
    BY <1>3 DEF HandshakeState, HandshakeReadiness, PumpState, PumpResult, PumpProtocolError,
                PumpUndecodable, Receive
  <2>2. Messages(toClient') \subseteq Messages(toClient)
    BY <2>1, ReadMessage
  <2>3. world' = world \/ (Head(toClient).kind = "state" /\ world' = Head(toClient).snap)
    BY <1>3 DEF HandshakeState, HandshakeReadiness, PumpState, PumpResult, PumpProtocolError,
                PumpUndecodable, Receive, Replace, pumpVars
  <2>4. world' \in Held
    BY <1>2, <2>1, <2>3, ReadMessage
  <2> QED BY <1>1, <2>2, <2>4, HeldShrinks
<1>4. CASE Shutdown
  <2>1. Messages(toClient') = {} /\ world' = world
    BY <1>4 DEF Shutdown, Messages
  <2> QED BY <1>1, <1>2, <2>1, HeldShrinks
<1>5. CASE HandshakeClosed \/ PumpClosed \/ Trade \/ Timeout \/ Interrupt
  <2>1. toClient' = toClient /\ world' = world
    BY <1>5 DEF HandshakeClosed, PumpClosed, Trade, Decide, SendStart, SendFlushed, ReceiveOutcome,
         SyncStart, SyncWait, IncludeWait, IdleStart, IdleWait, Finish, Timeout, Interrupt,
         linkVars, pumpVars
  <2> QED BY <1>1, <1>2, <2>1, HeldShrinks
<1> QED BY <1>3, <1>4, <1>5 DEF Handshake, Pump

(* A message the server sends joins those in flight.                       *)
LEMMA HeldGrows ==
  ASSUME DataOK, NEW m \in ServerMessages, toClient' = Append(toClient, m), world' = world
  PROVE  /\ Messages(toClient') = Messages(toClient) \cup {m}
         /\ m.kind # "state" => Held' = Held
         /\ m.kind = "state" => Held' = Held \cup {m.snap}
<1>1. Messages(toClient') = Messages(toClient) \cup {m}
  BY MessagesAppend DEF DataOK
<1> QED BY <1>1 DEF Held, Messages

(* A step that pushes no new snapshot keeps those held sound and ordered.  *)
LEMMA SnapshotsKept ==
  ASSUME SnapshotsAreSound, SnapshotsAreOrdered,
         \A s \in Held' : s \in Held \/ ~s.run,
         UNCHANGED <<seq, version, applied>>, answered \subseteq answered'
  PROVE  (SnapshotsAreSound /\ SnapshotsAreOrdered)'
<1>1. SnapshotsAreSound'
  BY DEF SnapshotsAreSound
<1>2. SnapshotsAreOrdered'
  BY DEF SnapshotsAreOrdered
<1> QED BY <1>1, <1>2

(* A step that pushes the server's new state keeps them so: it is numbered *)
(* after, and shows at least as much as, every snapshot of the run held.   *)
LEMMA SnapshotsPushed ==
  ASSUME DataOK, SnapshotsAreSound, SnapshotsAreOrdered, NEW t \in Snapshots,
         \A s \in Held' : s \in Held \/ s = t,
         seq' = seq + 1, version' \in Nat, version <= version', answered \subseteq answered',
         \A i \in answered : applied'[i] = applied[i],
         \A i \in answered' : applied'[i] \in Nat /\ applied'[i] <= version',
         t.seq = seq + 1, t.version = version',
         t.records = {i \in answered' : applied'[i] # 0}
  PROVE  (SnapshotsAreSound /\ SnapshotsAreOrdered)'
<1> DEFINE Sound(s) == /\ s.seq <= seq /\ s.version <= version
                       /\ \A i \in s.records : i \in answered /\ 0 < applied[i] /\ applied[i] <= s.version
<1>1. \A s \in Held : s \in Snapshots /\ (s.run => Sound(s))
  BY HeldTypes DEF SnapshotsAreSound
<1>2. \A s \in Snapshots : s.seq \in Nat /\ s.version \in Nat /\ s.records \subseteq Requests
  BY DEF Snapshots
<1>3. seq \in Nat /\ version \in Nat /\ applied \in [Requests -> Nat]
  BY DEF DataOK
<1>4. \A s \in Held : s.run =>
        /\ s.seq <= seq' /\ s.version <= version'
        /\ \A i \in s.records : i \in answered' /\ 0 < applied'[i] /\ applied'[i] <= s.version
        /\ s.records \subseteq t.records /\ s.seq < t.seq
  <2> SUFFICES ASSUME NEW s \in Held, s.run
               PROVE  /\ s.seq <= seq' /\ s.version <= version' /\ s.seq < t.seq
                      /\ \A i \in s.records :
                           /\ i \in answered' /\ 0 < applied'[i] /\ applied'[i] <= s.version
                           /\ i \in t.records
    OBVIOUS
  <2>1. Sound(s) /\ s.seq \in Nat /\ s.version \in Nat
    BY <1>1, <1>2
  <2>2. s.seq <= seq' /\ s.version <= version' /\ s.seq < t.seq
    BY <1>3, <2>1
  <2>3. ASSUME NEW i \in s.records
        PROVE  i \in answered' /\ 0 < applied'[i] /\ applied'[i] <= s.version /\ i \in t.records
    BY <2>1
  <2> QED BY <2>2, <2>3
<1>5. SnapshotsAreSound'
  <2>1. \A i \in t.records : i \in answered' /\ 0 < applied'[i] /\ applied'[i] <= t.version
    OBVIOUS
  <2>2. t.seq <= seq' /\ t.version <= version'
    BY <1>3
  <2> QED BY <1>4, <2>1, <2>2 DEF SnapshotsAreSound
<1>6. SnapshotsAreOrdered'
  <2> SUFFICES ASSUME NEW r \in Held', NEW s \in Held', r.run, s.run, r.seq <= s.seq
               PROVE  r.version <= s.version /\ r.records \subseteq s.records
    BY DEF SnapshotsAreOrdered
  <2>1. CASE r \in Held /\ s \in Held
    BY <2>1 DEF SnapshotsAreOrdered
  <2>2. CASE r \in Held /\ s = t
    BY <1>4, <2>2
  <2>3. CASE r = t /\ s \in Held
    <3>1. s.seq < t.seq /\ s.seq \in Nat /\ t.seq \in Nat
      BY <1>1, <1>2, <1>4, <2>3
    <3> QED BY <2>3, <3>1
  <2>4. CASE r = t /\ s = t
    BY <1>2, <2>4
  <2> QED BY <2>1, <2>2, <2>3, <2>4
<1> QED BY <1>5, <1>6

(* The command the server is about to process is the one in flight.        *)
LEMMA CommandRead ==
  ASSUME DataOK, CommandInProgress, OneCommandAtTheServer, Reads("command")
  PROVE  /\ Head(toServer).id = cur /\ cur \in Requests /\ cur \notin answered
         /\ pc \in {"Flushing", "AwaitResult", "Stopping"}
<1>1. toServer # <<>> /\ toServer \in Seq(ClientMessages) /\ Head(toServer).kind = "command"
  BY DEF Reads, DataOK
<1>2. 1 \in DOMAIN toServer /\ Head(toServer) = toServer[1] /\ Head(toServer) \in ClientMessages
  BY <1>1
<1>3. Head(toServer).id \in Requests
  BY <1>1, <1>2 DEF ClientMessages, Sync
<1> QED BY <1>1, <1>2, <1>3 DEF OneCommandAtTheServer

LEMMA SnapshotsStep ==
  ASSUME Coherent, Next
  PROVE  (SnapshotsAreSound /\ SnapshotsAreOrdered)'
<1> USE DEF Coherent
<1>1. CASE ServerReady
  <2>1. Head(toServer) \in ClientMessages /\ Head(toServer).kind = "ready"
    BY <1>1 DEF ServerReady, Reads, DataOK
  <2>2. Head(toServer).seq \in Nat
    BY <2>1 DEF ClientMessages, Sync
  <2>3. PICK ok \in BOOLEAN : toClient' = Append(toClient, Readiness(Head(toServer).seq, ok))
    BY <1>1 DEF ServerReady
  <2>4. /\ Readiness(Head(toServer).seq, ok) \in ServerMessages
        /\ Readiness(Head(toServer).seq, ok).kind # "state"
    BY <2>2, MessageTypes DEF Readiness
  <2>5. Held' = Held
    BY <1>1, <2>3, <2>4, HeldGrows DEF ServerReady, pumpVars
  <2> QED BY <1>1, <2>5, SnapshotsKept DEF ServerReady, serverVars
<1>2. CASE ServerRefuse
  <2> DEFINE i == Head(toServer).id
  <2>1. i \in Requests
    BY <1>2, CommandRead DEF ServerRefuse
  <2>2. PICK m \in {Result(i, version), ProtocolError(i, FALSE), ProtocolError(i, TRUE)} :
          toClient' = Append(toClient, m)
    BY <1>2 DEF ServerRefuse
  <2>3. m \in ServerMessages /\ m.kind # "state"
    <3>1. version \in Nat
      BY DEF DataOK
    <3>2. /\ Result(i, version) \in ServerMessages
          /\ ProtocolError(i, FALSE) \in ServerMessages /\ ProtocolError(i, TRUE) \in ServerMessages
      BY <2>1, <3>1, MessageTypes
    <3>3. /\ Result(i, version).kind # "state" /\ ProtocolError(i, FALSE).kind # "state"
          /\ ProtocolError(i, TRUE).kind # "state"
      BY DEF Result, ProtocolError
    <3> QED BY <2>2, <3>2, <3>3
  <2>4. Held' = Held
    BY <1>2, <2>2, <2>3, HeldGrows DEF ServerRefuse, pumpVars
  <2> QED BY <1>2, <2>4, SnapshotsKept DEF ServerRefuse
<1>3. CASE ServerApply
  <2> DEFINE i == Head(toServer).id
             t == [Snapshot(seq + 1) EXCEPT !.version = version + 1, !.records = @ \cup {i}]
  <2>1. i \in Requests /\ i \notin answered
    BY <1>3, CommandRead DEF ServerApply
  <2>2. PICK v \in {0, version + 1} :
          \/ toClient' = Append(Append(toClient, Result(i, v)), State(t))
          \/ toClient' = Append(Append(toClient, State(t)), Result(i, v))
    BY <1>3 DEF ServerApply
  <2>3. t \in Snapshots
    <3>1. Snapshot(seq + 1) \in Snapshots
      BY MessageTypes DEF DataOK
    <3>2. answered \cup {i} \in SUBSET Requests /\ version + 1 \in Nat
      BY <2>1 DEF DataOK
    <3> QED BY <2>1, <3>1, <3>2 DEF Snapshots, DataOK
  <2>4. /\ Result(i, v) \in ServerMessages /\ Result(i, v).kind # "state"
        /\ State(t) \in ServerMessages /\ State(t).snap = t
    BY <2>1, <2>2, <2>3, MessageTypes DEF Result, State, DataOK
  <2>5. Messages(toClient') = Messages(toClient) \cup {Result(i, v), State(t)}
    <3>1. toClient \in Seq(ServerMessages)
      BY DEF DataOK
    <3> DEFINE result == Result(i, v)
               state  == State(t)
    <3> HIDE DEF result, state
    <3>2. result \in ServerMessages /\ state \in ServerMessages
      BY <2>4 DEF result, state
    <3>3. \/ toClient' = Append(Append(toClient, result), state)
          \/ toClient' = Append(Append(toClient, state), result)
      BY <2>2 DEF result, state
    <3>4. Messages(toClient') = Messages(toClient) \cup {result, state}
      <4>1. Messages(Append(Append(toClient, result), state)) = Messages(toClient) \cup {result, state}
        BY <3>1, <3>2, MessagesAppendTwo
      <4>2. Messages(Append(Append(toClient, state), result)) = Messages(toClient) \cup {state, result}
        BY <3>1, <3>2, MessagesAppendTwo
      <4> QED BY <3>3, <4>1, <4>2, Zenon
    <3> QED BY <3>4 DEF result, state
  <2>6. \A s \in Held' : s \in Held \/ s = t
    BY <1>3, <2>4, <2>5 DEF ServerApply, pumpVars, Held, Messages
  <2>7. t.seq = seq + 1 /\ t.version = version' /\ t.records = {j \in answered' : applied'[j] # 0}
    <3>1. /\ version' = version + 1 /\ answered' = answered \cup {i}
          /\ applied' = [applied EXCEPT ![i] = version + 1]
      BY <1>3 DEF ServerApply
    <3>2. t.seq = seq + 1 /\ t.version = version + 1 /\ t.records = {j \in answered : applied[j] # 0} \cup {i}
      BY DEF Snapshot
    <3>3. applied'[i] = version + 1 /\ version + 1 # 0 /\ \A j \in answered : applied'[j] = applied[j]
      BY <2>1, <3>1 DEF DataOK
    <3> HIDE DEF t, i
    <3>4. t.records = {j \in answered' : applied'[j] # 0}
      BY <3>1, <3>2, <3>3
    <3> QED BY <3>1, <3>2, <3>4
  <2>8. /\ seq' = seq + 1 /\ version' \in Nat /\ version <= version' /\ answered \subseteq answered'
        /\ \A j \in answered : applied'[j] = applied[j]
        /\ \A j \in answered' : applied'[j] \in Nat /\ applied'[j] <= version'
    <3> HIDE DEF t, i
    <3>1. /\ version' = version + 1 /\ seq' = seq + 1 /\ answered' = answered \cup {i}
          /\ applied' = [applied EXCEPT ![i] = version + 1]
      BY <1>3 DEF ServerApply, i
    <3> QED BY <2>1, <3>1 DEF DataOK, EffectsAreAnswered
  <2> HIDE DEF t
  <2> QED BY <2>3, <2>6, <2>7, <2>8, SnapshotsPushed
<1>4. CASE ServerSync
  <2>1. Snapshot(seq + 1) \in Snapshots /\ State(Snapshot(seq + 1)) \in ServerMessages
    BY MessageTypes DEF DataOK
  <2>2. Held' = Held \cup {Snapshot(seq + 1)}
    BY <1>4, <2>1, HeldGrows DEF ServerSync, pumpVars, State
  <2>3. version \in Nat /\ \A i \in answered : applied[i] \in Nat /\ applied[i] <= version
    BY DEF DataOK, EffectsAreAnswered
  <2>4. /\ Snapshot(seq + 1).seq = seq + 1 /\ Snapshot(seq + 1).version = version
        /\ Snapshot(seq + 1).records = {i \in answered : applied[i] # 0}
    BY DEF Snapshot
  <2>5. seq' = seq + 1 /\ version' = version /\ answered' = answered /\ applied' = applied
    BY <1>4 DEF ServerSync
  <2> QED BY <2>1, <2>2, <2>3, <2>4, <2>5, SnapshotsPushed
<1>5. CASE ServerTick
  <2> DEFINE t == [Snapshot(seq + 1) EXCEPT !.version = version + 1, !.phase = phase', !.failed = failed']
  <2>1. t \in Snapshots
    <3>1. Snapshot(seq + 1) \in Snapshots
      BY MessageTypes DEF DataOK
    <3>2. phase' \in Phases
      BY <1>5 DEF ServerTick, Phases
    <3>3. failed' \in BOOLEAN
      BY <1>5, Zenon DEF ServerTick
    <3>4. version + 1 \in Nat
      BY DEF DataOK
    <3> QED BY <3>1, <3>2, <3>3, <3>4 DEF Snapshots
  <2>2. State(t) \in ServerMessages /\ State(t).kind = "state" /\ State(t).snap = t
    BY <2>1, MessageTypes DEF State
  <2>3. toClient' = Append(toClient, State(t)) /\ world' = world
    BY <1>5 DEF ServerTick, pumpVars
  <2>4. t.seq = seq + 1 /\ t.version = version + 1 /\ t.records = {i \in answered : applied[i] # 0}
    BY DEF Snapshot
  <2>5. /\ seq' = seq + 1 /\ version' = version + 1 /\ answered' = answered /\ applied' = applied
    BY <1>5 DEF ServerTick
  <2>6. /\ version' \in Nat /\ version <= version'
        /\ \A i \in answered : applied[i] \in Nat /\ applied[i] <= version'
    BY <2>5 DEF DataOK, EffectsAreAnswered
  <2> HIDE DEF t
  <2>7. Held' = Held \cup {t}
    BY <2>2, <2>3, HeldGrows
  <2> QED BY <2>1, <2>4, <2>5, <2>6, <2>7, SnapshotsPushed
<1>6. CASE ServerRepeat
  <2>1. PICK m \in ServerMessages : /\ m.kind = "state" /\ m.snap \in Held
                                    /\ toClient' = Append(toClient, m)
    <3>1. CASE toClient' = Append(toClient, State(world))
      <4>1. State(world) \in ServerMessages /\ State(world).kind = "state" /\ State(world).snap = world
        BY MessageTypes DEF State, DataOK
      <4> QED BY <3>1, <4>1 DEF Held
    <3>2. ASSUME NEW k \in 1..Len(toClient), toClient[k].kind = "state",
                 toClient' = Append(toClient, toClient[k])
          PROVE  \E m \in ServerMessages : /\ m.kind = "state" /\ m.snap \in Held
                                           /\ toClient' = Append(toClient, m)
      <4>1. toClient[k] \in Messages(toClient) /\ toClient[k] \in ServerMessages
        BY DEF Messages, DataOK
      <4> QED BY <3>2, <4>1 DEF Held
    <3> QED BY <1>6, <3>1, <3>2 DEF ServerRepeat
  <2>2. Held' = Held
    <3>1. world' = world
      BY <1>6 DEF ServerRepeat, pumpVars
    <3>2. Held' = Held \cup {m.snap}
      BY <2>1, <3>1, HeldGrows
    <3> QED BY <2>1, <3>2
  <2> QED BY <1>6, <2>2, SnapshotsKept DEF ServerRepeat, serverVars
<1>10. CASE ServerFault
  <2> DEFINE t == [NoWorld EXCEPT !.run = FALSE]
  <2>1. t \in Snapshots /\ ~t.run
    BY DEF NoWorld, Snapshots, Phases
  <2>2. PICK m \in {Undecodable, ProtocolError(NoRequest, FALSE), State(t)} :
          toClient' = Append(toClient, m)
    BY <1>10 DEF ServerFault
  <2>3. m \in ServerMessages /\ (m.kind = "state" => m.snap = t)
    <3>1. /\ Undecodable \in ServerMessages /\ ProtocolError(NoRequest, FALSE) \in ServerMessages
          /\ State(t) \in ServerMessages
      BY <2>1, MessageTypes
    <3>2. Undecodable.kind # "state" /\ ProtocolError(NoRequest, FALSE).kind # "state" /\ State(t).snap = t
      BY DEF State, Undecodable, ProtocolError
    <3> QED BY <2>2, <3>1, <3>2
  <2>4. \A s \in Held' : s \in Held \/ ~s.run
    BY <1>10, <2>1, <2>2, <2>3, HeldGrows DEF ServerFault, pumpVars
  <2> QED BY <1>10, <2>4, SnapshotsKept DEF ServerFault, serverVars
<1>7. CASE ServerClose
  <2>1. Messages(toClient') \subseteq Messages(toClient) /\ world' = world
    BY <1>7, MessagesPrefix DEF ServerClose, DataOK, pumpVars
  <2>2. Held' \subseteq Held
    BY <2>1, HeldShrinks DEF Held
  <2> QED BY <1>7, <2>2, SnapshotsKept DEF ServerClose, serverVars
<1>8. CASE Handshake \/ Pump \/ Trade \/ Timeout \/ Interrupt \/ Shutdown
  BY <1>8, ClientOnlyReads, SnapshotsKept DEF serverVars
<1>9. CASE Terminated
  <2>1. Held' = Held /\ UNCHANGED serverVars
    BY <1>9 DEF Terminated, vars, linkVars, pumpVars, Held
  <2> QED BY <2>1, SnapshotsKept DEF serverVars
<1> QED BY <1>1, <1>2, <1>3, <1>4, <1>5, <1>6, <1>7, <1>8, <1>9, <1>10 DEF Next, Server

-----------------------------------------------------------------------------
(* Effects and results.                                                    *)

(* Only the command in flight is answered and takes effect, once.          *)
LEMMA EffectsKept ==
  ASSUME Coherent, Next
  PROVE  /\ answered \subseteq answered' /\ version <= version'
         /\ \A i \in answered : applied'[i] = applied[i]
         /\ \A i \in Requests \ {cur} : applied'[i] = applied[i] /\ (i \in answered' => i \in answered)
         /\ \/ UNCHANGED <<answered, applied>>
            \/ /\ UNCHANGED <<pumpVars, runnerVars>>
               /\ cur \in Requests \ answered /\ cur \in answered'
               /\ pc \in {"Flushing", "AwaitResult", "Stopping"}
               /\ applied'[cur] \in {applied[cur], version'}
<1> USE DEF Coherent
<1>1. CASE ServerApply
  <2>1. /\ Head(toServer).id = cur /\ cur \in Requests /\ cur \notin answered
        /\ pc \in {"Flushing", "AwaitResult", "Stopping"}
    BY <1>1, CommandRead DEF ServerApply
  <2>2. /\ answered' = answered \cup {cur} /\ applied' = [applied EXCEPT ![cur] = version + 1]
        /\ version' = version + 1 /\ UNCHANGED <<pumpVars, runnerVars>>
    BY <1>1, <2>1 DEF ServerApply
  <2> QED BY <2>1, <2>2 DEF DataOK
<1>2. CASE ServerRefuse
  <2>1. /\ Head(toServer).id = cur /\ cur \in Requests /\ cur \notin answered
        /\ pc \in {"Flushing", "AwaitResult", "Stopping"}
    BY <1>2, CommandRead DEF ServerRefuse
  <2>2. /\ answered' = answered \cup {cur} /\ applied' = applied
        /\ version' = version /\ UNCHANGED <<pumpVars, runnerVars>>
    BY <1>2, <2>1 DEF ServerRefuse
  <2> QED BY <2>1, <2>2 DEF DataOK
<1>3. CASE ServerReady \/ ServerSync \/ ServerTick \/ ServerRepeat \/ ServerFault \/ ServerClose
  <2>1. UNCHANGED <<answered, applied>>
    BY <1>3 DEF ServerReady, ServerSync, ServerTick, ServerRepeat, ServerFault, ServerClose, serverVars
  <2>2. version' = version \/ version' = version + 1
    BY <1>3 DEF ServerReady, ServerSync, ServerTick, ServerRepeat, ServerFault, ServerClose, serverVars
  <2> QED BY <2>1, <2>2 DEF DataOK
<1>4. CASE Handshake \/ Pump \/ Trade \/ Timeout \/ Interrupt \/ Shutdown
  BY <1>4, ClientOnlyReads DEF serverVars, DataOK
<1>5. CASE Terminated
  BY <1>5 DEF Terminated, vars, serverVars, DataOK
<1> QED BY <1>1, <1>2, <1>3, <1>4, <1>5 DEF Next, Server

(* What a step does to the number of commands issued.                      *)
LEMMA CommandsIssued ==
  ASSUME Coherent, Next
  PROVE  cur' = cur \/ (Decide /\ cur' = cur + 1)
<1>1. CASE Server \/ Handshake \/ Pump \/ Timeout \/ Interrupt \/ Shutdown \/ Terminated
  BY <1>1 DEF Server, ServerReady, ServerApply, ServerRefuse, ServerSync, ServerTick, ServerRepeat,
     ServerFault, ServerClose, Handshake, HandshakeState, HandshakeReadiness, HandshakeClosed,
     Pump, PumpState, PumpResult, PumpProtocolError, PumpUndecodable, PumpClosed,
     Timeout, Interrupt, Shutdown, Terminated, Stop, runnerVars, vars
<1>2. CASE Trade
  BY <1>2 DEF Trade, Decide, SendStart, SendFlushed, ReceiveOutcome, SyncStart, SyncWait,
     IncludeWait, IdleStart, IdleWait, Finish, Stop
<1> QED BY <1>1, <1>2 DEF Next

LEMMA EffectsStep ==
  ASSUME Coherent, Next
  PROVE  EffectsAreAnswered'
<1> USE DEF Coherent
<1>1. cur \in Nat /\ cur' \in Nat /\ cur <= cur'
  BY CommandsIssued DEF DataOK
<1>2. answered' \subseteq 1..cur'
  <2>1. answered' \subseteq answered \cup {cur} /\ (cur \in answered' => cur \in answered \/ cur \in Requests)
    BY EffectsKept, DataStep DEF DataOK
  <2> QED BY <1>1, <2>1 DEF EffectsAreAnswered, Requests
<1>3. \A i \in Requests : applied'[i] # 0 => i \in answered' /\ applied'[i] <= version'
  <2> SUFFICES ASSUME NEW i \in Requests, applied'[i] # 0
               PROVE  i \in answered' /\ applied'[i] <= version'
    OBVIOUS
  <2>1. version \in Nat /\ version' \in Nat /\ version <= version' /\ applied[i] \in Nat
    BY EffectsKept, DataStep DEF DataOK
  <2>2. CASE applied'[i] = applied[i]
    <3>1. i \in answered /\ applied[i] <= version
      BY <2>2 DEF EffectsAreAnswered
    <3> QED BY <2>1, <2>2, <3>1, EffectsKept
  <2>3. CASE applied'[i] # applied[i]
    <3>1. i = cur /\ cur \in answered' /\ applied'[i] = version'
      BY <2>3, EffectsKept
    <3> QED BY <2>1, <3>1
  <2> QED BY <2>2, <2>3
<1> QED BY <1>2, <1>3 DEF EffectsAreAnswered

(* A result stays honest.                                                  *)
LEMMA HonestKept ==
  ASSUME Coherent, Next, NEW r, Honest(r)
  PROVE  r.id \in answered' /\ (r.version = 0 \/ applied'[r.id] <= r.version)
BY EffectsKept DEF Honest

(* The server's other messages answer no request.                          *)
LEMMA OtherMessages ==
  ASSUME DataOK, ServerReady \/ ServerSync \/ ServerTick \/ ServerRepeat \/ ServerFault
  PROVE  \E n \in ServerMessages :
           /\ toClient' = Append(toClient, n)
           /\ n.kind # "result" /\ (n.kind = "protocol_error" => n.id = NoRequest)
<1>1. \A s \in Snapshots : State(s) \in ServerMessages /\ State(s).kind = "state"
  BY MessageTypes DEF State
<1>2. Snapshot(seq + 1) \in Snapshots /\ version + 1 \in Nat
  BY MessageTypes DEF DataOK
<1>3. CASE ServerReady
  <2>1. Head(toServer) \in ClientMessages /\ Head(toServer).kind = "ready"
    BY <1>3 DEF ServerReady, Reads, DataOK
  <2>2. Head(toServer).seq \in Nat
    BY <2>1 DEF ClientMessages, Sync
  <2>3. \A ok \in BOOLEAN : /\ Readiness(Head(toServer).seq, ok) \in ServerMessages
                            /\ Readiness(Head(toServer).seq, ok).kind = "readiness"
    BY <2>2, MessageTypes DEF Readiness
  <2> QED BY <1>3, <2>3 DEF ServerReady
<1>4. CASE ServerSync
  BY <1>1, <1>2, <1>4 DEF ServerSync
<1>5. CASE ServerTick
  <2>1. phase' \in Phases
    BY <1>5 DEF ServerTick, Phases
  <2>2. failed' \in BOOLEAN
    BY <1>5, Zenon DEF ServerTick
  <2>3. [Snapshot(seq + 1) EXCEPT !.version = version + 1, !.phase = phase', !.failed = failed'] \in Snapshots
    BY <1>2, <2>1, <2>2 DEF Snapshots
  <2>4. toClient' = Append(toClient,
          State([Snapshot(seq + 1) EXCEPT !.version = version + 1, !.phase = phase', !.failed = failed']))
    BY <1>5 DEF ServerTick
  <2> QED BY <1>1, <2>3, <2>4
<1>6. CASE ServerRepeat
  <2>1. \A k \in 1..Len(toClient) : toClient[k] \in ServerMessages
    BY DEF DataOK
  <2> QED BY <1>1, <1>6, <2>1 DEF ServerRepeat, DataOK
<1>7. CASE ServerFault
  <2>1. [NoWorld EXCEPT !.run = FALSE] \in Snapshots
    BY DEF NoWorld, Snapshots, Phases
  <2>2. /\ Undecodable \in ServerMessages /\ ProtocolError(NoRequest, FALSE) \in ServerMessages
        /\ Undecodable.kind = "undecodable" /\ ProtocolError(NoRequest, FALSE).kind = "protocol_error"
        /\ ProtocolError(NoRequest, FALSE).id = NoRequest
    BY MessageTypes DEF Undecodable, ProtocolError
  <2> QED BY <1>1, <1>7, <2>1, <2>2 DEF ServerFault
<1> QED BY <1>3, <1>4, <1>5, <1>6, <1>7

(* The results the server sends are honest.                                *)
LEMMA ResultsSent ==
  ASSUME Coherent, Next, NEW m \in Messages(toClient'), m.kind = "result"
  PROVE  m \in Messages(toClient) \/ Honest(m)'
<1> USE DEF Coherent
<1> DEFINE i == Head(toServer).id
<1>0. toClient \in Seq(ServerMessages) /\ version \in Nat /\ seq \in Nat
  BY DEF DataOK
<1>1. CASE ServerApply
  <2> DEFINE t == State([Snapshot(seq + 1) EXCEPT !.version = version + 1, !.records = @ \cup {i}])
  <2>1. i = cur /\ i \in Requests /\ i \notin answered
    BY <1>1, CommandRead DEF ServerApply
  <2>2. PICK v \in {0, version + 1} :
          \/ toClient' = Append(Append(toClient, Result(i, v)), t)
          \/ toClient' = Append(Append(toClient, t), Result(i, v))
    BY <1>1 DEF ServerApply
  <2>3. i \in answered' /\ applied'[i] = version + 1
    BY <1>1, <2>1 DEF ServerApply, DataOK
  <2>4. /\ Result(i, v) \in ServerMessages /\ t \in ServerMessages /\ t.kind = "state"
        /\ Result(i, v).id = i /\ Result(i, v).version \in {0, version + 1}
    <3>1. v \in Nat
      BY <1>0, <2>2
    <3>2. Snapshot(seq + 1) \in Snapshots /\ answered \cup {i} \in SUBSET Requests /\ version + 1 \in Nat
      BY <1>0, <2>1, MessageTypes DEF DataOK
    <3>3. [Snapshot(seq + 1) EXCEPT !.version = version + 1, !.records = @ \cup {i}] \in Snapshots
      BY <2>1, <3>2 DEF Snapshots, DataOK
    <3> QED BY <2>1, <2>2, <3>1, <3>3, MessageTypes DEF Result, State
  <2>5. m \in Messages(toClient) \/ m = Result(i, v) \/ m = t
    <3> DEFINE result == Result(i, v)
    <3> HIDE DEF result, t
    <3>1. result \in ServerMessages /\ t \in ServerMessages
      BY <2>4 DEF result
    <3>2. \/ toClient' = Append(Append(toClient, result), t)
          \/ toClient' = Append(Append(toClient, t), result)
      BY <2>2 DEF result
    <3>3. /\ Messages(Append(Append(toClient, result), t)) = Messages(toClient) \cup {result, t}
          /\ Messages(Append(Append(toClient, t), result)) = Messages(toClient) \cup {t, result}
      BY <1>0, <3>1, MessagesAppendTwo
    <3>4. m \in Messages(toClient) \/ m = result \/ m = t
      BY <3>2, <3>3, Zenon
    <3> QED BY <3>4 DEF result
  <2>6. version + 1 <= version + 1
    BY <1>0
  <2> HIDE DEF t
  <2> QED BY <2>3, <2>4, <2>5, <2>6 DEF Honest
<1>2. CASE ServerRefuse
  <2>1. i = cur /\ i \in Requests /\ i \notin answered
    BY <1>2, CommandRead DEF ServerRefuse
  <2>2. PICK n \in {Result(i, version), ProtocolError(i, FALSE), ProtocolError(i, TRUE)} :
          toClient' = Append(toClient, n)
    BY <1>2 DEF ServerRefuse
  <2>3. /\ Result(i, version) \in ServerMessages
        /\ ProtocolError(i, FALSE) \in ServerMessages /\ ProtocolError(i, TRUE) \in ServerMessages
    BY <1>0, <2>1, MessageTypes
  <2>4. /\ ProtocolError(i, FALSE).kind # "result" /\ ProtocolError(i, TRUE).kind # "result"
        /\ Result(i, version).id = i /\ Result(i, version).version = version
    BY DEF ProtocolError, Result
  <2>5. m \in Messages(toClient) \/ m = n
    <3>1. n \in ServerMessages
      BY <2>2, <2>3, Zenon
    <3>2. Messages(toClient') = Messages(toClient) \cup {n}
      BY <1>0, <2>2, <3>1, MessagesAppend
    <3> QED BY <3>2
  <2>6. i \in answered' /\ applied'[i] = 0 /\ 0 <= version
    BY <1>0, <1>2, <2>1 DEF ServerRefuse, EffectsAreAnswered
  <2> QED BY <2>2, <2>4, <2>5, <2>6 DEF Honest
<1>3. CASE ServerReady \/ ServerSync \/ ServerTick \/ ServerRepeat \/ ServerFault
  <2>1. PICK n \in ServerMessages :
          toClient' = Append(toClient, n) /\ n.kind # "result"
    BY <1>3, OtherMessages
  <2>2. Messages(toClient') = Messages(toClient) \cup {n}
    BY <1>0, <2>1, MessagesAppend
  <2> QED BY <2>1, <2>2
<1>7. CASE ServerClose
  BY <1>0, <1>7, MessagesPrefix DEF ServerClose
<1>8. CASE Handshake \/ Pump \/ Trade \/ Timeout \/ Interrupt \/ Shutdown
  BY <1>8, ClientOnlyReads
<1>9. CASE Terminated
  BY <1>9 DEF Terminated, vars, linkVars, Messages
<1> QED BY <1>1, <1>2, <1>3, <1>7, <1>8, <1>9 DEF Next, Server

(* A future that holds a result after a step held it before, or has just   *)
(* been given the result the pump has read.                                *)
LEMMA FuturesSettled ==
  ASSUME Coherent, Next, NEW i \in Requests, future'[i].kind = "result"
  PROVE  \/ future'[i] = future[i]
         \/ future'[i] \in Messages(toClient) /\ future'[i].id = i
<1> USE DEF Coherent
<1>1. /\ Rejected.kind # "result" /\ Disconnected.kind # "result" /\ Unset.kind # "result"
      /\ future \in [Requests -> Futures]
  BY DEF Rejected, Disconnected, Unset, DataOK
<1>2. CASE PumpResult
  <2>1. toClient # <<>> /\ Head(toClient).kind = "result"
    BY <1>2 DEF PumpResult, Receive
  <2>2. Head(toClient) \in Messages(toClient)
    BY <2>1, ReadMessage
  <2>3. future' = Settle(pending, future, Head(toClient).id, Head(toClient))
    BY <1>2 DEF PumpResult
  <2> QED BY <1>1, <2>2, <2>3 DEF Settle
<1>3. CASE PumpProtocolError
  <2> DEFINE futures == IF Head(toClient).id # NoRequest
                        THEN Settle(pending, future, Head(toClient).id, Rejected) ELSE future
  <2>1. DOMAIN futures = Requests /\ \A j \in Requests : futures[j] \in {future[j], Rejected}
    BY <1>1 DEF Settle
  <2>2. future' = futures \/ future' = FailAll(pending, futures)
    BY <1>3 DEF PumpProtocolError, PumpEnd
  <2> HIDE DEF futures
  <2> QED BY <1>1, <2>1, <2>2 DEF FailAll
<1>4. CASE PumpState \/ PumpUndecodable \/ PumpClosed \/ Shutdown
  <2>1. future' = future \/ future' = FailAll(pending, future)
    BY <1>4 DEF PumpState, PumpUndecodable, PumpClosed, Shutdown, PumpEnd, pumpVars
  <2> QED BY <1>1, <2>1 DEF FailAll
<1>5. CASE SendStart
  <2>1. future' = future \/ future' = [future EXCEPT ![cur] = Unset]
    BY <1>5 DEF SendStart
  <2> QED BY <1>1, <2>1
<1>6. CASE Server \/ Handshake \/ Timeout \/ Interrupt \/ Terminated
  BY <1>6 DEF Server, ServerReady, ServerApply, ServerRefuse, ServerSync, ServerTick, ServerRepeat,
     ServerFault, ServerClose, Handshake, HandshakeState, HandshakeReadiness, HandshakeClosed,
     Timeout, Interrupt, Terminated, pumpVars, vars
<1>7. CASE Trade /\ ~SendStart
  BY <1>7 DEF Trade, Decide, SendFlushed, ReceiveOutcome, SyncStart, SyncWait,
     IncludeWait, IdleStart, IdleWait, Finish, pumpVars
<1> QED BY <1>2, <1>3, <1>4, <1>5, <1>6, <1>7 DEF Next, Pump

(* What a step does to the outcome being reconciled.                       *)
LEMMA OutcomeKept ==
  ASSUME Inductive, Next, pc' \in Reconciling
  PROVE  /\ cur' = cur /\ cur \in Requests
         /\ \/ pc \in Reconciling /\ outcome' = outcome
            \/ pc = "AwaitResult" /\ future[cur].kind = "result" /\ outcome' = future[cur]
<1> USE DEF Inductive, Coherent
<1>1. CASE Server \/ Handshake \/ Pump \/ Timeout \/ Interrupt \/ Shutdown \/ Terminated
  <2>1. pc' = pc /\ outcome' = outcome /\ cur' = cur
    BY <1>1 DEF Server, ServerReady, ServerApply, ServerRefuse, ServerSync, ServerTick, ServerRepeat,
     ServerFault, ServerClose, Handshake, HandshakeState, HandshakeReadiness, HandshakeClosed,
     Pump, PumpState, PumpResult, PumpProtocolError, PumpUndecodable, PumpClosed,
     Timeout, Interrupt, Shutdown, Terminated, Stop, Goto, runnerVars, vars, Reconciling
  <2> QED BY <2>1, CurrentRequest
<1>2. CASE Trade
  <2>1. cur' = cur /\ \/ pc \in Reconciling /\ outcome' = outcome
                      \/ pc = "AwaitResult" /\ future[cur].kind = "result" /\ outcome' = future[cur]
    BY <1>2 DEF Trade, Decide, SendStart, SendFlushed, ReceiveOutcome, SyncStart, SyncWait,
     IncludeWait, IdleStart, IdleWait, Finish, Stop, Goto, WaitPass, Reconciling
  <2>2. pc \in Sending \cup Reconciling
    BY <2>1 DEF Sending
  <2> QED BY <2>1, <2>2, CurrentRequest
<1> QED BY <1>1, <1>2 DEF Next

LEMMA ResultsStep ==
  ASSUME Inductive, Next
  PROVE  ResultsAreHonest'
<1> USE DEF Inductive, Coherent
<1>1. \A m \in Messages(toClient') : m.kind = "result" => Honest(m)'
  <2> SUFFICES ASSUME NEW m \in Messages(toClient'), m.kind = "result" PROVE Honest(m)'
    OBVIOUS
  <2>1. m \in Messages(toClient) => Honest(m)
    BY DEF ResultsAreHonest
  <2> QED BY <2>1, ResultsSent, HonestKept DEF Honest
<1>2. \A i \in Requests : future'[i].kind = "result" =>
        /\ future'[i].id = i /\ future'[i].id \in answered'
        /\ future'[i].version = 0 \/ applied'[future'[i].id] <= future'[i].version
  <2> SUFFICES ASSUME NEW i \in Requests, future'[i].kind = "result"
               PROVE  /\ future'[i].id = i /\ future'[i].id \in answered'
                      /\ future'[i].version = 0 \/ applied'[future'[i].id] <= future'[i].version
    OBVIOUS
  <2>1. future'[i].id = i /\ Honest(future'[i])
    BY FuturesSettled DEF ResultsAreHonest
  <2> QED BY <2>1, HonestKept
<1>3. pc' \in Reconciling =>
        /\ outcome'.id = cur' /\ outcome'.id \in answered'
        /\ outcome'.version = 0 \/ applied'[outcome'.id] <= outcome'.version
  <2> SUFFICES ASSUME pc' \in Reconciling
               PROVE  /\ outcome'.id = cur' /\ outcome'.id \in answered'
                      /\ outcome'.version = 0 \/ applied'[outcome'.id] <= outcome'.version
    OBVIOUS
  <2>1. outcome'.id = cur' /\ Honest(outcome')
    BY OutcomeKept DEF ResultsAreHonest
  <2> QED BY <2>1, HonestKept
<1> QED BY <1>1, <1>2, <1>3 DEF ResultsAreHonest, Honest

-----------------------------------------------------------------------------
(* The command at the server.                                              *)

NoCommands(q) == \A k \in DOMAIN q : q[k].kind # "command"

Single(q, c) ==
  \A k \in DOMAIN q : q[k].kind = "command" =>
    q[k].id = c /\ \A l \in DOMAIN q : q[l].kind = "command" => k = l

(* Taking the head leaves at most one command, none if it was the command. *)
LEMMA SingleTail ==
  ASSUME NEW q \in Seq(ClientMessages), q # <<>>, NEW c, Single(q, c)
  PROVE  /\ Single(Tail(q), c) /\ (NoCommands(q) => NoCommands(Tail(q)))
         /\ Head(q).kind = "command" => NoCommands(Tail(q))
<1>1. DOMAIN q = 1..Len(q) /\ Len(q) \in Nat \ {0} /\ DOMAIN Tail(q) = 1..(Len(q) - 1)
      /\ \A k \in 1..(Len(q) - 1) : Tail(q)[k] = q[k + 1]
      /\ Head(q) = q[1]
  OBVIOUS
<1>2. \A k \in 1..(Len(q) - 1) : k + 1 \in 1..Len(q) /\ k + 1 # 1
  BY <1>1
<1>3. Single(Tail(q), c)
  <2> SUFFICES ASSUME NEW k \in 1..(Len(q) - 1), Tail(q)[k].kind = "command"
               PROVE  Tail(q)[k].id = c /\ \A l \in 1..(Len(q) - 1) : Tail(q)[l].kind = "command" => k = l
    BY <1>1 DEF Single
  <2>1. q[k + 1].kind = "command" /\ q[k + 1].id = c /\ k + 1 \in 1..Len(q)
    BY <1>1, <1>2 DEF Single
  <2>2. ASSUME NEW l \in 1..(Len(q) - 1), Tail(q)[l].kind = "command" PROVE k = l
    <3>1. q[l + 1].kind = "command" /\ l + 1 \in 1..Len(q)
      BY <1>1, <1>2, <2>2
    <3>2. k + 1 = l + 1
      BY <1>1, <2>1, <3>1 DEF Single
    <3> QED BY <3>2
  <2> QED BY <1>1, <2>1, <2>2
<1>4. NoCommands(q) => NoCommands(Tail(q))
  BY <1>1, <1>2 DEF NoCommands
<1>5. Head(q).kind = "command" => NoCommands(Tail(q))
  <2> SUFFICES ASSUME q[1].kind = "command", NEW k \in 1..(Len(q) - 1), q[k + 1].kind = "command"
               PROVE  FALSE
    BY <1>1 DEF NoCommands
  <2>1. 1 \in 1..Len(q) /\ k + 1 \in 1..Len(q)
    BY <1>1, <1>2
  <2>2. k + 1 = 1
    BY <1>1, <2>1 DEF Single
  <2> QED BY <1>2, <2>2
<1> QED BY <1>3, <1>4, <1>5

(* Appending to a queue without commands leaves at most the one appended.  *)
LEMMA SingleAppend ==
  ASSUME NEW q \in Seq(ClientMessages), NEW m \in ClientMessages, NoCommands(q)
  PROVE  /\ m.kind # "command" => NoCommands(Append(q, m))
         /\ Single(Append(q, m), m.id)
<1>1. DOMAIN q = 1..Len(q) /\ Len(q) \in Nat /\ DOMAIN Append(q, m) = 1..(Len(q) + 1)
      /\ \A k \in 1..Len(q) : Append(q, m)[k] = q[k]
      /\ Append(q, m)[Len(q) + 1] = m
  OBVIOUS
<1>2. \A k \in 1..(Len(q) + 1) : k \in 1..Len(q) \/ k = Len(q) + 1
  BY <1>1
<1> QED BY <1>1, <1>2 DEF NoCommands, Single

LEMMA CommandStep ==
  ASSUME Coherent, Next, pc = "AwaitResult" /\ pc' \in {"Loop", "SyncTask"} => cur \in answered
  PROVE  OneCommandAtTheServer'
<1> USE DEF Coherent
<1> DEFINE With == {"Flushing", "AwaitResult", "Stopping"}
<1>1. /\ Single(toServer, cur)
      /\ ~NoCommands(toServer) => cur \notin answered /\ pc \in With
      /\ pc = "SendTask" => cur \notin answered
      /\ toServer \in Seq(ClientMessages)
  BY DEF OneCommandAtTheServer, Single, NoCommands, DataOK
<1>2. (\/ NoCommands(toServer')
       \/ Single(toServer', cur') /\ cur' \notin answered' /\ pc' \in With)
      /\ (pc' = "SendTask" => cur' \notin answered')
      => OneCommandAtTheServer'
  BY DEF OneCommandAtTheServer, Single, NoCommands
<1>3. NoCommands(<<>>) /\ (NoCommands(toServer) => Single(toServer, cur))
  BY DEF NoCommands, Single
<1>4. CASE ServerReady \/ ServerSync
  <2>1. toServer # <<>> /\ toServer' = Tail(toServer) /\ UNCHANGED <<answered, cur, pc>>
    BY <1>4 DEF ServerReady, ServerSync, Reads, serverVars, runnerVars
  <2> QED BY <1>1, <1>2, <2>1, SingleTail
<1>5. CASE ServerApply \/ ServerRefuse
  <2>1. /\ toServer # <<>> /\ Head(toServer).kind = "command"
        /\ toServer' = Tail(toServer) /\ UNCHANGED <<cur, pc>>
    BY <1>5 DEF ServerApply, ServerRefuse, Reads, runnerVars
  <2>2. pc \in With
    BY <1>5, CommandRead DEF ServerApply, ServerRefuse
  <2> QED BY <1>1, <1>2, <2>1, <2>2, SingleTail
<1>6. CASE ServerTick \/ ServerRepeat \/ ServerFault \/ Pump \/ Terminated
  <2>1. UNCHANGED <<toServer, answered, cur, pc>>
    BY <1>6 DEF ServerTick, ServerRepeat, ServerFault, Pump, PumpState, PumpResult, PumpProtocolError,
       PumpUndecodable, PumpClosed, Terminated, vars, serverVars, linkVars, runnerVars
  <2> QED BY <1>1, <1>2, <2>1
<1>7. CASE ServerClose \/ Shutdown
  <2>1. toServer' = <<>> /\ UNCHANGED <<answered, cur>> /\ (pc' = pc \/ pc' = "Stopped")
    BY <1>7 DEF ServerClose, Shutdown, serverVars, runnerVars
  <2> QED BY <1>1, <1>2, <1>3, <2>1
<1>8. CASE HandshakeState \/ SyncStart
  <2>1. NoCommands(toServer) /\ pc' # "SendTask"
    BY <1>1, <1>8 DEF HandshakeState, SyncStart, Goto, Stop
  <2>2. /\ Sync \in ClientMessages /\ Sync.kind # "command"
        /\ \A n \in Nat : Ready(n) \in ClientMessages /\ Ready(n).kind # "command"
    BY MessageTypes DEF Ready, Sync
  <2>3. \/ toServer' = toServer
        \/ toServer' = Append(toServer, Sync)
        \/ /\ toClient # <<>> /\ Head(toClient).kind = "state"
           /\ toServer' = Append(toServer, Ready(Head(toClient).snap.seq))
    BY <1>8 DEF HandshakeState, SyncStart
  <2>4. toClient # <<>> /\ Head(toClient).kind = "state" => Head(toClient).snap.seq \in Nat
    BY ReadMessage, MessageFields DEF Snapshots
  <2>5. NoCommands(toServer')
    BY <1>1, <2>1, <2>2, <2>3, <2>4, SingleAppend
  <2> QED BY <1>2, <2>1, <2>5
<1>9. CASE Decide
  <2>1. NoCommands(toServer) /\ toServer' = toServer /\ answered' = answered /\ cur' = cur + 1
    BY <1>1, <1>9 DEF Decide, linkVars, serverVars
  <2>2. cur + 1 \notin answered
    BY DEF EffectsAreAnswered, DataOK
  <2> QED BY <1>2, <2>1, <2>2
<1>10. CASE SendStart
  <2>1. /\ NoCommands(toServer) /\ cur \notin answered /\ cur \in Requests
        /\ UNCHANGED <<answered, cur>> /\ pc' # "SendTask"
    BY <1>1, <1>10, CurrentRequest DEF SendStart, Stop, Goto, serverVars, Sending
  <2>2. toServer' = toServer \/ (toServer' = Append(toServer, Command(cur)) /\ pc' = "Flushing")
    BY <1>10 DEF SendStart, Goto
  <2>3. Command(cur) \in ClientMessages /\ Command(cur).id = cur
    BY <2>1, MessageTypes DEF Command
  <2> QED BY <1>1, <1>2, <2>1, <2>2, <2>3, SingleAppend
<1>11. CASE SendFlushed
  <2>1. UNCHANGED <<toServer, answered, cur>> /\ pc' \in {"AwaitResult", "Stopping"}
    BY <1>11 DEF SendFlushed, Goto, Stop, serverVars, linkVars
  <2> QED BY <1>1, <1>2, <2>1
<1>12. CASE ReceiveOutcome
  <2>1. UNCHANGED <<toServer, answered, cur>> /\ pc = "AwaitResult" /\ cur \in Requests
    BY <1>12, CurrentRequest DEF ReceiveOutcome, Goto, Stop, serverVars, linkVars, Sending
  <2>2. CASE future[cur].kind = "result"
    <3>1. cur \in answered
      BY <1>12, <2>2 DEF ReceiveOutcome, Goto, Stop
    <3>2. pc' # "SendTask"
      BY <1>12 DEF ReceiveOutcome, Goto, Stop
    <3> QED BY <1>1, <1>2, <2>1, <3>1, <3>2
  <2>3. CASE future[cur].kind # "result"
    <3>1. pc' = "Stopping"
      BY <1>12, <2>3 DEF ReceiveOutcome, Stop
    <3> QED BY <1>1, <1>2, <2>1, <3>1
  <2> QED BY <2>2, <2>3
<1>13. CASE HandshakeReadiness \/ HandshakeClosed \/ SyncWait \/ IncludeWait \/ IdleStart \/ IdleWait
            \/ Finish
  <2>1. /\ UNCHANGED <<toServer, answered, cur>> /\ pc' # "SendTask"
        /\ pc \notin With
    BY <1>13 DEF HandshakeReadiness, HandshakeClosed, SyncWait, IncludeWait, IdleStart, IdleWait, Finish,
       WaitPass, Goto, Stop, serverVars, linkVars
  <2> QED BY <1>1, <1>2, <2>1
<1>14. CASE Timeout \/ Interrupt
  <2>1. UNCHANGED <<toServer, answered, cur>> /\ pc' = "Stopping"
    BY <1>14 DEF Timeout, Interrupt, Stop, serverVars, linkVars
  <2> QED BY <1>1, <1>2, <2>1
<1> QED BY <1>4, <1>5, <1>6, <1>7, <1>8, <1>9, <1>10, <1>11, <1>12, <1>13, <1>14
    DEF Next, Server, Handshake, Trade

-----------------------------------------------------------------------------
(* The world the client holds.                                             *)

(* A step keeps the world, or reads the first state of the handshake, or   *)
(* replaces it with a newer snapshot, which shows at least as much.        *)
LEMMA WorldReplaced ==
  ASSUME Coherent, Next
  PROVE  \/ world' = world
         \/ pc = "AwaitState" /\ pc' = "AwaitReadiness" /\ cur = 0 /\ pump = "off" /\ world'.run
         \/ /\ PumpState /\ pump = "running" /\ updated' = TRUE
            /\ world'.run /\ world'.seq > world.seq
            /\ world'.version >= world.version /\ world.records \subseteq world'.records
<1> USE DEF Coherent
<1>1. CASE HandshakeState
  BY <1>1 DEF HandshakeState, HandshakeFirst, Goto
<1>2. CASE PumpState
  <2> DEFINE s == Head(toClient).snap
  <2>1. toClient # <<>> /\ Head(toClient).kind = "state" /\ pump = "running"
    BY <1>2 DEF PumpState, Receive
  <2>2. s \in Held /\ s \in Snapshots /\ world \in Held /\ world \in Snapshots /\ world.run
    BY <2>1, ReadMessage, HeldTypes DEF Held, HandshakeFirst, DataOK
  <2>3. world' = world \/ (s.run /\ s.seq > world.seq /\ world' = s /\ updated' = TRUE)
    BY <1>2 DEF PumpState, PumpEnd, Replace, Newer, pumpVars
  <2>4. s.seq \in Nat /\ world.seq \in Nat /\ s.version \in Nat /\ world.version \in Nat
    BY <2>2 DEF Snapshots
  <2>5. s.run /\ s.seq > world.seq => world.version <= s.version /\ world.records \subseteq s.records
    BY <2>2, <2>4 DEF SnapshotsAreOrdered
  <2> HIDE DEF s
  <2> QED BY <1>2, <2>1, <2>3, <2>4, <2>5
<1>3. CASE Server \/ HandshakeReadiness \/ HandshakeClosed \/ PumpResult \/ PumpProtocolError
           \/ PumpUndecodable \/ PumpClosed \/ Timeout \/ Interrupt \/ Shutdown \/ Terminated
  BY <1>3 DEF Server, ServerReady, ServerApply, ServerRefuse, ServerSync, ServerTick, ServerRepeat,
     ServerFault, ServerClose, HandshakeReadiness, HandshakeClosed,
     PumpResult, PumpProtocolError, PumpUndecodable, PumpClosed,
     Timeout, Interrupt, Shutdown, Terminated, pumpVars, vars
<1>4. CASE Trade
  BY <1>4 DEF Trade, Decide, SendStart, SendFlushed, ReceiveOutcome, SyncStart, SyncWait,
     IncludeWait, IdleStart, IdleWait, Finish, pumpVars
<1> QED BY <1>1, <1>2, <1>3, <1>4 DEF Next, Handshake, Pump

(* What a snapshot reflects stays reflected.                               *)
LEMMA ReflectsKept ==
  ASSUME Coherent, Next, NEW i \in answered, Reflects(world, i), cur # 0
  PROVE  applied'[i] <= world'.version
<1>1. applied'[i] = applied[i] /\ applied[i] \in Nat /\ i \in Requests
  BY EffectsKept DEF Coherent, DataOK
<1>2. world.version \in Nat /\ world'.version \in Nat
  BY DataStep DEF Coherent, DataOK, Snapshots
<1>3. world.version <= world'.version
  <2>1. world' = world \/ world'.version >= world.version
    BY WorldReplaced, Zenon
  <2> QED BY <1>2, <2>1
<1> QED BY <1>1, <1>2, <1>3 DEF Reflects

LEMMA EarlierStep ==
  ASSUME Inductive, Next
  PROVE  EarlierCommandsSettled'
<1> USE DEF Inductive, Coherent
<1>1. cur \in Nat
  BY DEF DataOK
<1>2. CASE cur' = cur
  <2> SUFFICES ASSUME NEW i \in 1..cur - 1
               PROVE  i \in answered' /\ applied'[i] <= world'.version
    BY <1>2 DEF EarlierCommandsSettled, Reflects
  <2>1. i \in answered /\ Reflects(world, i) /\ cur # 0
    BY <1>1 DEF EarlierCommandsSettled
  <2> QED BY <2>1, EffectsKept, ReflectsKept
<1>3. CASE Decide /\ cur' = cur + 1
  <2>1. pc = "Loop" /\ world' = world /\ answered' = answered /\ applied' = applied
    BY <1>3 DEF Decide, serverVars, pumpVars
  <2>2. cur' - 1 = cur
    BY <1>1, <1>3
  <2> QED BY <2>1, <2>2 DEF EarlierCommandsSettled, DecidesOnSettledWorld, Reflects
<1> QED BY <1>2, <1>3, CommandsIssued

(* How the runner gets to where it decides.                                *)
LEMMA LoopEntered ==
  ASSUME Inductive, Next, pc' \in {"Loop", "Idle"}
  PROVE  /\ cur' = cur
         /\ \/ pc \in {"Loop", "Idle"}
            \/ pc = "AwaitReadiness" /\ cur = 0
            \/ /\ UNCHANGED <<serverVars, world>> /\ cur \in Requests
               /\ \E o : /\ o \in [kind : {"result"}, id : Requests \cup {NoRequest}, version : Nat]
                         /\ o.id = cur /\ Honest(o) /\ IncludesResult(world, o)
<1> USE DEF Inductive, Coherent
<1>1. CASE Server \/ Pump \/ Timeout \/ Interrupt \/ Shutdown \/ Terminated
  BY <1>1 DEF Server, ServerReady, ServerApply, ServerRefuse, ServerSync, ServerTick, ServerRepeat,
     ServerFault, ServerClose, Pump, PumpState, PumpResult, PumpProtocolError, PumpUndecodable,
     PumpClosed, Timeout, Interrupt, Shutdown, Terminated, Stop, runnerVars, vars
<1>2. CASE Handshake
  BY <1>2 DEF Handshake, HandshakeState, HandshakeReadiness, HandshakeClosed, Stop, Goto, HandshakeFirst
<1>3. CASE ReceiveOutcome
  <2>1. /\ future[cur].kind = "result" /\ IncludesResult(world, future[cur]) /\ cur' = cur
        /\ pc = "AwaitResult"
    BY <1>3 DEF ReceiveOutcome, Goto, Stop
  <2>2. cur \in Requests /\ future[cur] \in Futures
    BY <2>1, CurrentRequest DEF Sending, DataOK
  <2>3. /\ future[cur].id = cur /\ Honest(future[cur])
        /\ future[cur] \in [kind : {"result"}, id : Requests \cup {NoRequest}, version : Nat]
    BY <2>1, <2>2 DEF ResultsAreHonest, Futures, Unset, Rejected, Disconnected
  <2>4. UNCHANGED <<serverVars, world>>
    BY <1>3 DEF ReceiveOutcome
  <2> QED BY <2>1, <2>2, <2>3, <2>4
<1>4. CASE IncludeWait
  <2>1. /\ pc \in Reconciling /\ IncludesResult(world, outcome)
        /\ cur' = cur /\ UNCHANGED <<serverVars, world>>
    BY <1>4 DEF IncludeWait, WaitPass, Goto, Reconciling
  <2>2. outcome.id = cur /\ Honest(outcome) /\ cur \in Requests
    BY <2>1, CurrentRequest DEF ResultsAreHonest
  <2> QED BY <2>1, <2>2 DEF DataOK
<1>5. CASE Trade /\ ~ReceiveOutcome /\ ~IncludeWait
  BY <1>5 DEF Trade, Decide, SendStart, SendFlushed, SyncStart, SyncWait, IdleStart, IdleWait, Finish,
     Stop, Goto, WaitPass
<1> QED BY <1>1, <1>2, <1>3, <1>4, <1>5 DEF Next

(* A snapshot that includes an honest result reflects its command.         *)
LEMMA IncludedIsReflected ==
  ASSUME Inductive, NEW o \in [kind : {"result"}, id : Requests \cup {NoRequest}, version : Nat],
         o.id \in Requests, Honest(o), IncludesResult(world, o)
  PROVE  Reflects(world, o.id)
<1> USE DEF Inductive, Coherent
<1>1. /\ applied[o.id] \in Nat /\ o.version \in Nat /\ world.version \in Nat
      /\ world.run /\ world \in Held
  BY DEF DataOK, Snapshots, HandshakeFirst, Held
<1>2. CASE o.version > 0 /\ world.version >= o.version
  BY <1>1, <1>2 DEF Honest, Reflects
<1>3. CASE o.id \in world.records
  BY <1>1, <1>3 DEF SnapshotsAreSound, Reflects
<1> QED BY <1>2, <1>3 DEF IncludesResult

LEMMA DecidesStep ==
  ASSUME Inductive, Next
  PROVE  DecidesOnSettledWorld'
<1> USE DEF Inductive, Coherent
<1> SUFFICES ASSUME pc' \in {"Loop", "Idle"}, NEW i \in 1..cur'
             PROVE  i \in answered' /\ applied'[i] <= world'.version
  BY DEF DecidesOnSettledWorld, Reflects
<1>1. cur' = cur /\ cur \in Nat /\ i \in 1..cur /\ cur # 0
  BY LoopEntered DEF DataOK
<1>2. i \in answered /\ Reflects(world, i)
  <2>1. CASE pc \in {"Loop", "Idle"}
    BY <1>1, <2>1 DEF DecidesOnSettledWorld
  <2>2. CASE pc \notin {"Loop", "Idle"}
    <3>1. PICK o \in [kind : {"result"}, id : Requests \cup {NoRequest}, version : Nat] :
            o.id = cur /\ Honest(o) /\ IncludesResult(world, o) /\ cur \in Requests
      BY <1>1, <2>2, LoopEntered
    <3>2. cur \in answered /\ Reflects(world, cur)
      BY <3>1, IncludedIsReflected DEF Honest
    <3>3. i = cur \/ i \in 1..cur - 1
      BY <1>1
    <3> QED BY <3>2, <3>3 DEF EarlierCommandsSettled
  <2> QED BY <2>1, <2>2
<1> QED BY <1>1, <1>2, EffectsKept, ReflectsKept

-----------------------------------------------------------------------------
(* The handshake, the pump and the wake-ups.                               *)

(* What the server does to the queue keeps its first message.              *)
LEMMA GreetingKept ==
  ASSUME Coherent, Server
  PROVE  \/ /\ open /\ toClient' # <<>>
            /\ toClient # <<>> => Head(toClient') = Head(toClient)
         \/ /\ ~open'
            /\ toClient' # <<>> => toClient # <<>> /\ Head(toClient') = Head(toClient)
<1> USE DEF Coherent
<1>0. toClient \in Seq(ServerMessages)
  BY DEF DataOK
<1>1. CASE ServerApply
  <2> DEFINE i == Head(toServer).id
             t == State([Snapshot(seq + 1) EXCEPT !.version = version + 1, !.records = @ \cup {i}])
  <2>1. i \in Requests
    BY <1>1, CommandRead DEF ServerApply
  <2>2. PICK v \in {0, version + 1} :
          \/ toClient' = Append(Append(toClient, Result(i, v)), t)
          \/ toClient' = Append(Append(toClient, t), Result(i, v))
    BY <1>1 DEF ServerApply
  <2> DEFINE result == Result(i, v)
  <2>3. result \in ServerMessages /\ t \in ServerMessages
    <3>1. Snapshot(seq + 1) \in Snapshots /\ answered \cup {i} \in SUBSET Requests /\ version + 1 \in Nat
      BY <2>1, MessageTypes DEF DataOK
    <3>2. [Snapshot(seq + 1) EXCEPT !.version = version + 1, !.records = @ \cup {i}] \in Snapshots
      BY <2>1, <3>1 DEF Snapshots, DataOK
    <3>3. v \in Nat
      BY <2>2, <3>1
    <3> QED BY <2>1, <3>2, <3>3, MessageTypes
  <2>4. open
    BY <1>1 DEF ServerApply, Reads
  <2> HIDE DEF t, result
  <2>5. /\ Append(Append(toClient, result), t) # <<>> /\ Append(Append(toClient, t), result) # <<>>
        /\ toClient # <<>> => /\ Head(Append(Append(toClient, result), t)) = Head(toClient)
                              /\ Head(Append(Append(toClient, t), result)) = Head(toClient)
    BY <1>0, <2>3, MessagesAppendTwo
  <2>6. \/ toClient' = Append(Append(toClient, result), t)
        \/ toClient' = Append(Append(toClient, t), result)
    BY <2>2 DEF result
  <2> QED BY <2>4, <2>5, <2>6, Zenon
<1>2. CASE ServerRefuse
  <2> DEFINE i == Head(toServer).id
  <2>1. i \in Requests /\ version \in Nat /\ open
    BY <1>2, CommandRead DEF ServerRefuse, Reads, DataOK
  <2>2. /\ Result(i, version) \in ServerMessages
        /\ ProtocolError(i, FALSE) \in ServerMessages /\ ProtocolError(i, TRUE) \in ServerMessages
    BY <2>1, MessageTypes
  <2>3. PICK n \in ServerMessages : toClient' = Append(toClient, n)
    BY <1>2, <2>2 DEF ServerRefuse
  <2> QED BY <1>0, <2>1, <2>3, MessagesAppend
<1>3. CASE ServerReady \/ ServerSync \/ ServerTick \/ ServerRepeat \/ ServerFault
  <2>1. PICK n \in ServerMessages : toClient' = Append(toClient, n)
    BY <1>3, OtherMessages
  <2>2. open
    BY <1>3 DEF ServerReady, ServerSync, ServerTick, ServerRepeat, ServerFault, CanSend
  <2> QED BY <1>0, <2>1, <2>2, MessagesAppend
<1>4. CASE ServerClose
  <2>1. PICK k \in 0..Len(toClient) : toClient' = SubSeq(toClient, 1, k)
    BY <1>4 DEF ServerClose
  <2>2. ~open'
    BY <1>4 DEF ServerClose
  <2> QED BY <1>0, <2>1, <2>2, MessagesPrefix
<1> QED BY <1>1, <1>2, <1>3, <1>4 DEF Server

LEMMA HandshakeStep ==
  ASSUME Coherent, Next
  PROVE  HandshakeFirst'
<1> USE DEF Coherent
<1>1. world'.run
  BY WorldReplaced DEF HandshakeFirst
<1>2. CASE pc' \notin {"AwaitState", "AwaitReadiness"}
  BY <1>1, <1>2 DEF HandshakeFirst
<1>3. CASE Server
  <2>1. UNCHANGED <<pump, world, pc, cur>>
    BY <1>3 DEF Server, ServerReady, ServerApply, ServerRefuse, ServerSync, ServerTick, ServerRepeat,
       ServerFault, ServerClose, pumpVars, runnerVars
  <2>2. pc = "AwaitState" =>
          \/ toClient' # <<>> /\ (Head(toClient').kind = "state" => Head(toClient').snap.run)
          \/ toClient' = <<>> /\ ~open'
    BY <1>3, GreetingKept DEF HandshakeFirst
  <2> QED BY <1>1, <2>1, <2>2 DEF HandshakeFirst
<1>4. CASE HandshakeState /\ pc' = "AwaitReadiness"
  BY <1>1, <1>4 DEF HandshakeState, HandshakeFirst, Stop
<1>5. CASE Terminated
  BY <1>5 DEF Terminated, vars, linkVars, pumpVars, runnerVars, HandshakeFirst
<1>6. CASE Handshake /\ pc' \in {"AwaitState", "AwaitReadiness"}
  BY <1>4, <1>6 DEF Handshake, HandshakeState, HandshakeReadiness, HandshakeClosed, Stop, Goto
<1>7. CASE Pump
  BY <1>1, <1>2, <1>7 DEF Pump, PumpState, PumpResult, PumpProtocolError, PumpUndecodable, PumpClosed,
     Receive, runnerVars, HandshakeFirst
<1>8. CASE Trade \/ Timeout \/ Interrupt \/ Shutdown
  <2>1. pc' \notin {"AwaitState", "AwaitReadiness"}
    BY <1>8 DEF Trade, Decide, SendStart, SendFlushed, ReceiveOutcome, SyncStart, SyncWait,
     IncludeWait, IdleStart, IdleWait, Finish, Stop, Goto, WaitPass, Timeout, Interrupt, Shutdown
  <2> QED BY <1>2, <2>1
<1> QED BY <1>2, <1>3, <1>5, <1>6, <1>7, <1>8 DEF Next

(* A step of the session, of its server or of its runner keeps the part of *)
(* the invariant that does not depend on the runner; a result it receives  *)
(* must be one the server has sent.                                        *)
LEMMA CoherentStep ==
  ASSUME Coherent, Next, pc = "AwaitResult" /\ pc' \in {"Loop", "SyncTask"} => cur \in answered
  PROVE  Coherent'
<1>1. DataOK' /\ CommandInProgress'
  BY DataStep DEF Coherent
<1>2. SnapshotsAreSound' /\ SnapshotsAreOrdered' /\ EffectsAreAnswered' /\ HandshakeFirst'
  BY SnapshotsStep, EffectsStep, HandshakeStep
<1>3. OneCommandAtTheServer'
  BY CommandStep
<1> QED BY <1>1, <1>2, <1>3 DEF Coherent

(* The end of the pump fails every future registered, and signals.         *)
LEMMA PumpEnds ==
  ASSUME NEW error, error # "none", NEW futures, DOMAIN futures = Requests, PumpEnd(error, futures)
  PROVE  /\ pump' = "ended" /\ pumpError' # "none" /\ updated' = TRUE
         /\ \A i \in Requests : i \in pending \/ futures[i] # Unset => future'[i] # Unset
BY DEF PumpEnd, FailAll, Unset, Disconnected

(* A step of the pump ends it, with every future settled and the event     *)
(* set, or leaves it running and drops no reply.                           *)
LEMMA PumpAccounts ==
  ASSUME Coherent, Pump
  PROVE  /\ UNCHANGED runnerVars /\ pump = "running"
         /\ \/ /\ pump' = "ended" /\ pumpError' # "none" /\ updated' = TRUE
               /\ \A i \in Requests : i \in pending \/ future[i] # Unset => future'[i] # Unset
            \/ /\ UNCHANGED <<pump, pumpError>> /\ (updated => updated')
               /\ world' = world \/ updated'
               /\ \A i \in Requests :
                    i \in pending \/ future[i] # Unset => i \in pending' \/ future'[i] # Unset
<1> USE DEF Coherent
<1>1. UNCHANGED runnerVars /\ pump = "running"
  BY DEF Pump, PumpState, PumpResult, PumpProtocolError, PumpUndecodable, PumpClosed, Receive
<1>2. DOMAIN future = Requests
  BY DEF DataOK
<1>3. CASE PumpState
  <2>1. CASE PumpEnd("run changed", future)
    BY <1>1, <1>2, <2>1, PumpEnds
  <2>2. CASE UNCHANGED pumpVars \/ (Replace(Head(toClient).snap) /\ UNCHANGED <<pump, pumpError, pending, future>>)
    BY <1>1, <2>2 DEF pumpVars, Replace
  <2> QED BY <1>3, <2>1, <2>2 DEF PumpState
<1>4. CASE PumpResult
  <2> DEFINE m == Head(toClient)
  <2>1. m # Unset
    BY <1>4 DEF PumpResult, Receive, Unset
  <2>2. future' = Settle(pending, future, m.id, m) /\ pending' = Discard(pending, m.id)
    BY <1>4 DEF PumpResult
  <2>3. UNCHANGED <<pump, pumpError, updated, world>>
    BY <1>4 DEF PumpResult
  <2> HIDE DEF m
  <2>4. \A i \in Requests : i \in pending \/ future[i] # Unset => i \in pending' \/ future'[i] # Unset
    BY <1>2, <2>1, <2>2 DEF Settle, Discard
  <2> QED BY <1>1, <2>3, <2>4
<1>5. CASE PumpProtocolError
  <2> DEFINE m == Head(toClient)
             futures == IF m.id # NoRequest THEN Settle(pending, future, m.id, Rejected) ELSE future
  <2>1. /\ DOMAIN futures = Requests
        /\ \A i \in Requests : futures[i] = future[i] \/ futures[i] = Rejected
        /\ \A i \in Requests : i = m.id /\ i \in pending /\ i # NoRequest => futures[i] # Unset
    BY <1>2 DEF Settle, Unset, Rejected
  <2>2. Rejected # Unset
    BY DEF Rejected, Unset
  <2>3. CASE PumpEnd("protocol error", futures)
    <3> HIDE DEF futures
    <3>1. \A i \in Requests : i \in pending \/ futures[i] # Unset => future'[i] # Unset
      BY <2>1, <2>3, PumpEnds
    <3>2. pump' = "ended" /\ pumpError' # "none" /\ updated' = TRUE
      BY <2>1, <2>3, PumpEnds
    <3> QED BY <1>1, <2>1, <2>2, <3>1, <3>2
  <2>4. CASE m.id # NoRequest /\ future' = futures /\ pending' = Discard(pending, m.id)
             /\ UNCHANGED <<pump, pumpError, updated>>
    <3>1. world' = world
      BY <1>5 DEF PumpProtocolError
    <3> HIDE DEF futures, m
    <3>2. \A i \in Requests : i \in pending \/ future[i] # Unset => i \in pending' \/ future'[i] # Unset
      BY <2>1, <2>2, <2>4 DEF Discard
    <3> QED BY <1>1, <2>4, <3>1, <3>2
  <2> QED BY <1>5, <2>3, <2>4 DEF PumpProtocolError
<1>6. CASE PumpUndecodable \/ PumpClosed
  <2>1. PumpEnd("undecodable", future) \/ PumpEnd("closed", future)
    BY <1>6 DEF PumpUndecodable, PumpClosed
  <2> QED BY <1>1, <1>2, <2>1, PumpEnds
<1> QED BY <1>3, <1>4, <1>5, <1>6 DEF Pump

(* The steps of others that touch none of this.                            *)
LEMMA ServerAndIdleSteps ==
  ASSUME Inductive, Server \/ Terminated
  PROVE  UNCHANGED <<pumpVars, runnerVars>>
BY DEF Server, ServerReady, ServerApply, ServerRefuse, ServerSync, ServerTick, ServerRepeat,
   ServerFault, ServerClose, Terminated, vars

LEMMA AccountableStep ==
  ASSUME Inductive, Next
  PROVE  PumpIsAccountable'
<1> USE DEF Inductive, Coherent
<1>1. CASE Server \/ Terminated
  <2>1. UNCHANGED <<pumpVars, runnerVars>>
    BY <1>1, ServerAndIdleSteps
  <2> QED BY <2>1 DEF PumpIsAccountable, pumpVars, runnerVars
<1>2. CASE Pump
  <2>1. pc' = pc /\ cur' = cur
    BY <1>2, PumpAccounts DEF runnerVars
  <2>2. pump' = "ended" <=> pumpError' # "none"
    BY <1>2, PumpAccounts DEF PumpIsAccountable
  <2>3. pc \in {"Flushing", "AwaitResult"} => cur \in Requests
    BY CurrentRequest DEF Sending
  <2> QED BY <1>2, <2>1, <2>2, <2>3, PumpAccounts DEF PumpIsAccountable
<1>3. CASE Handshake
  BY <1>3 DEF PumpIsAccountable, Handshake, HandshakeState, HandshakeReadiness, HandshakeClosed,
     Stop, Goto, HandshakeFirst
<1>4. CASE SendStart
  BY <1>4 DEF PumpIsAccountable, SendStart, Register, Stop, Goto
<1>5. CASE SendFlushed
  BY <1>5 DEF PumpIsAccountable, SendFlushed, Stop, Goto
<1>6. CASE (Trade /\ ~SendStart /\ ~SendFlushed) \/ Timeout \/ Interrupt
  <2>1. UNCHANGED <<pump, pumpError>>
    BY <1>6 DEF Trade, Decide, ReceiveOutcome, SyncStart, SyncWait,
     IncludeWait, IdleStart, IdleWait, Finish, Timeout, Interrupt, pumpVars
  <2>2. pc' \notin {"Flushing", "AwaitResult"}
    BY <1>6 DEF Trade, Decide, ReceiveOutcome, SyncStart, SyncWait,
     IncludeWait, IdleStart, IdleWait, Finish, Timeout, Interrupt, Stop, Goto, WaitPass
  <2> QED BY <2>1, <2>2 DEF PumpIsAccountable
<1>7. CASE Shutdown
  <2>1. pc' = "Stopped" /\ (PumpEnd("closed", future) \/ UNCHANGED <<pump, pumpError>>)
    BY <1>7 DEF Shutdown
  <2> QED BY <2>1 DEF PumpIsAccountable, PumpEnd
<1> QED BY <1>1, <1>2, <1>3, <1>4, <1>5, <1>6, <1>7 DEF Next

LEMMA WakeupStep ==
  ASSUME Inductive, Next
  PROVE  NoLostWakeup'
<1> USE DEF Inductive, Coherent
<1> DEFINE Sleeps == {"Idle", "SyncSleep", "IncludeSleep"}
           Awaits == {"Flushing", "AwaitResult"}
<1>1. CASE Server \/ Terminated
  <2>1. UNCHANGED <<pumpVars, runnerVars>>
    BY <1>1, ServerAndIdleSteps
  <2> QED BY <2>1 DEF NoLostWakeup, IncludesResult, pumpVars, runnerVars
<1>2. CASE Pump
  <2>1. pc' = pc /\ cur' = cur /\ baseSeq' = baseSeq /\ outcome' = outcome /\ pump = "running"
    BY <1>2, PumpAccounts DEF runnerVars
  <2>2. pc \in Awaits => cur \in Requests /\ (cur \in pending \/ future[cur] # Unset)
    BY CurrentRequest DEF Sending, PumpIsAccountable
  <2>3. CASE pump' = "ended" /\ updated' = TRUE
             /\ \A i \in Requests : i \in pending \/ future[i] # Unset => future'[i] # Unset
    BY <2>1, <2>2, <2>3 DEF NoLostWakeup
  <2>4. CASE UNCHANGED <<pump, pumpError>> /\ (updated => updated') /\ (world' = world \/ updated')
    BY <2>1, <2>4 DEF NoLostWakeup, IncludesResult
  <2> QED BY <1>2, <2>3, <2>4, PumpAccounts
<1>3. CASE pc' \notin Sleeps \cup Awaits
  BY <1>3 DEF NoLostWakeup
<1>4. CASE SendStart
  BY <1>3, <1>4 DEF SendStart, Stop, Goto, NoLostWakeup, PumpIsAccountable
<1>5. CASE SendFlushed
  BY <1>3, <1>5 DEF SendFlushed, Stop, Goto, NoLostWakeup
<1>6. CASE SyncWait
  <2>1. UNCHANGED <<world, pump, pumpError, baseSeq>>
    BY <1>6 DEF SyncWait
  <2>2. CASE pc' = "SyncSleep" /\ ~(world.seq > baseSeq) /\ pumpError = "none"
    BY <2>1, <2>2 DEF NoLostWakeup, PumpIsAccountable
  <2>3. CASE pc' \in {"Synced", "Stopping"}
    BY <1>3, <2>3
  <2> QED BY <1>6, <2>2, <2>3 DEF SyncWait, WaitPass, Goto
<1>7. CASE IncludeWait
  <2>1. UNCHANGED <<world, pump, pumpError, outcome>>
    BY <1>7 DEF IncludeWait
  <2>2. CASE pc' = "IncludeSleep" /\ ~IncludesResult(world, outcome) /\ pumpError = "none"
    BY <2>1, <2>2 DEF NoLostWakeup, PumpIsAccountable, IncludesResult
  <2>3. CASE pc' \in {"Loop", "Stopping"}
    BY <1>3, <2>3
  <2> QED BY <1>7, <2>2, <2>3 DEF IncludeWait, WaitPass, Goto
<1>8. CASE IdleStart
  <2>1. UNCHANGED <<world, pump, pumpError>> /\ baseSeq' = world.seq
    BY <1>8 DEF IdleStart
  <2>2. CASE pc' = "Idle" /\ pumpError = "none"
    BY <2>1, <2>2 DEF NoLostWakeup, PumpIsAccountable, DataOK, Snapshots
  <2>3. CASE pc' = "Stopping"
    BY <1>3, <2>3
  <2> QED BY <1>8, <2>2, <2>3 DEF IdleStart, WaitPass, Goto
<1>9. CASE IdleWait
  <2>1. UNCHANGED <<world, pump, pumpError, baseSeq>>
    BY <1>9 DEF IdleWait
  <2>2. CASE pc' = "Idle" /\ ~(world.seq > baseSeq) /\ pumpError = "none"
    BY <2>1, <2>2 DEF NoLostWakeup, PumpIsAccountable
  <2>3. CASE pc' \in {"Loop", "Stopping"}
    BY <1>3, <2>3
  <2> QED BY <1>9, <2>2, <2>3 DEF IdleWait, WaitPass, Goto
<1>10. CASE Handshake \/ Decide \/ ReceiveOutcome \/ SyncStart \/ Finish \/ Timeout \/ Interrupt
            \/ Shutdown
  <2>1. pc' \notin Sleeps \cup Awaits
    BY <1>10 DEF Handshake, HandshakeState, HandshakeReadiness, HandshakeClosed, Decide, ReceiveOutcome,
       SyncStart, Finish, Timeout, Interrupt, Shutdown, Stop, Goto
  <2> QED BY <1>3, <2>1
<1> QED BY <1>1, <1>2, <1>4, <1>5, <1>6, <1>7, <1>8, <1>9, <1>10 DEF Next, Trade

-----------------------------------------------------------------------------
(* The inductive invariant.                                                *)

LEMMA InductiveInit == Init => Inductive
<1> SUFFICES ASSUME Init PROVE Inductive
  OBVIOUS
<1>1. TypeOK /\ DataOK
  BY TypeInit DEF TypeOK
<1>2. \A s \in Held : s.run /\ s.seq <= 1 /\ s.version <= 1 /\ s.records = {}
                      /\ (s.seq = 0 => s.version = 0) /\ (s.seq = 1 => s.version = 1)
                      /\ s.seq \in {0, 1}
  <2>1. /\ \A m \in Messages(toClient) : m.kind = "state" => m.snap = Snapshot(1)
    BY DEF Init, Messages, State, ProtocolError
  <2>2. Held \subseteq {NoWorld, Snapshot(1)}
    BY <2>1 DEF Held, Init
  <2>3. /\ Snapshot(1).run /\ Snapshot(1).seq = 1 /\ Snapshot(1).version = 1 /\ Snapshot(1).records = {}
        /\ NoWorld.run /\ NoWorld.seq = 0 /\ NoWorld.version = 0 /\ NoWorld.records = {}
    BY DEF Init, Snapshot, NoWorld
  <2> QED BY <2>2, <2>3
<1>3. SnapshotsAreSound
  <2>1. seq = 1 /\ version = 1
    BY DEF Init
  <2> QED BY <1>2, <2>1 DEF SnapshotsAreSound
<1>4. SnapshotsAreOrdered
  <2> SUFFICES ASSUME NEW s \in Held, NEW t \in Held, s.seq <= t.seq
               PROVE  s.version <= t.version /\ s.records \subseteq t.records
    BY DEF SnapshotsAreOrdered
  <2>1. /\ s.seq \in {0, 1} /\ t.seq \in {0, 1} /\ s.records = {}
        /\ (s.seq = 0 => s.version = 0) /\ (s.seq = 1 => s.version = 1)
        /\ (t.seq = 0 => t.version = 0) /\ (t.seq = 1 => t.version = 1)
    BY <1>2
  <2> QED BY <2>1
<1>5. ResultsAreHonest
  <2>1. \A m \in Messages(toClient) : m.kind # "result"
    BY DEF Init, Messages, State, ProtocolError
  <2>2. \A i \in Requests : future[i].kind # "result"
    BY DEF Init, Unset
  <2> QED BY <2>1, <2>2 DEF ResultsAreHonest, Init, Reconciling
<1>6. HandshakeFirst
  <2>1. toClient # <<>> /\ (Head(toClient).kind = "state" => Head(toClient).snap.run)
    BY DEF Init, State, Snapshot, ProtocolError
  <2> QED BY <2>1 DEF HandshakeFirst, Init, NoWorld
<1>7. /\ CommandInProgress /\ EffectsAreAnswered /\ OneCommandAtTheServer /\ EarlierCommandsSettled
      /\ PumpIsAccountable /\ DecidesOnSettledWorld /\ NoLostWakeup
  BY DEF Init, CommandInProgress, Sending, Reconciling, EffectsAreAnswered, OneCommandAtTheServer,
         EarlierCommandsSettled, PumpIsAccountable, DecidesOnSettledWorld, NoLostWakeup
<1> QED BY <1>1, <1>3, <1>4, <1>5, <1>6, <1>7 DEF Inductive, Coherent

LEMMA InductiveStep == Inductive /\ [Next]_vars => Inductive'
<1> SUFFICES ASSUME Inductive, [Next]_vars PROVE Inductive'
  OBVIOUS
<1>1. TypeOK'
  BY TypeStep DEF Inductive, Coherent
<1>2. CASE Next
  <2>1. Coherent'
    <3>1. pc = "AwaitResult" /\ pc' \in {"Loop", "SyncTask"} => cur \in answered
      <4> SUFFICES ASSUME pc = "AwaitResult", pc' \in {"Loop", "SyncTask"} PROVE cur \in answered
        OBVIOUS
      <4>1. cur \in Requests
        BY CurrentRequest DEF Sending, Inductive, Coherent
      <4>2. future[cur].kind = "result"
        <5>1. CASE Trade
          BY <5>1 DEF Trade, Decide, SendStart, SendFlushed, ReceiveOutcome, SyncStart, SyncWait,
             IncludeWait, IdleStart, IdleWait, Finish, Stop
        <5>2. CASE ~Trade
          BY <1>2, <5>2 DEF Next, Server, ServerReady, ServerApply, ServerRefuse, ServerSync,
             ServerTick, ServerRepeat, ServerFault, ServerClose, Handshake, HandshakeState,
             HandshakeReadiness, HandshakeClosed, Pump, PumpState, PumpResult, PumpProtocolError,
             PumpUndecodable, PumpClosed, Timeout, Interrupt, Shutdown, Terminated, Stop,
             runnerVars, vars
        <5> QED BY <5>1, <5>2
      <4> QED BY <4>1, <4>2 DEF ResultsAreHonest, Honest, Inductive
    <3> QED BY <1>2, <3>1, CoherentStep DEF Inductive
  <2> QED BY <1>1, <1>2, <2>1, ResultsStep, EarlierStep, AccountableStep, DecidesStep, WakeupStep
      DEF Inductive
<1>3. CASE UNCHANGED vars
  <2>1. Terminated \/ UNCHANGED vars
    BY <1>3
  <2>2. Held' = Held /\ Messages(toClient)' = Messages(toClient)
    BY <1>3 DEF vars, linkVars, pumpVars, Held, Messages
  <2>3. DataOK' /\ CommandInProgress'
    BY DataStep, <1>3 DEF Inductive, Coherent
  <2> QED BY <1>1, <1>3, <2>2, <2>3 DEF vars, serverVars, linkVars, pumpVars, runnerVars, Inductive, Coherent,
        SnapshotsAreSound, SnapshotsAreOrdered, ResultsAreHonest, Honest, EffectsAreAnswered,
        OneCommandAtTheServer, EarlierCommandsSettled, Reflects, HandshakeFirst, PumpIsAccountable,
        DecidesOnSettledWorld, NoLostWakeup, IncludesResult
<1> QED BY <1>2, <1>3

(* The inductive invariant holds in every behaviour, for all bounds.       *)
THEOREM InductiveInvariant == Spec => []Inductive
<1>1. Init => Inductive
  BY InductiveInit
<1>2. Inductive /\ [Next]_vars => Inductive'
  BY InductiveStep
<1> QED BY <1>1, <1>2, PTL DEF Spec

(* Every variable keeps its type.                                          *)
THEOREM TypeCorrect == Spec => []TypeOK
<1>1. Inductive => TypeOK
  BY DEF Inductive
<1> QED BY <1>1, InductiveInvariant, PTL

(* The runner decides only on a snapshot that reflects every command it    *)
(* ever issued, however the server orders and repeats its messages         *)
(* (session.reconcile).                                                    *)
THEOREM DecidesOnSettled == Spec => []DecidesOnSettledWorld
<1>1. Inductive => DecidesOnSettledWorld
  BY DEF Inductive, Coherent
<1> QED BY <1>1, InductiveInvariant, PTL

(* No wake-up of the runner is lost (ClientSession.wait_for, _pump).       *)
THEOREM WakeupsKept == Spec => []NoLostWakeup
<1>1. Inductive => NoLostWakeup
  BY DEF Inductive, Coherent
<1> QED BY <1>1, InductiveInvariant, PTL

(* The snapshot the session holds only advances (the guards of _pump).     *)
THEOREM WorldAdvances == Spec => WorldOnlyAdvances
<1> DEFINE Advances == world' # world /\ pump = "running" =>
                         /\ world'.run /\ world'.seq > world.seq /\ world'.version >= world.version
                         /\ world.records \subseteq world'.records
<1>1. Inductive /\ [Next]_vars => [Advances]_vars
  <2>1. Inductive /\ Next => Advances
    BY WorldReplaced DEF Inductive
  <2> QED BY <2>1
<1> QED BY <1>1, InductiveInvariant, PTL DEF Spec, WorldOnlyAdvances

-----------------------------------------------------------------------------
(* The table of pending requests.                                          *)

LEMMA TableStep ==
  ASSUME DataOK, CommandInProgress, TableHoldsOnlyInFlight, [Next]_vars
  PROVE  TableHoldsOnlyInFlight'
<1>1. CASE Server \/ Terminated \/ UNCHANGED vars
  <2>1. UNCHANGED <<pumpVars, runnerVars>>
    BY <1>1 DEF Server, ServerReady, ServerApply, ServerRefuse, ServerSync, ServerTick, ServerRepeat,
       ServerFault, ServerClose, Terminated, vars
  <2> QED BY <2>1 DEF pumpVars, runnerVars, TableHoldsOnlyInFlight
<1>2. CASE Pump
  <2>1. UNCHANGED runnerVars
    BY <1>2 DEF Pump, PumpState, PumpResult, PumpProtocolError, PumpUndecodable, PumpClosed
  <2>2. pending' = {} \/ pending' = pending \/ \E i : pending' = pending \ {i}
    BY <1>2 DEF Pump, PumpState, PumpResult, PumpProtocolError, PumpUndecodable, PumpClosed,
       PumpEnd, Discard, pumpVars
  <2> QED BY <2>1, <2>2 DEF runnerVars, TableHoldsOnlyInFlight
<1>3. CASE SendStart
  BY <1>3 DEF SendStart, Register, Stop, Discard, Goto, TableHoldsOnlyInFlight
<1>4. CASE SendFlushed
  BY <1>4 DEF SendFlushed, Stop, Discard, Goto, TableHoldsOnlyInFlight
<1>5. CASE ReceiveOutcome
  BY <1>5 DEF ReceiveOutcome, Stop, Discard, TableHoldsOnlyInFlight
<1>6. CASE Timeout \/ Interrupt
  <2>1. pending' = pending \ {cur} /\ pc' = "Stopping"
    BY <1>6 DEF Timeout, Interrupt, Stop, Discard
  <2> QED BY <2>1 DEF TableHoldsOnlyInFlight
<1>7. CASE Shutdown
  <2>1. pending' = {} \/ pending' = pending
    BY <1>7 DEF Shutdown, PumpEnd
  <2> QED BY <1>7, <2>1 DEF Shutdown, TableHoldsOnlyInFlight
<1>8. CASE Handshake \/ (Trade /\ ~SendStart /\ ~SendFlushed /\ ~ReceiveOutcome)
  <2>1. pc \notin {"Flushing", "AwaitResult"}
    BY <1>8 DEF Handshake, HandshakeState, HandshakeReadiness, HandshakeClosed, Trade, Decide,
       SyncStart, SyncWait, IncludeWait, IdleStart, IdleWait, Finish
  <2>2. pending' = pending \/ pending' = pending \ {cur}
    BY <1>8 DEF Handshake, HandshakeState, HandshakeReadiness, HandshakeClosed, Trade, Decide,
       SyncStart, SyncWait, IncludeWait, IdleStart, IdleWait, Finish, Stop, Discard, pumpVars
  <2> QED BY <2>1, <2>2 DEF TableHoldsOnlyInFlight
<1> QED BY <1>1, <1>2, <1>3, <1>4, <1>5, <1>6, <1>7, <1>8 DEF Next, Trade

(* The table holds the command in flight and nothing else, so it never     *)
(* grows (the finally of send_command).                                    *)
THEOREM TableBounded == Spec => []TableHoldsOnlyInFlight
<1>1. Init => TableHoldsOnlyInFlight
  BY DEF Init, TableHoldsOnlyInFlight
<1>2. Inductive /\ TableHoldsOnlyInFlight /\ [Next]_vars => TableHoldsOnlyInFlight'
  BY TableStep DEF Inductive, Coherent
<1> QED BY <1>1, <1>2, InductiveInvariant, PTL DEF Spec

-----------------------------------------------------------------------------
(* The reply to the command in flight.                                     *)

(* The messages that answer the command in flight.                         *)
Reply(m) == m.kind \in {"result", "protocol_error"} /\ m.id = cur

(* Whether a reply is unread depends on the messages in flight alone.      *)
LEMMA ReplyUnread ==
  ASSUME DataOK
  PROVE  (\E m \in Messages(toClient) : Reply(m)) <=>
           \E k \in 1..Len(toClient) :
              toClient[k].kind \in {"result", "protocol_error"} /\ toClient[k].id = cur
<1>1. DOMAIN toClient = 1..Len(toClient)
  BY DEF DataOK
<1> QED BY <1>1 DEF Messages, Reply

(* Reading a message that is not the reply leaves the reply unread.        *)
LEMMA ReplyRemains ==
  ASSUME DataOK, NEW m \in Messages(toClient), Reply(m), ~Reply(Head(toClient)),
         toClient' = Tail(toClient)
  PROVE  m \in Messages(toClient')
<1>1. toClient \in Seq(ServerMessages) /\ toClient # <<>>
  BY DEF DataOK, Messages
<1>2. PICK k \in 1..Len(toClient) : m = toClient[k]
  BY <1>1 DEF Messages
<1>3. k # 1
  BY <1>1, <1>2
<1>4. k - 1 \in 1..Len(Tail(toClient)) /\ Tail(toClient)[k - 1] = toClient[k]
  BY <1>1, <1>2, <1>3
<1>5. k - 1 \in DOMAIN Tail(toClient)
  BY <1>1, <1>4
<1> QED BY <1>2, <1>4, <1>5 DEF Messages

(* No step of the pump undoes a future.                                    *)
LEMMA FuturesStaySet ==
  ASSUME DataOK, Pump, NEW i \in Requests, future'[i] = Unset
  PROVE  future[i] = Unset
<1>1. DOMAIN future = Requests
  BY DEF DataOK
<1>2. CASE PumpResult
  BY <1>1, <1>2 DEF PumpResult, Settle
<1>3. CASE PumpProtocolError
  <2> DEFINE futures == IF Head(toClient).id # NoRequest
                        THEN Settle(pending, future, Head(toClient).id, Rejected) ELSE future
  <2>1. DOMAIN futures = Requests /\ (futures[i] = Unset => future[i] = Unset)
    BY <1>1 DEF Settle
  <2>2. future' = futures \/ future' = FailAll(pending, futures)
    BY <1>3 DEF PumpProtocolError, PumpEnd
  <2> HIDE DEF futures
  <2> QED BY <2>1, <2>2 DEF FailAll, Unset, Disconnected
<1>4. CASE PumpState \/ PumpUndecodable \/ PumpClosed
  <2>1. future' = future \/ future' = FailAll(pending, future)
    BY <1>4 DEF PumpState, PumpUndecodable, PumpClosed, PumpEnd, pumpVars
  <2> QED BY <1>1, <2>1 DEF FailAll, Unset, Disconnected
<1> QED BY <1>2, <1>3, <1>4 DEF Pump

(* The pump hands the reply over: while the future of the command in       *)
(* flight stays unset, what the pump has read was not its reply.           *)
LEMMA PumpHandsOver ==
  ASSUME Inductive, Pump, pc \in {"Flushing", "AwaitResult"}, future'[cur] = Unset
  PROVE  /\ toClient # <<>> /\ toClient' = Tail(toClient) /\ ~Reply(Head(toClient))
         /\ open' = open
<1>1. cur \in Requests /\ (cur \in pending \/ future[cur] # Unset)
  BY CurrentRequest DEF Inductive, Coherent, PumpIsAccountable, Sending
<1>2. pump' # "ended" /\ cur \in pending'
  BY <1>1, PumpAccounts DEF Inductive
<1>3. \A e, f : ~PumpEnd(e, f)
  BY <1>2 DEF PumpEnd
<1>4. CASE PumpState
  BY <1>4 DEF PumpState, Receive, Reply
<1>5. CASE PumpResult
  BY <1>2, <1>5 DEF PumpResult, Receive, Reply, Discard
<1>6. CASE PumpProtocolError
  BY <1>2, <1>3, <1>6 DEF PumpProtocolError, Receive, Reply, Discard
<1>7. CASE PumpUndecodable \/ PumpClosed
  BY <1>3, <1>7 DEF PumpUndecodable, PumpClosed
<1> QED BY <1>4, <1>5, <1>6, <1>7 DEF Pump

(* What the server sends is added to what is unread, and an answer to the  *)
(* command in flight is a reply.                                           *)
LEMMA ServerAnswers ==
  ASSUME Coherent, Server, open'
  PROVE  /\ UNCHANGED <<runnerVars, future>>
         /\ open /\ Messages(toClient) \subseteq Messages(toClient')
         /\ answered' = answered \/ \E m \in Messages(toClient') : Reply(m)
<1> USE DEF Coherent
<1>1. toClient \in Seq(ServerMessages)
  BY DEF DataOK
<1>2. UNCHANGED <<runnerVars, future>>
  BY DEF Server, ServerReady, ServerApply, ServerRefuse, ServerSync, ServerTick, ServerRepeat,
     ServerFault, ServerClose, pumpVars
<1>3. open
  BY DEF Server, ServerReady, ServerApply, ServerRefuse, ServerSync, ServerTick, ServerRepeat,
     ServerFault, ServerClose, CanSend
<1>4. CASE ServerApply
  <2>1. cur \in Requests /\ Head(toServer).id = cur
    BY <1>4, CommandRead DEF ServerApply
  <2>2. PICK v, state :
          toClient' \in {Append(Append(toClient, Result(cur, v)), state),
                         Append(Append(toClient, state), Result(cur, v))}
    BY <1>4, <2>1 DEF ServerApply
  <2> DEFINE result == Result(cur, v)
  <2>3. Reply(result)
    BY DEF Reply, Result
  <2> HIDE DEF result
  <2>4. \E S : toClient \in Seq(S) /\ result \in S /\ state \in S
    <3>1. \A k \in 1..Len(toClient) : toClient[k] \in ServerMessages \cup {result, state}
      BY <1>1
    <3>2. toClient \in Seq(ServerMessages \cup {result, state})
      BY <1>1, <3>1
    <3> QED BY <3>2
  <2>5. PICK S : toClient \in Seq(S) /\ result \in S /\ state \in S
    BY <2>4
  <2>6. /\ Messages(Append(Append(toClient, result), state)) = Messages(toClient) \cup {result, state}
        /\ Messages(Append(Append(toClient, state), result)) = Messages(toClient) \cup {state, result}
    BY <2>5, MessagesAppendTwo
  <2>7. toClient' \in {Append(Append(toClient, result), state), Append(Append(toClient, state), result)}
    BY <2>2 DEF result
  <2> QED BY <1>2, <1>3, <2>3, <2>6, <2>7
<1>5. CASE ServerRefuse
  <2>1. cur \in Requests /\ Head(toServer).id = cur /\ version \in Nat
    BY <1>5, CommandRead DEF ServerRefuse, DataOK
  <2>2. PICK m \in {Result(cur, version), ProtocolError(cur, FALSE), ProtocolError(cur, TRUE)} :
          toClient' = Append(toClient, m)
    BY <1>5, <2>1 DEF ServerRefuse
  <2>3. m \in ServerMessages /\ Reply(m)
    <3>1. \A n \in {Result(cur, version), ProtocolError(cur, FALSE), ProtocolError(cur, TRUE)} :
            n \in ServerMessages
      BY <2>1, MessageTypes
    <3>2. \A n \in {Result(cur, version), ProtocolError(cur, FALSE), ProtocolError(cur, TRUE)} : Reply(n)
      BY DEF Reply, Result, ProtocolError
    <3> QED BY <3>1, <3>2
  <2>4. Messages(toClient') = Messages(toClient) \cup {m}
    BY <1>1, <2>2, <2>3, MessagesAppend
  <2> QED BY <1>2, <1>3, <2>3, <2>4
<1>6. CASE ServerReady \/ ServerSync \/ ServerTick \/ ServerRepeat \/ ServerFault
  <2>1. answered' = answered
    BY <1>6 DEF ServerReady, ServerSync, ServerTick, ServerRepeat, ServerFault, serverVars
  <2>2. \E m : toClient' = Append(toClient, m)
    BY <1>6 DEF ServerReady, ServerSync, ServerTick, ServerRepeat, ServerFault
  <2>3. PICK m : toClient' = Append(toClient, m)
    BY <2>2
  <2>4. toClient \in Seq(ServerMessages \cup {m})
    BY <1>1
  <2>5. Messages(toClient') = Messages(toClient) \cup {m}
    BY <2>3, <2>4, MessagesAppend
  <2> QED BY <1>2, <1>3, <2>1, <2>5
<1>7. CASE ServerClose
  BY <1>7 DEF ServerClose
<1> QED BY <1>4, <1>5, <1>6, <1>7 DEF Server

LEMMA ReplyStep ==
  ASSUME Inductive, Inductive', ReplyIsKept, [Next]_vars
  PROVE  ReplyIsKept'
<1> DEFINE Kept == pc \in {"Flushing", "AwaitResult"} /\ cur \in answered /\ future[cur] = Unset =>
                     (\E m \in Messages(toClient) : Reply(m)) \/ ~open
<1>1. Kept <=> ReplyIsKept
  BY ReplyUnread DEF ReplyIsKept, Inductive, Coherent
<1>2. Kept' => ReplyIsKept'
  <2>1. DOMAIN toClient' = 1..Len(toClient')
    BY DEF Inductive, Coherent, DataOK
  <2> QED BY <2>1 DEF ReplyIsKept, Messages, Reply
<1> SUFFICES ASSUME pc' \in {"Flushing", "AwaitResult"}, cur' \in answered', future'[cur'] = Unset, open'
             PROVE  \E m \in Messages(toClient') : Reply(m)'
  BY <1>2
<1>3. CASE UNCHANGED vars
  BY <1>1, <1>3 DEF vars, serverVars, linkVars, pumpVars, runnerVars, Messages, Reply
<1>4. CASE Server
  <2>1. UNCHANGED <<pc, cur, future>> /\ open /\ Messages(toClient) \subseteq Messages(toClient')
    BY <1>4, ServerAnswers DEF runnerVars, Inductive
  <2>2. \A m : Reply(m)' <=> Reply(m)
    BY <2>1 DEF Reply
  <2>3. CASE answered' = answered
    BY <1>1, <2>1, <2>2, <2>3
  <2> QED BY <1>4, <2>2, <2>3, ServerAnswers DEF Inductive
<1>5. CASE Pump
  <2>1. UNCHANGED <<pc, cur, answered>>
    BY <1>5 DEF Pump, PumpState, PumpResult, PumpProtocolError, PumpUndecodable, PumpClosed,
       runnerVars, serverVars
  <2>2. cur \in Requests
    BY <2>1, CurrentRequest DEF Inductive, Coherent, Sending
  <2>3. future[cur] = Unset
    BY <1>5, <2>1, <2>2, FuturesStaySet DEF Inductive, Coherent
  <2>4. /\ toClient # <<>> /\ toClient' = Tail(toClient) /\ ~Reply(Head(toClient))
        /\ open
    BY <1>5, <2>1, PumpHandsOver
  <2>5. PICK m \in Messages(toClient) : Reply(m)
    BY <1>1, <2>1, <2>3, <2>4
  <2>6. m \in Messages(toClient')
    BY <2>4, <2>5, ReplyRemains DEF Inductive, Coherent
  <2> QED BY <2>1, <2>5, <2>6 DEF Reply
<1>6. CASE SendStart
  <2>1. cur' = cur /\ answered' = answered /\ cur \notin answered
    BY <1>6 DEF SendStart, serverVars, Stop, Inductive, Coherent, OneCommandAtTheServer
  <2> QED BY <2>1
<1>7. CASE SendFlushed
  <2>1. UNCHANGED <<serverVars, linkVars, future, cur>> /\ pc = "Flushing"
    BY <1>7 DEF SendFlushed, Stop, Goto
  <2>2. PICK m \in Messages(toClient) : Reply(m)
    BY <1>1, <2>1 DEF serverVars, linkVars
  <2> QED BY <2>1, <2>2 DEF linkVars, Messages, Reply
<1>8. CASE Next /\ ~Server /\ ~Pump /\ ~SendStart /\ ~SendFlushed
  <2>1. CASE Handshake
    BY <2>1 DEF Handshake, HandshakeState, HandshakeReadiness, HandshakeClosed, Stop, Goto
  <2>2. CASE Trade
    BY <1>8, <2>2 DEF Trade, Decide, ReceiveOutcome, SyncStart, SyncWait, IncludeWait,
       IdleStart, IdleWait, Finish, Stop, Goto, WaitPass
  <2>3. CASE Timeout \/ Interrupt \/ Shutdown
    BY <2>3 DEF Timeout, Interrupt, Shutdown, Stop
  <2>4. CASE Terminated
    BY <1>3, <2>4 DEF Terminated
  <2> QED BY <1>8, <2>1, <2>2, <2>3, <2>4 DEF Next
<1> QED BY <1>3, <1>4, <1>5, <1>6, <1>7, <1>8

(* The reply to the command in flight is never lost inside the client:     *)
(* until the caller's future holds it, it is among the messages the pump   *)
(* has not read (send_command registers before it writes).                 *)
THEOREM ReplyNeverDropped == Spec => []ReplyIsKept
<1>1. Init => ReplyIsKept
  BY DEF Init, ReplyIsKept
<1>2. Inductive /\ Inductive' /\ ReplyIsKept /\ [Next]_vars => ReplyIsKept'
  BY ReplyStep
<1> QED BY <1>1, <1>2, InductiveInvariant, PTL DEF Spec

-----------------------------------------------------------------------------
(* The refinement.                                                         *)

LEMMA AbstractInit == Init => Abstract!AInit
<1> SUFFICES ASSUME Init PROVE Abstract!AInit
  OBVIOUS
<1>1. 1..cur = {} /\ answered = {} /\ Effective = {}
  BY DEF Init, Effective
<1> QED BY <1>1 DEF Abstract!AInit

(* Every step of the session is a step of the abstract client, or changes  *)
(* nothing the abstract client has.                                        *)
LEMMA AbstractStep ==
  ASSUME Inductive, [Next]_vars
  PROVE  [Abstract!ANext]_(Abstract!avars)
<1> USE DEF Inductive, Coherent
<1> DEFINE Seen == {i \in Effective : Reflects(world, i)}
<1>0. /\ cur \in Nat /\ version \in Nat /\ world.version \in Nat /\ world.version <= version
      /\ applied \in [Requests -> Nat]
  <2>1. world \in Held /\ world.run
    BY DEF Held, HandshakeFirst
  <2>2. cur \in Nat /\ version \in Nat /\ world.version \in Nat /\ applied \in [Requests -> Nat]
    BY DEF DataOK, Snapshots
  <2> QED BY <2>1, <2>2 DEF SnapshotsAreSound
<1>1. CASE ServerApply
  <2>1. cur \in Requests /\ cur \notin answered /\ Head(toServer).id = cur
    BY <1>1, CommandRead DEF ServerApply
  <2>2. /\ answered' = answered \cup {cur} /\ applied' = [applied EXCEPT ![cur] = version + 1]
        /\ cur' = cur /\ world' = world
    BY <1>1, <2>1 DEF ServerApply, pumpVars, runnerVars
  <2>3. Effective' = Effective \cup {cur}
    BY <1>0, <2>1, <2>2 DEF Effective
  <2>4. \A i \in Requests : i \in Effective' /\ applied'[i] <= world.version <=> i \in Seen
    <3>1. applied[cur] = 0
      BY <2>1 DEF EffectsAreAnswered
    <3> QED BY <1>0, <2>1, <2>2, <2>3, <3>1 DEF Effective, Reflects
  <2>5. Seen' = Seen
    BY <2>2, <2>4 DEF Effective, Reflects
  <2>6. cur \in (1..cur) \ answered
    BY <1>0, <2>1 DEF Requests
  <2>7. Abstract!Apply
    BY <2>2, <2>3, <2>5, <2>6 DEF Abstract!Apply
  <2> QED BY <2>7 DEF Abstract!ANext
<1>2. CASE ServerRefuse
  <2>1. cur \in Requests /\ cur \notin answered /\ Head(toServer).id = cur
    BY <1>2, CommandRead DEF ServerRefuse
  <2>2. /\ answered' = answered \cup {cur} /\ applied' = applied
        /\ cur' = cur /\ world' = world
    BY <1>2, <2>1 DEF ServerRefuse, pumpVars, runnerVars
  <2>3. Effective' = Effective /\ Seen' = Seen
    BY <2>2 DEF Effective, Reflects
  <2>4. cur \in (1..cur) \ answered
    BY <1>0, <2>1 DEF Requests
  <2>5. Abstract!Refuse
    BY <2>2, <2>3, <2>4 DEF Abstract!Refuse
  <2> QED BY <2>5 DEF Abstract!ANext
<1>3. CASE Decide
  <2>1. /\ pc = "Loop" /\ cur' = cur + 1 /\ cur < MaxCommands
        /\ UNCHANGED <<answered, applied, world>>
    BY <1>3 DEF Decide, serverVars, pumpVars
  <2>2. 1..cur \subseteq answered
    BY <2>1 DEF DecidesOnSettledWorld
  <2>3. Effective \subseteq Seen
    BY <2>1 DEF DecidesOnSettledWorld, EffectsAreAnswered, Effective
  <2>4. cur + 1 \in Requests \ (1..cur) /\ 1..(cur + 1) = (1..cur) \cup {cur + 1}
    BY <1>0, <2>1, BoundsAssumption DEF Requests
  <2>5. Effective' = Effective /\ Seen' = Seen
    BY <2>1 DEF Effective, Reflects
  <2>6. Abstract!Issue
    BY <2>1, <2>2, <2>3, <2>4, <2>5 DEF Abstract!Issue
  <2> QED BY <2>6 DEF Abstract!ANext
<1>4. CASE Next /\ ~ServerApply /\ ~ServerRefuse /\ ~Decide
  <2>1. cur' = cur
    BY <1>4, CommandsIssued
  <2>2. answered' = answered /\ applied' = applied
    <3>1. CASE Server
      BY <1>4, <3>1 DEF Server, ServerReady, ServerSync, ServerTick, ServerRepeat, ServerFault,
         ServerClose, serverVars
    <3>2. CASE Terminated
      BY <3>2 DEF Terminated, vars, serverVars
    <3>3. CASE ~Server /\ ~Terminated
      BY <1>4, <3>3, ClientOnlyReads DEF Next, serverVars
    <3> QED BY <3>1, <3>2, <3>3
  <2>3. Effective' = Effective
    BY <2>2 DEF Effective
  <2>4. \A i \in Seen : i \in Seen'
    <3>1. CASE cur = 0
      <4>1. answered = {}
        BY <3>1 DEF EffectsAreAnswered
      <4>2. Effective = {}
        BY <4>1 DEF EffectsAreAnswered, Effective
      <4> QED BY <4>2
    <3>2. CASE cur # 0
      <4> SUFFICES ASSUME NEW i \in Seen PROVE i \in Effective' /\ applied'[i] <= world'.version
        BY DEF Reflects
      <4>1. i \in answered /\ Reflects(world, i) /\ i \in Effective
        BY DEF EffectsAreAnswered, Effective
      <4>2. applied'[i] <= world'.version
        BY <1>4, <3>2, <4>1, ReflectsKept
      <4> QED BY <2>3, <4>1, <4>2
    <3> QED BY <3>1, <3>2
  <2>5. Seen' \subseteq Effective
    BY <2>3
  <2>6. Abstract!Observe
    BY <2>1, <2>2, <2>3, <2>4, <2>5 DEF Abstract!Observe
  <2> QED BY <2>6 DEF Abstract!ANext
<1>5. CASE UNCHANGED vars
  <2>1. UNCHANGED <<cur, answered, applied, world>>
    BY <1>5 DEF vars, serverVars, pumpVars, runnerVars
  <2>2. Effective' = Effective /\ Seen' = Seen
    BY <2>1 DEF Effective, Reflects
  <2> QED BY <2>1, <2>2 DEF Abstract!avars
<1> QED BY <1>1, <1>2, <1>3, <1>4, <1>5

(* The session implements the abstract client that reads its own writes,   *)
(* whatever the number of commands, versions and messages.                 *)
THEOREM Refinement == Spec => ReadsItsWrites
<1>1. Init => Abstract!AInit
  BY AbstractInit
<1>2. Inductive /\ [Next]_vars => [Abstract!ANext]_(Abstract!avars)
  BY AbstractStep
<1> QED BY <1>1, <1>2, InductiveInvariant, PTL DEF Spec, ReadsItsWrites, Abstract!ASpec
=============================================================================
