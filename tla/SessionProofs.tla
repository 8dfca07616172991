---------------------------- MODULE SessionProofs ----------------------------
(***************************************************************************)
(* Proofs about Session, for all values of its bounds.                     *)
(***************************************************************************)
EXTENDS SessionProperties, SequenceTheorems, TLAPS

-----------------------------------------------------------------------------
(* What two sides do to a queue of messages (append, take the head, lose a *)
(* suffix) and how that changes the messages in it.                        *)

(* Appending a message adds it and leaves the head of a nonempty queue.    *)
LEMMA MessagesAppend ==
  ASSUME NEW S, NEW q \in Seq(S), NEW m \in S
  PROVE  /\ Append(q, m) \in Seq(S) /\ Append(q, m) # <<>>
         /\ q # <<>> => Head(Append(q, m)) = Head(q)
         /\ Messages(Append(q, m)) = Messages(q) \cup {m}
<1>1. /\ Append(q, m) \in Seq(S) /\ Len(Append(q, m)) = Len(q) + 1
      /\ \A k \in 1..Len(q) : Append(q, m)[k] = q[k]
      /\ Append(q, m)[Len(q) + 1] = m
  BY AppendProperties
<1>2. DOMAIN q = 1..Len(q) /\ DOMAIN Append(q, m) = 1..(Len(q) + 1) /\ Len(q) \in Nat
  BY <1>1, LenProperties
<1>3. Messages(Append(q, m)) = Messages(q) \cup {m}
  <2>1. \A k \in 1..(Len(q) + 1) : k \in 1..Len(q) \/ k = Len(q) + 1
    BY <1>2
  <2>2. Len(q) + 1 \in 1..(Len(q) + 1) /\ \A k \in 1..Len(q) : k \in 1..(Len(q) + 1)
    BY <1>2
  <2> QED BY <1>1, <1>2, <2>1, <2>2, Zenon DEF Messages
<1>4. Append(q, m) # <<>>
  BY <1>1, <1>2, EmptySeq
<1>5. q # <<>> => Head(Append(q, m)) = Head(q)
  <2>1. q # <<>> => 1 \in 1..Len(q)
    BY <1>2, EmptySeq
  <2> QED BY <1>1, <1>4, <2>1
<1> QED BY <1>1, <1>3, <1>4, <1>5

LEMMA MessagesAppendTwo ==
  ASSUME NEW S, NEW q \in Seq(S), NEW m \in S, NEW n \in S
  PROVE  /\ Append(Append(q, m), n) \in Seq(S) /\ Append(Append(q, m), n) # <<>>
         /\ q # <<>> => Head(Append(Append(q, m), n)) = Head(q)
         /\ Messages(Append(Append(q, m), n)) = Messages(q) \cup {m, n}
<1> DEFINE p == Append(q, m)
<1>1. /\ p \in Seq(S) /\ p # <<>> /\ (q # <<>> => Head(p) = Head(q))
      /\ Messages(p) = Messages(q) \cup {m}
  BY MessagesAppend
<1> HIDE DEF p
<1>2. /\ Append(p, n) \in Seq(S) /\ Append(p, n) # <<>> /\ Head(Append(p, n)) = Head(p)
      /\ Messages(Append(p, n)) = Messages(p) \cup {n}
  BY <1>1, MessagesAppend
<1> QED BY <1>1, <1>2 DEF p

(* Taking the head removes nothing else.                                   *)
LEMMA MessagesTail ==
  ASSUME NEW S, NEW q \in Seq(S), q # <<>>
  PROVE  /\ Head(q) \in S /\ Tail(q) \in Seq(S)
         /\ Head(q) \in Messages(q) /\ Messages(Tail(q)) \subseteq Messages(q)
<1>1. /\ Head(q) \in S /\ Tail(q) \in Seq(S) /\ Len(Tail(q)) = Len(q) - 1
      /\ \A k \in 1..Len(Tail(q)) : Tail(q)[k] = q[k + 1]
  BY HeadTailProperties
<1>2. /\ DOMAIN q = 1..Len(q) /\ DOMAIN Tail(q) = 1..Len(Tail(q))
      /\ Len(q) \in Nat \ {0}
  BY <1>1, LenProperties, EmptySeq
<1>3. 1 \in DOMAIN q /\ Head(q) = q[1]
  BY <1>2
<1>4. Head(q) \in Messages(q)
  BY <1>3 DEF Messages
<1>5. \A k \in DOMAIN Tail(q) : k + 1 \in DOMAIN q /\ Tail(q)[k] = q[k + 1]
  BY <1>1, <1>2
<1>6. Messages(Tail(q)) \subseteq Messages(q)
  BY <1>5, Zenon DEF Messages
<1> QED BY <1>1, <1>4, <1>6

(* A queue that loses a suffix keeps its head, unless it loses everything. *)
LEMMA MessagesPrefix ==
  ASSUME NEW S, NEW q \in Seq(S), NEW k \in 0..Len(q)
  PROVE  /\ SubSeq(q, 1, k) \in Seq(S) /\ Messages(SubSeq(q, 1, k)) \subseteq Messages(q)
         /\ SubSeq(q, 1, k) # <<>> => q # <<>> /\ Head(SubSeq(q, 1, k)) = Head(q)
<1>1. Len(q) \in Nat /\ DOMAIN q = 1..Len(q) /\ \A j \in 1..k : q[j] \in S /\ j \in DOMAIN q
  BY LenProperties, ElementOfSeq
<1>2. /\ SubSeq(q, 1, k) \in Seq(S) /\ Len(SubSeq(q, 1, k)) = k
      /\ \A j \in 1..k : SubSeq(q, 1, k)[j] = q[j]
  <2>1. /\ SubSeq(q, 1, k) \in Seq(S)
        /\ Len(SubSeq(q, 1, k)) = IF 1 <= k THEN k - 1 + 1 ELSE 0
        /\ \A j \in 1..(k - 1 + 1) : SubSeq(q, 1, k)[j] = q[1 + j - 1]
    BY <1>1, SubSeqProperties
  <2> QED BY <2>1, <1>1
<1>3. DOMAIN SubSeq(q, 1, k) = 1..k
  BY <1>2, LenProperties
<1>4. Messages(SubSeq(q, 1, k)) \subseteq Messages(q)
  BY <1>1, <1>2, <1>3, Zenon DEF Messages
<1>5. SubSeq(q, 1, k) # <<>> => q # <<>> /\ Head(SubSeq(q, 1, k)) = Head(q)
  <2>1. SubSeq(q, 1, k) # <<>> => 1 \in 1..k /\ q # <<>>
    BY <1>1, <1>2, EmptySeq
  <2> QED BY <1>1, <1>2, <2>1
<1> QED BY <1>2, <1>4, <1>5

-----------------------------------------------------------------------------
(* Type correctness.                                                       *)

(* The messages the two sides send are of the declared types.              *)
LEMMA MessageTypes ==
  ASSUME DataOK
  PROVE  /\ \A s \in Snapshots : State(s) \in ServerMessages
         /\ \A n \in Nat, ok \in BOOLEAN : Readiness(n, ok) \in ServerMessages
         /\ \A i \in Requests, v \in Nat : Result(i, v) \in ServerMessages
         /\ \A i \in Requests \cup {NoRequest}, c \in BOOLEAN :
              ProtocolError(i, c) \in ServerMessages
         /\ Undecodable \in ServerMessages
         /\ NoWorld \in Snapshots
         /\ \A n \in Nat : Snapshot(n) \in Snapshots /\ Ready(n) \in ClientMessages
         /\ \A i \in Requests : Command(i) \in ClientMessages
         /\ Sync \in ClientMessages
<1>1. NoWorld \in Snapshots
  BY DEF NoWorld, Snapshots, Phases
<1>2. \A n \in Nat : Snapshot(n) \in Snapshots
  BY DEF DataOK, Snapshot, Snapshots, Phases
<1>3. \A s \in Snapshots : State(s) \in ServerMessages
  BY DEF State, ServerMessages
<1>4. \A n \in Nat, ok \in BOOLEAN : Readiness(n, ok) \in ServerMessages
  BY DEF Readiness, ServerMessages
<1>5. \A i \in Requests, v \in Nat : Result(i, v) \in ServerMessages
  BY DEF Result, ServerMessages
<1>6. \A i \in Requests \cup {NoRequest}, c \in BOOLEAN : ProtocolError(i, c) \in ServerMessages
  BY DEF ProtocolError, ServerMessages
<1>7. Undecodable \in ServerMessages
  BY DEF ServerMessages
<1>8. /\ \A n \in Nat : Ready(n) \in ClientMessages
      /\ \A i \in Requests : Command(i) \in ClientMessages
      /\ Sync \in ClientMessages
  BY DEF Ready, Command, ClientMessages
<1> QED BY <1>1, <1>2, <1>3, <1>4, <1>5, <1>6, <1>7, <1>8

(* A message of a kind has that kind's fields.                             *)
LEMMA MessageFields ==
  ASSUME NEW m \in ServerMessages
  PROVE  /\ m.kind = "state" => m.snap \in Snapshots
         /\ m.kind = "readiness" => m.seq \in Nat /\ m.ready \in BOOLEAN
         /\ m.kind = "result" => m \in [kind : {"result"}, id : Requests, version : Nat]
         /\ m.kind = "protocol_error" => m.id \in Requests \cup {NoRequest} /\ m.close \in BOOLEAN
         /\ m.kind \in {"state", "readiness", "result", "protocol_error", "undecodable"}
BY DEF ServerMessages, Undecodable

LEMMA TypeInit == Init => TypeOK
<1> SUFFICES ASSUME Init PROVE TypeOK
  OBVIOUS
<1>1. Snapshot(1) \in Snapshots
  BY DEF Init, Snapshot, Snapshots, Phases
<1>2. State(Snapshot(1)) \in ServerMessages /\ ProtocolError(NoRequest, TRUE) \in ServerMessages
  BY <1>1 DEF State, ProtocolError, ServerMessages
<1>3. toClient \in Seq(ServerMessages)
  <2>1. \A m \in ServerMessages : <<m>> \in Seq(ServerMessages)
    OBVIOUS
  <2> QED BY <1>2, <2>1 DEF Init
<1>4. world \in Snapshots
  BY DEF Init, NoWorld, Snapshots, Phases
<1>5. outcome \in [kind : {"result"}, id : Requests \cup {NoRequest}, version : Nat]
  BY DEF Init, NoOutcome, Result
<1>6. cur \in 0..MaxCommands
  BY BoundsAssumption DEF Init
<1>7. future \in [Requests -> Futures]
  BY DEF Init, Futures
<1>8. toServer \in Seq(ClientMessages)
  BY DEF Init
<1> QED BY <1>3, <1>4, <1>5, <1>6, <1>7, <1>8
    DEF Init, TypeOK, DataOK, Phases, Labels, Reasons, PumpErrors

LEMMA CurrentRequest ==
  DataOK /\ CommandInProgress /\ pc \in Sending \cup Reconciling => cur \in Requests
<1>1. DataOK => cur \in 0..MaxCommands
  BY DEF DataOK
<1> QED BY <1>1, BoundsAssumption DEF CommandInProgress, Requests

(* Every step preserves the types of the data.                             *)
LEMMA DataStep == DataOK /\ CommandInProgress /\ [Next]_vars => (DataOK /\ CommandInProgress)'
<1> SUFFICES ASSUME DataOK, CommandInProgress, [Next]_vars PROVE DataOK' /\ CommandInProgress'
  OBVIOUS
<1> USE DEF serverVars, linkVars, pumpVars, runnerVars
<1>1. /\ toClient # <<>> => Head(toClient) \in ServerMessages /\ Tail(toClient) \in Seq(ServerMessages)
      /\ \A m \in ServerMessages :
           /\ Append(toClient, m) \in Seq(ServerMessages)
           /\ \A n \in ServerMessages : Append(Append(toClient, m), n) \in Seq(ServerMessages)
      /\ <<>> \in Seq(ServerMessages)
  BY DEF DataOK, CommandInProgress, Sending, Reconciling
<1>2. /\ toServer # <<>> => Head(toServer) \in ClientMessages /\ Tail(toServer) \in Seq(ClientMessages)
      /\ \A m \in ClientMessages : Append(toServer, m) \in Seq(ClientMessages)
      /\ <<>> \in Seq(ClientMessages)
  BY DEF DataOK, CommandInProgress, Sending, Reconciling
<1>3. /\ \A i \in Requests : pending \ {i} \in SUBSET Requests
  BY DEF DataOK, CommandInProgress, Sending, Reconciling
<1>4. CASE ServerReady
  <2>1. Head(toServer).seq \in Nat
    BY <1>4, <1>2 DEF ServerReady, Reads, ClientMessages, Sync
  <2>2. toServer' \in Seq(ClientMessages) /\ toClient' \in Seq(ServerMessages)
    BY <1>4, <1>1, <1>2, <2>1, MessageTypes DEF ServerReady, Reads
  <2> QED BY <1>4, <2>2 DEF DataOK, ServerReady, CommandInProgress, Sending, Reconciling
<1>5. CASE ServerApply
  <2> DEFINE i == Head(toServer).id
             snap == [Snapshot(seq + 1) EXCEPT !.version = version + 1, !.records = @ \cup {i}]
  <2>1. i \in Requests
    BY <1>5, <1>2 DEF ServerApply, Reads, ClientMessages, Sync
  <2>2. snap \in Snapshots
    <3>1. Snapshot(seq + 1) \in Snapshots
      BY MessageTypes DEF DataOK
    <3>2. answered \cup {i} \in SUBSET Requests /\ version + 1 \in Nat
      BY <2>1 DEF DataOK
    <3> QED BY <2>1, <3>1, <3>2 DEF Snapshots, DataOK
  <2>3. \A v \in {0, version + 1} : Result(i, v) \in ServerMessages /\ State(snap) \in ServerMessages
    <3>1. 0 \in Nat /\ version + 1 \in Nat
      BY DEF DataOK
    <3> QED BY <2>1, <2>2, <3>1, MessageTypes
  <2>4. toServer' \in Seq(ClientMessages) /\ toClient' \in Seq(ServerMessages)
    BY <1>5, <1>1, <1>2, <2>3 DEF ServerApply, Reads
  <2>5. answered' \in SUBSET Requests /\ applied' \in [Requests -> Nat]
    BY <1>5, <2>1 DEF ServerApply, DataOK
  <2> QED BY <1>5, <2>4, <2>5 DEF DataOK, ServerApply, CommandInProgress, Sending, Reconciling
<1>6. CASE ServerRefuse
  <2>1. Head(toServer).id \in Requests
    BY <1>6, <1>2 DEF ServerRefuse, Reads, ClientMessages, Sync
  <2>2. toServer' \in Seq(ClientMessages) /\ toClient' \in Seq(ServerMessages)
    BY <1>6, <1>1, <1>2, <2>1, MessageTypes DEF ServerRefuse, Reads, DataOK
  <2> QED BY <1>6, <2>1, <2>2 DEF DataOK, ServerRefuse, CommandInProgress, Sending, Reconciling
<1>7. CASE ServerSync
  BY <1>1, <1>2, <1>3, <1>7, MessageTypes, MessageFields DEF DataOK, ServerSync, Reads, CanSend, CommandInProgress, Sending, Reconciling
<1>8. CASE ServerTick
  <2>1. phase' \in Phases /\ failed' \in BOOLEAN
    BY <1>8 DEF ServerTick, DataOK, Phases
  <2>2. [Snapshot(seq + 1) EXCEPT !.version = version + 1, !.phase = phase', !.failed = failed']
          \in Snapshots
    <3>1. Snapshot(seq + 1) \in Snapshots
      BY MessageTypes DEF DataOK
    <3>2. version + 1 \in Nat
      BY DEF DataOK
    <3> QED BY <2>1, <3>1, <3>2 DEF Snapshots
  <2>3. toClient' \in Seq(ServerMessages)
    BY <1>8, <1>1, <2>2, MessageTypes DEF ServerTick
  <2> QED BY <1>8, <2>1, <2>3 DEF DataOK, ServerTick, CommandInProgress, Sending, Reconciling
<1>9. CASE ServerRepeat
  <2>1. \A k \in 1..Len(toClient) : toClient[k] \in ServerMessages
    BY DEF DataOK
  <2>2. State(world) \in ServerMessages
    BY MessageTypes DEF DataOK
  <2>3. toClient' \in Seq(ServerMessages)
    BY <1>9, <1>1, <2>1, <2>2 DEF ServerRepeat
  <2> QED BY <1>9, <2>3 DEF DataOK, ServerRepeat, CommandInProgress, Sending, Reconciling
<1>10. CASE ServerFault
  <2>1. [NoWorld EXCEPT !.run = FALSE] \in Snapshots
    BY DEF NoWorld, Snapshots, Phases
  <2>2. toClient' \in Seq(ServerMessages)
    BY <1>10, <1>1, <2>1, MessageTypes DEF ServerFault
  <2> QED BY <1>10, <2>2 DEF DataOK, ServerFault, CommandInProgress, Sending, Reconciling
<1>11. CASE ServerClose
  <2>1. toClient' \in Seq(ServerMessages)
    BY <1>11, MessagesPrefix DEF ServerClose, DataOK
  <2> QED BY <1>11, <1>2, <2>1 DEF DataOK, ServerClose, CommandInProgress, Sending, Reconciling
<1>12. CASE HandshakeState
  <2>1. toClient' \in Seq(ServerMessages)
    BY <1>12, <1>1 DEF HandshakeState
  <2>2. CASE Head(toClient).kind = "state" /\ open
    <3>1. Head(toClient).snap \in Snapshots
      BY <1>12, <1>1, <2>2, MessageFields DEF HandshakeState
    <3>2. Head(toClient).snap.seq \in Nat
      BY <3>1 DEF Snapshots
    <3>3. world' \in Snapshots /\ toServer' \in Seq(ClientMessages)
      BY <1>12, <1>2, <2>2, <3>1, <3>2, MessageTypes DEF HandshakeState
    <3> QED BY <1>12, <2>1, <2>2, <3>3 DEF DataOK, HandshakeState, Goto, CommandInProgress, Sending, Reconciling
  <2>3. CASE ~(Head(toClient).kind = "state" /\ open)
    BY <1>12, <2>1, <2>3 DEF DataOK, HandshakeState, Stop, Discard, CommandInProgress, Sending, Reconciling
  <2> QED BY <2>2, <2>3
<1>13. CASE HandshakeReadiness
  BY <1>1, <1>2, <1>3, <1>13, MessageTypes, MessageFields DEF DataOK, HandshakeReadiness, Stop, Discard, Goto, Sending, Reconciling, CommandInProgress
<1>14. CASE HandshakeClosed
  BY <1>1, <1>2, <1>3, <1>14, MessageTypes, MessageFields DEF DataOK, HandshakeClosed, Stop, Discard, Goto, Sending, Reconciling, CommandInProgress
<1>15. CASE PumpState
  BY <1>1, <1>2, <1>3, <1>15, MessageTypes, MessageFields DEF DataOK, PumpState, Receive, PumpEnd, FailAll, Newer, Replace, Futures, PumpErrors, CommandInProgress, Sending, Reconciling
<1>16. CASE PumpResult
  BY <1>1, <1>2, <1>3, <1>16, MessageTypes, MessageFields DEF DataOK, PumpResult, Receive, Settle, Discard, Futures, CommandInProgress, Sending, Reconciling
<1>17. CASE PumpProtocolError
  BY <1>1, <1>2, <1>3, <1>17, MessageTypes, MessageFields DEF DataOK, PumpProtocolError, Receive, Settle, Discard, PumpEnd, FailAll, Futures, PumpErrors, CommandInProgress, Sending, Reconciling
<1>18. CASE PumpUndecodable
  BY <1>1, <1>2, <1>3, <1>18, MessageTypes, MessageFields DEF DataOK, PumpUndecodable, Receive, PumpEnd, FailAll, Futures, PumpErrors, CommandInProgress, Sending, Reconciling
<1>19. CASE PumpClosed
  BY <1>1, <1>2, <1>3, <1>19, MessageTypes, MessageFields DEF DataOK, PumpClosed, PumpEnd, FailAll, Futures, PumpErrors, CommandInProgress, Sending, Reconciling
<1>20. CASE Decide
  <2>1. cur' \in 0..MaxCommands
    BY <1>20, BoundsAssumption DEF Decide, DataOK
  <2> QED BY <1>20, <2>1 DEF DataOK, Decide, Goto, Sending, CommandInProgress, Sending, Reconciling
<1>21. CASE SendStart
  <2>1. cur \in Requests
    BY <1>21, CurrentRequest DEF SendStart, Sending
  <2>2. toServer' \in Seq(ClientMessages)
    <3>1. Command(cur) \in ClientMessages
      BY <2>1, MessageTypes
    <3> QED BY <1>21, <1>2, <3>1 DEF SendStart, DataOK
  <2>3. future' \in [Requests -> Futures]
    BY <1>21 DEF SendStart, DataOK, Futures
  <2>4. pending' \in SUBSET Requests
    BY <1>21, <2>1 DEF SendStart, Stop, Discard, Register, DataOK
  <2> QED BY <1>21, <2>1, <2>2, <2>3, <2>4
      DEF DataOK, SendStart, Stop, Goto, Sending, CommandInProgress
<1>22. CASE SendFlushed
  BY <1>1, <1>2, <1>3, <1>22, MessageTypes, MessageFields DEF DataOK, SendFlushed, Stop, Discard, Goto, Sending, Reconciling, CommandInProgress
<1>23. CASE ReceiveOutcome
  <2>1. cur \in Requests /\ future[cur] \in Futures
    BY <1>23, CurrentRequest DEF ReceiveOutcome, Sending, DataOK
  <2>2. outcome' \in [kind : {"result"}, id : Requests \cup {NoRequest}, version : Nat]
    <3>1. CASE future[cur].kind = "result"
      BY <1>23, <2>1, <3>1 DEF ReceiveOutcome, Stop, Goto, Futures, Unset, Rejected, Disconnected
    <3>2. CASE future[cur].kind # "result"
      BY <1>23, <3>2 DEF ReceiveOutcome, Stop, DataOK
    <3> QED BY <3>1, <3>2
  <2>3. pc' \in {"Loop", "SyncTask", "Stopping"} /\ cur' = cur /\ baseSeq' = baseSeq
    BY <1>23 DEF ReceiveOutcome, Stop, Goto, DataOK
  <2>4. pending' \in SUBSET Requests
    BY <1>23 DEF ReceiveOutcome, Stop, Discard, DataOK
  <2> QED BY <1>23, <2>1, <2>2, <2>3, <2>4
      DEF DataOK, ReceiveOutcome, Sending, Reconciling, CommandInProgress, Requests
<1>24. CASE SyncStart
  <2>1. toServer' \in Seq(ClientMessages)
    BY <1>24, <1>2, MessageTypes DEF SyncStart, DataOK
  <2>2. baseSeq' \in Nat
    BY <1>24 DEF SyncStart, Stop, DataOK, Snapshots
  <2> QED BY <1>24, <2>1, <2>2
      DEF DataOK, SyncStart, Stop, Discard, Goto, Reconciling, CommandInProgress
<1>25. CASE SyncWait
  BY <1>1, <1>2, <1>3, <1>25, MessageTypes, MessageFields DEF DataOK, SyncWait, WaitPass, Stop, Discard, Goto, Sending, Reconciling, CommandInProgress
<1>26. CASE IncludeWait
  BY <1>1, <1>2, <1>3, <1>26, MessageTypes, MessageFields DEF DataOK, IncludeWait, WaitPass, Stop, Discard, Goto, Sending, Reconciling, CommandInProgress
<1>27. CASE IdleStart
  <2>1. baseSeq' \in Nat
    BY <1>27 DEF IdleStart, DataOK, Snapshots
  <2> QED BY <1>27, <2>1
      DEF DataOK, IdleStart, WaitPass, Goto, Sending, Reconciling, CommandInProgress
<1>28. CASE IdleWait
  BY <1>1, <1>2, <1>3, <1>28, MessageTypes, MessageFields DEF DataOK, IdleWait, WaitPass, Stop, Discard, Goto, Sending, Reconciling, CommandInProgress
<1>29. CASE Finish
  BY <1>1, <1>2, <1>3, <1>29, MessageTypes, MessageFields DEF DataOK, Finish, Stop, Discard, Goto, Sending, Reconciling, CommandInProgress
<1>30. CASE Timeout
  BY <1>1, <1>2, <1>3, <1>30, MessageTypes, MessageFields DEF DataOK, Timeout, Stop, Discard, Goto, Sending, Reconciling, CommandInProgress
<1>31. CASE Interrupt
  BY <1>1, <1>2, <1>3, <1>31, MessageTypes, MessageFields DEF DataOK, Interrupt, Stop, Discard, Goto, Sending, Reconciling, CommandInProgress
<1>32. CASE Shutdown
  <2>1. future' \in [Requests -> Futures]
    BY <1>32 DEF Shutdown, PumpEnd, FailAll, DataOK, Futures
  <2> QED BY <1>32, <1>1, <1>2, <2>1
      DEF DataOK, Shutdown, PumpEnd, PumpErrors, Sending, Reconciling, CommandInProgress
<1>33. CASE UNCHANGED vars
  BY <1>33 DEF DataOK, vars, CommandInProgress, Sending, Reconciling
<1> QED BY <1>4, <1>5, <1>6, <1>7, <1>8, <1>9, <1>10, <1>11, <1>12, <1>13, <1>14, <1>15, <1>16, <1>17, <1>18, <1>19, <1>20, <1>21, <1>22, <1>23, <1>24, <1>25, <1>26, <1>27, <1>28, <1>29, <1>30, <1>31, <1>32, <1>33
    DEF Next, Server, Handshake, Pump, Trade, Terminated

(* ... and the runner's labels.                                            *)
LEMMA TypeStep == TypeOK /\ CommandInProgress /\ [Next]_vars => TypeOK'
<1> SUFFICES ASSUME TypeOK, CommandInProgress, [Next]_vars PROVE TypeOK'
  OBVIOUS
<1>1. DataOK'
  BY DataStep DEF TypeOK
<1>2. pc' \in Labels /\ reason' \in Reasons
  <2>1. CASE Server \/ Pump \/ UNCHANGED vars
    BY <2>1 DEF Server, ServerReady, ServerApply, ServerRefuse, ServerSync, ServerTick, ServerRepeat,
       ServerFault, ServerClose, Pump, PumpState, PumpResult, PumpProtocolError, PumpUndecodable,
       PumpClosed, vars, runnerVars, TypeOK
  <2>2. CASE Handshake \/ Timeout \/ Interrupt \/ Shutdown
    BY <2>2 DEF Handshake, HandshakeState, HandshakeReadiness, HandshakeClosed, Timeout, Interrupt,
       Shutdown, Stop, Goto, TypeOK, Labels, Reasons
  <2>3. CASE Trade
    BY <2>3 DEF Trade, Decide, SendStart, SendFlushed, ReceiveOutcome, SyncStart, SyncWait,
       IncludeWait, IdleStart, IdleWait, Finish, WaitPass, Stop, Goto, TypeOK, Labels, Reasons,
       Sending, Reconciling
  <2> QED BY <2>1, <2>2, <2>3 DEF Next, Terminated
<1> QED BY <1>1, <1>2 DEF TypeOK
=============================================================================
