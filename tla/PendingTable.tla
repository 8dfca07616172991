---------------------------- MODULE PendingTable ----------------------------
(***************************************************************************)
(* The table of in-flight commands of commands.py (class PendingRequests). *)
(* The table is the set `pending' of request ids registered in it; the     *)
(* futures it handed out are a function from request id to the future's    *)
(* state, kept apart because a caller goes on holding its future after the *)
(* table has dropped the id.                                               *)
(*                                                                         *)
(* A future is unset until it takes its one value: a result message, or a  *)
(* failure (a protocol error or the end of the connection).                *)
(***************************************************************************)

Unset        == [kind |-> "unset"]
Rejected     == [kind |-> "protocol_error"]
Disconnected == [kind |-> "disconnected"]

(* PendingRequests.register.                                               *)
RegisterAfterWrite(pending, i) == pending  \* mutant: too late for a fast reply

Register(pending, i) == pending \cup {i}

(* A result message, which is also what a resolved future holds.           *)
Result(i, v) == [kind |-> "result", id |-> i, version |-> v]

(* PendingRequests.resolve and reject pop the id and set the future only   *)
(* if the id was registered and the future is not done; an unknown id is   *)
(* logged and changes nothing.                                             *)
Settle(pending, future, i, value) ==
  IF i \in pending /\ future[i] = Unset
  THEN [future EXCEPT ![i] = value]
  ELSE future

(* PendingRequests.fail_all: every registered future not yet done fails.   *)
FailAll(pending, future) ==
  [i \in DOMAIN future |->
     IF i \in pending /\ future[i] = Unset THEN Disconnected ELSE future[i]]

KeepEntry(pending, i) == pending  \* mutant: the entry is never dropped

(* PendingRequests.discard, and the pop that resolve and reject do first.  *)
Discard(pending, i) == pending \ {i}
=============================================================================
