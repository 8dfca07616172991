------------------------------- MODULE Latency -------------------------------
(***************************************************************************)
(* How the default policies measure the delays their thresholds adapt to   *)
(* (strategy.py: observe_latency, pending_trade_times, _learn_suppliers and*)
(* the end of _run_trading's loop).  Trading leaves the delay l of a       *)
(* decision free; here it is what the policy object has measured.          *)
(*                                                                         *)
(* The client learns of its commands in the order of the loop: the result, *)
(* then reconcile, then the next choose, which times the trades settled    *)
(* since.  The server and the partners do not wait for it: an offer may be *)
(* accepted before its result is read.                                     *)
(*                                                                         *)
(* Delays are counted in ticks of one length, rounded up as latency_ticks  *)
(* does; one second, the least the policy budgets, is MinTicks.            *)
(***************************************************************************)
EXTENDS Trading, Sequences, Functions

CONSTANTS
  MinTicks,  \* ticks in one second
  Window     \* latencies.maxlen; 32 in the code

(* MaxLatency is no bound here: it is large enough for any delay there is. *)
ASSUME LatencyAssumption ==
  /\ ~Simplified
  /\ MinTicks \in Nat \ {0} /\ Window \in Nat \ {0}
  /\ MinTicks <= MaxLatency /\ Duration + 1 <= MaxLatency

VARIABLES
  since,    \* tick in which the command was sent (started); 0 when there is none
  reply,    \* what the client has yet to read of it: nothing, an answer, an offer's id
  samples,  \* latencies, the latest last
  waiting,  \* pending_trade_times: open orders -> tick sent
  seen,     \* seen_transactions
  settled   \* the offers of ours that the snapshot's transactions settle

delayVars == <<since, reply, samples, waiting, seen, settled>>
timedVars == <<vars, delayVars>>

NoReply == -1
Answer  == 0   \* a result that names no order

TimedInit ==
  /\ Init
  /\ since = 0 /\ reply = NoReply /\ samples = <<>> /\ waiting = <<>>
  /\ seen = {} /\ settled = {}

-----------------------------------------------------------------------------
(* Ticks a delay may span, begun in tick t and measured in this one.       *)
Elapsed(t) == AtLeast(1, tick - t)..(tick - t + 1)

(* Mutant: the deque has no maximal length.                                *)
ObservedAll(s, delays) == s \o delays

(* observe_latency: the deque drops its oldest sample.                     *)
Observed(s, delays) ==
  LET all == s \o delays IN
  IF Len(all) > Window THEN SubSeq(all, Len(all) - Window + 1, Len(all)) ELSE all

(* latency_ticks: the slowest of the samples, and at least a second.       *)
Slowest(l, s) ==
  \A k \in {MinTicks} \cup Range(s) : k <= l

(* Whether a snapshot of now still calls the order open.                   *)
StillOpen(id) == \E o \in offers : o.id = id /\ ~Expired(o, view)

(* Mutant: orders that did not end in a trade are kept.                    *)
KeepsTiming(ids) == ids

(* Orders expired, withdrawn or ended are timed no longer.                 *)
GoOnTiming(ids) == {id \in ids : StillOpen(id)}

(* _learn_suppliers: orders settled since the last call are timed, in the  *)
(* order in which the snapshot happens to list their transactions.         *)
Learn ==
  LET news  == settled \ seen
      timed == news \cap DOMAIN waiting
      left  == GoOnTiming(DOMAIN waiting \ news)
  IN /\ \E n \in 0..MaxOffers : \E order \in Bijection(1..n, timed) :
          \E delays \in [1..n -> 1..(Duration + 1)] :
            /\ \A k \in 1..n : delays[k] \in Elapsed(waiting[order[k]])
            /\ samples' = Observed(samples, delays)
     /\ waiting' = [id \in left |-> waiting[id]]
     /\ seen' = seen \cup news

-----------------------------------------------------------------------------
(* The client.                                                             *)

Ready == command = NoCommand /\ reply = NoReply

(* choose, with the delays learnt by then, finds something to do ...       *)
TimedDecide ==
  /\ Ready /\ Learn
  /\ \E l \in {MinTicks} \cup Range(samples') :
       /\ Slowest(l, samples')
       /\ \E d \in Chosen(l) : command' = d /\ memory' = Record(AtTick(memory, view), d)
  /\ since' = tick
  /\ UNCHANGED <<marketVars, records, served, restarts, reply, settled>>

(* Mutant: every push is learnt from, also while a result is awaited.      *)
LookAtAnyTime ==
  /\ Learn
  /\ UNCHANGED <<vars, since, reply, settled>>

(* ... or nothing, but it has learnt.                                      *)
Look ==
  /\ Ready /\ Learn
  /\ UNCHANGED <<vars, since, reply, settled>>

(* The result and the snapshot that includes it are read: an order is timed*)
(* from when it was sent, and the command itself took this long.           *)
Reconcile ==
  /\ reply # NoReply /\ reply' = NoReply /\ since' = 0
  /\ waiting' = IF reply = Answer THEN waiting
                ELSE [id \in DOMAIN waiting \cup {reply} |->
                        IF id = reply THEN since ELSE waiting[id]]
  /\ \E delay \in Elapsed(since) : samples' = Observed(samples, <<delay>>)
  /\ UNCHANGED <<vars, seen, settled>>

TimedRestart ==
  /\ Restart
  /\ since' = 0 /\ reply' = NoReply
  /\ samples' = <<>> /\ waiting' = <<>> /\ seen' = {}
  /\ UNCHANGED settled

-----------------------------------------------------------------------------
(* The server and the partners.                                            *)

(* The result of an offer that is no gift names it.                        *)
TimedServer ==
  /\ Server
  /\ reply' = IF lastId' > lastId /\ ~IsZero(command.receive) THEN lastId' ELSE Answer
  /\ UNCHANGED <<since, samples, waiting, seen, settled>>

OrderSettles ==
  /\ PartnerAccepts
  /\ \E o \in offers \ offers' : settled' = settled \cup {o.id}
  /\ UNCHANGED <<since, reply, samples, waiting, seen>>

TimedWorld ==
  /\ Tick \/ PartnerOffers \/ PartnerWithdraws \/ PartnerAdvertises
  /\ UNCHANGED delayVars

TimedTerminated == Terminated /\ UNCHANGED delayVars

TimedNext ==
  \/ TimedDecide \/ Look \/ Reconcile \/ TimedRestart
  \/ TimedServer \/ OrderSettles \/ TimedWorld \/ TimedTerminated

TimedSpec == TimedInit /\ [][TimedNext]_timedVars
=============================================================================
