-------------------------- MODULE LatencyProperties --------------------------
(***************************************************************************)
(* What the measured delays are worth; see Latency.                        *)
(***************************************************************************)
EXTENDS Latency, TradingProperties

(* No settled order goes untimed: an order enters pending_trade_times only *)
(* when its result is read, and its transaction, which a push may bring    *)
(* earlier, is learnt from (and never looked at again) only afterwards.    *)
NoOrderSeenTooSoon == seen \cap (DOMAIN waiting \cup {reply}) = {}

(* pending_trade_times does not fill up with orders that came to nothing:  *)
(* it holds no more than the rules let this station have open at once.     *)
FewOrdersTimed == Cardinality(DOMAIN waiting) <= MaxOpenOffers

(* Delays span at most the run and fill at most the window; only orders    *)
(* that exist are timed, learnt from or settled.                           *)
Delays == 1..(Duration + 1)

DelayTypeOK ==
  /\ tick \in Ticks /\ lastId \in Nat /\ \A o \in offers : o.id \in 1..lastId
  /\ since \in Nat /\ reply \in {NoReply} \cup 0..lastId
  /\ samples \in Seq(Delays) /\ Len(samples) <= Window
  /\ DOMAIN waiting \subseteq 1..lastId /\ \A id \in DOMAIN waiting : waiting[id] \in Nat
  /\ seen \subseteq 1..lastId /\ settled \subseteq 1..lastId
=============================================================================
