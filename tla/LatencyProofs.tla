---------------------------- MODULE LatencyProofs ----------------------------
(***************************************************************************)
(* Theorems about Latency, for every market, policy and window.            *)
(***************************************************************************)
EXTENDS LatencyProperties, TradingProofs

(* NoOrderSeenTooSoon is inductive once ids are those given so far: a new  *)
(* order's id has not been seen.                                           *)
DelayInv == DelayTypeOK /\ NoOrderSeenTooSoon

LEMMA DelayInit == TimedInit => DelayInv
BY RulesAssumption, LatencyAssumption
   DEF TimedInit, Init, Ticks, DelayInv, DelayTypeOK, NoOrderSeenTooSoon, NoReply

(* The window of a sequence of delays is one.                              *)
LEMMA ObservedDelays ==
  ASSUME NEW S, NEW s \in Seq(S), NEW d \in Seq(S)
  PROVE  Observed(s, d) \in Seq(S) /\ Len(Observed(s, d)) <= Window
<1> DEFINE all == s \o d
           first == Len(all) - Window + 1
<1>1. all \in Seq(S) /\ Len(all) \in Nat
  OBVIOUS
<1>2. CASE Len(all) > Window
  <2> HIDE DEF all
  <2>1. first \in 1..Len(all)
    BY <1>1, <1>2, LatencyAssumption
  <2>2. \A k \in first..Len(all) : all[k] \in S
    BY <1>1, <2>1
  <2>3. /\ SubSeq(all, first, Len(all)) \in Seq(S)
        /\ Len(SubSeq(all, first, Len(all))) = Window
    BY <1>1, <2>1, <2>2, LatencyAssumption
  <2> QED BY <1>2, <2>3 DEF Observed, all
<1> QED BY <1>1, <1>2, LatencyAssumption DEF Observed

(* A delay is between one tick and the run's length plus one.              *)
LEMMA DelayRange ==
  ASSUME tick \in Ticks, NEW t \in Nat
  PROVE  Elapsed(t) \subseteq Delays
BY RulesAssumption DEF Elapsed, AtLeast, Delays, Ticks

(* Learning takes the orders it has seen out of those it times.            *)
LEMMA LearnKeeps ==
  ASSUME DelayInv, Learn
  PROVE  /\ samples' \in Seq(Delays) /\ Len(samples') <= Window
         /\ DOMAIN waiting' \subseteq 1..lastId
         /\ \A id \in DOMAIN waiting' : waiting'[id] \in Nat
         /\ seen' \subseteq 1..lastId /\ seen' \cap DOMAIN waiting' = {}
         /\ NoReply \notin seen'
<1> DEFINE news == settled \ seen
           left == GoOnTiming(DOMAIN waiting \ news)
<1>1. samples' \in Seq(Delays) /\ Len(samples') <= Window
  <2>1. PICK n \in 0..MaxOffers : \E delays \in [1..n -> Delays] :
                                    samples' = Observed(samples, delays)
    BY DEF Learn, Delays
  <2>2. PICK delays \in [1..n -> Delays] : samples' = Observed(samples, delays)
    BY <2>1
  <2>3. delays \in Seq(Delays)
    BY <2>1, <2>2, TradingAssumption
  <2> QED BY <2>2, <2>3, ObservedDelays DEF DelayInv, DelayTypeOK
<1>2. waiting' = [id \in left |-> waiting[id]] /\ left \subseteq DOMAIN waiting \ news
  BY DEF Learn, GoOnTiming
<1>3. seen' = seen \cup news
  BY DEF Learn
<1> HIDE DEF left, news
<1>4. news \subseteq 1..lastId
  BY DEF news, DelayInv, DelayTypeOK
<1> QED BY <1>1, <1>2, <1>3, <1>4 DEF DelayInv, DelayTypeOK, NoOrderSeenTooSoon, NoReply

-----------------------------------------------------------------------------
(* The steps.                                                              *)

LEMMA ClientStep ==
  ASSUME DelayInv, TimedDecide \/ Look \/ Reconcile \/ TimedRestart
  PROVE  DelayInv'
<1>1. UNCHANGED <<tick, lastId, offers, settled>>
  BY DEF TimedDecide, Look, Reconcile, TimedRestart, Restart, vars, marketVars
<1>2. CASE TimedDecide \/ Look
  <2>1. Learn /\ reply = NoReply /\ reply' = NoReply /\ (since' = tick \/ since' = since)
    BY <1>2 DEF TimedDecide, Look, Ready
  <2> QED BY <1>1, <2>1, LearnKeeps, RulesAssumption
          DEF Ticks, DelayInv, DelayTypeOK, NoOrderSeenTooSoon
<1>3. CASE Reconcile
  <2>1. /\ reply # NoReply /\ reply' = NoReply /\ since' = 0 /\ seen' = seen
        /\ \/ waiting' = waiting
           \/ /\ reply # Answer
              /\ waiting' = [id \in DOMAIN waiting \cup {reply} |->
                               IF id = reply THEN since ELSE waiting[id]]
    BY <1>3 DEF Reconcile
  <2>2. samples' \in Seq(Delays) /\ Len(samples') <= Window
    <3>1. PICK delay \in Elapsed(since) : samples' = Observed(samples, <<delay>>)
      BY <1>3 DEF Reconcile
    <3>2. <<delay>> \in Seq(Delays)
      BY <3>1, DelayRange DEF DelayInv, DelayTypeOK
    <3> QED BY <3>1, <3>2, ObservedDelays DEF DelayInv, DelayTypeOK
  <2>3. /\ DOMAIN waiting' \subseteq DOMAIN waiting \cup ({reply} \ {Answer})
        /\ \A id \in DOMAIN waiting' : waiting'[id] \in Nat
    BY <2>1 DEF DelayInv, DelayTypeOK
  <2>4. reply \in 0..lastId
    BY <2>1 DEF DelayInv, DelayTypeOK
  <2>5. NoOrderSeenTooSoon'
    BY <2>1, <2>3 DEF DelayInv, DelayTypeOK, NoOrderSeenTooSoon, NoReply
  <2>6. DOMAIN waiting' \subseteq 1..lastId
    BY <2>3, <2>4 DEF DelayInv, DelayTypeOK, Answer
  <2> QED BY <1>1, <2>1, <2>2, <2>3, <2>5, <2>6 DEF DelayInv, DelayTypeOK
<1>4. CASE TimedRestart
  BY <1>1, <1>4, LatencyAssumption
     DEF TimedRestart, DelayInv, DelayTypeOK, NoOrderSeenTooSoon, NoReply
<1> QED BY <1>2, <1>3, <1>4

(* The server may give a new offer the next id, and settles offers it has. *)
LEMMA ServerStep ==
  ASSUME DelayInv, TimedServer \/ OrderSettles \/ TimedWorld
  PROVE  DelayInv'
<1>1. /\ tick' \in Ticks /\ lastId' \in {lastId, lastId + 1}
      /\ \A o \in offers' : o.id \in 1..lastId'
  <2>1. CASE Tick
    BY <2>1, RulesAssumption DEF Tick, Ticks, DelayInv, DelayTypeOK
  <2>2. CASE Server
    BY <2>2 DEF Server, Apply, ApplyOffer, ApplyAccept, ApplyWithdraw, ApplyAdvertise,
                Refuse, RateLimit, Settle, Open, marketVars, DelayInv, DelayTypeOK
  <2>3. CASE PartnerAccepts \/ PartnerOffers \/ PartnerWithdraws \/ PartnerAdvertises
    BY <2>3 DEF PartnerAccepts, PartnerOffers, PartnerWithdraws, PartnerAdvertises,
                DelayInv, DelayTypeOK
  <2> QED BY <2>1, <2>2, <2>3 DEF TimedServer, OrderSettles, TimedWorld
<1>2. UNCHANGED <<since, samples, waiting, seen>>
  BY DEF TimedServer, OrderSettles, TimedWorld, delayVars
<1>3. settled' \subseteq 1..lastId'
  <2>1. settled \subseteq 1..lastId /\ 1..lastId \subseteq 1..lastId'
    BY <1>1 DEF DelayInv, DelayTypeOK
  <2>2. settled' = settled \/ \E o \in offers : settled' = settled \cup {o.id}
    BY DEF TimedServer, OrderSettles, TimedWorld, delayVars
  <2>3. \A o \in offers : o.id \in 1..lastId
    BY DEF DelayInv, DelayTypeOK
  <2>4. CASE settled' = settled
    BY <2>1, <2>4
  <2>5. ASSUME NEW o \in offers, settled' = settled \cup {o.id}
        PROVE  settled' \subseteq 1..lastId'
    <3>1. o.id \in 1..lastId
      BY <2>3
    <3> QED BY <2>1, <2>5, <3>1
  <2> QED BY <2>2, <2>4, <2>5
<1>4. reply' = reply \/ reply' = Answer \/ (reply' = lastId' /\ lastId' = lastId + 1)
  BY <1>1 DEF TimedServer, OrderSettles, TimedWorld, delayVars, DelayInv, DelayTypeOK
<1> QED BY <1>1, <1>2, <1>3, <1>4 DEF DelayInv, DelayTypeOK, NoOrderSeenTooSoon, Answer

LEMMA DelayStep == DelayInv /\ [TimedNext]_timedVars => DelayInv'
<1> SUFFICES ASSUME DelayInv, [TimedNext]_timedVars PROVE DelayInv'
  OBVIOUS
<1>1. CASE UNCHANGED timedVars \/ TimedTerminated
  BY <1>1 DEF TimedTerminated, Terminated, timedVars, vars, delayVars,
              DelayInv, DelayTypeOK, NoOrderSeenTooSoon
<1> QED BY <1>1, ClientStep, ServerStep DEF TimedNext

LEMMA DelayInvHolds == TimedSpec => []DelayInv
BY DelayInit, DelayStep, PTL DEF TimedSpec

(* Every variable keeps its type, and no delay is longer than the run.     *)
THEOREM DelaysTyped == TimedSpec => []DelayTypeOK
<1>1. DelayInv => DelayTypeOK
  BY DEF DelayInv
<1> QED BY DelayInvHolds, <1>1, PTL

(* No transaction is learnt from before the result of its order is read:   *)
(* no settled order goes untimed.                                          *)
THEOREM OrdersAreTimed == TimedSpec => []NoOrderSeenTooSoon
<1>1. DelayInv => NoOrderSeenTooSoon
  BY DEF DelayInv
<1> QED BY DelayInvHolds, <1>1, PTL

-----------------------------------------------------------------------------
(* A policy that measures its delays is one of those Trading allows, whose *)
(* delays are arbitrary: what is shown of Trading holds of it.             *)

(* A measured delay is a latency that Trading allows.                      *)
LEMMA DelayIsLatency ==
  ASSUME DelayInv, TimedDecide, NEW l \in {MinTicks} \cup Range(samples')
  PROVE  l \in 1..MaxLatency
<1>1. samples' \in Seq(Delays) /\ Len(samples') <= Window
  BY LearnKeeps DEF TimedDecide
<1>2. CASE l = MinTicks
  BY <1>2, LatencyAssumption, TradingAssumption
<1>3. CASE l \in Range(samples')
  <2>1. PICK k \in DOMAIN samples' : l = samples'[k]
    BY <1>3 DEF Range
  <2>2. l \in Delays
    BY <1>1, <2>1
  <2> QED BY <2>2, LatencyAssumption, TradingAssumption, RulesAssumption DEF Delays
<1> QED BY <1>2, <1>3

LEMMA DecideIsFree ==
  ASSUME DelayInv, TimedDecide
  PROVE  Decide
<1>1. PICK l \in {MinTicks} \cup Range(samples') :
        \E d \in Chosen(l) : command' = d /\ memory' = Record(AtTick(memory, view), d)
  BY DEF TimedDecide
<1>2. l \in 1..MaxLatency
  BY <1>1, DelayIsLatency
<1> QED BY <1>1, <1>2 DEF TimedDecide, Ready, Decide

LEMMA TimedStep == DelayInv /\ [TimedNext]_timedVars => [Next]_vars
<1> SUFFICES ASSUME DelayInv, [TimedNext]_timedVars PROVE [Next]_vars
  OBVIOUS
<1>1. CASE TimedDecide
  BY <1>1, DecideIsFree DEF Next, Client
<1>2. CASE Look \/ Reconcile \/ TimedTerminated \/ UNCHANGED timedVars
  BY <1>2 DEF Look, Reconcile, TimedTerminated, Terminated, timedVars
<1>3. CASE TimedRestart \/ TimedServer \/ OrderSettles \/ TimedWorld
  BY <1>3 DEF TimedRestart, TimedServer, OrderSettles, TimedWorld, Next, Client, World
<1> QED BY <1>1, <1>2, <1>3 DEF TimedNext

(* A policy that measures its delays is one of those Trading allows with   *)
(* any delays: what is proved of Trading holds of it.                      *)
THEOREM MeasuringRefinesTrading == TimedSpec => Spec
<1>1. TimedInit => Init
  BY DEF TimedInit
<1> QED BY DelayInvHolds, TimedStep, <1>1, PTL DEF TimedSpec, Spec

-----------------------------------------------------------------------------
(* pending_trade_times: at every decision it holds open orders of ours     *)
(* only, and a decision to order leaves room for one more.                 *)

OursAreTimed ==
  \A o \in offers : o.id \in DOMAIN waiting \cup {reply} => o.from = Self

RoomForOrder ==
  /\ Cardinality(DOMAIN waiting) <= MaxOpenOffers
  /\ command.kind = "offer" \/ reply \notin {NoReply, Answer} =>
       Cardinality(DOMAIN waiting) < MaxOpenOffers

OneAtATime == reply # NoReply => command = NoCommand

TimedInv == OursAreTimed /\ RoomForOrder /\ OneAtATime

(* Learning leaves only orders that are open, of which there are as many   *)
(* as open offers of ours.                                                 *)
LEMMA LearnLeavesOpen ==
  ASSUME DelayInv, MarketInv, OursAreTimed, Learn
  PROVE  /\ DOMAIN waiting' \subseteq DOMAIN waiting
         /\ Cardinality(DOMAIN waiting') <= Cardinality(OurOpen)
         /\ Cardinality(DOMAIN waiting') \in Nat /\ Cardinality(OurOpen) \in Nat
<1> DEFINE ids == {o.id : o \in OurOpen}
           W == DOMAIN waiting'
<1>1. W \subseteq DOMAIN waiting /\ \A id \in W : StillOpen(id)
  BY DEF Learn, GoOnTiming
<1>2. W \subseteq ids
  BY <1>1 DEF StillOpen, OurOpen, OursAreTimed
<1>3. IsFiniteSet(OurOpen)
  BY FS_Subset DEF OurOpen, MarketInv, OffersInv
<1>4. IsFiniteSet(ids) /\ Cardinality(ids) <= Cardinality(OurOpen)
  <2> DEFINE S == OurOpen
             f == [o \in S |-> o.id]
  <2>1. f \in Surjection(S, ids)
    BY DEF Surjection
  <2>2. IsFiniteSet(S)
    BY <1>3
  <2> HIDE DEF S, f, ids
  <2>3. IsFiniteSet(ids) /\ Cardinality(ids) <= Cardinality(S)
    BY <2>1, <2>2, FS_Surjection
  <2> QED BY <2>3 DEF S
<1> HIDE DEF ids, W
<1>5. Cardinality(W) <= Cardinality(ids) /\ IsFiniteSet(W)
  BY <1>2, <1>4, FS_Subset
<1>6. Cardinality(W) \in Nat /\ Cardinality(ids) \in Nat /\ Cardinality(OurOpen) \in Nat
  BY <1>3, <1>4, <1>5, FS_CardinalityType
<1> QED BY <1>1, <1>4, <1>5, <1>6 DEF W

LEMMA TimedClientStep ==
  ASSUME DelayInv, MarketInv, TimedInv, TimedDecide \/ Look \/ Reconcile \/ TimedRestart
  PROVE  TimedInv'
<1>1. offers' = offers /\ MaxOpenOffers \in Nat
  BY RulesAssumption DEF TimedDecide, Look, Reconcile, TimedRestart, Restart, vars, marketVars
<1>2. CASE TimedDecide \/ Look
  <2>1. Learn /\ reply = NoReply /\ reply' = NoReply
    BY <1>2 DEF TimedDecide, Look, Ready
  <2>2. /\ DOMAIN waiting' \subseteq DOMAIN waiting
        /\ Cardinality(DOMAIN waiting') <= Cardinality(OurOpen)
        /\ Cardinality(DOMAIN waiting') \in Nat /\ Cardinality(OurOpen) \in Nat
    BY <2>1, LearnLeavesOpen DEF TimedInv
  <2>3. Cardinality(OurOpen) <= MaxOpenOffers
    BY DEF MarketInv, LimitsInv
  <2>4. command'.kind = "offer" => Cardinality(OurOpen) < MaxOpenOffers
    <3>1. CASE Look
      <4>1. command' = NoCommand
        BY <3>1 DEF Look, Ready, vars
      <4> QED BY <4>1, NoCommandIs
    <3>2. CASE TimedDecide
      <4>1. PICK l \in {MinTicks} \cup Range(samples') : \E d \in Chosen(l) : command' = d
        BY <3>2 DEF TimedDecide
      <4>2. PICK d \in Chosen(l) : command' = d
        BY <4>1
      <4>3. l \in 1..MaxLatency
        BY <3>2, <4>1, DelayIsLatency
      <4>4. Seen(view) /\ OurOpen = Outgoing(view)
        BY MarketSeen
      <4>5. d.kind = "offer" => Proposal(d, view)
        BY <4>3, <4>4, ChosenIs DEF Withdraw, Accept
      <4> QED BY <4>2, <4>4, <4>5 DEF Proposal
    <3> QED BY <1>2, <3>1, <3>2
  <2>5. RoomForOrder'
    <3> DEFINE c == Cardinality(DOMAIN waiting')
    <3>1. c <= MaxOpenOffers /\ (command'.kind = "offer" => c < MaxOpenOffers)
      BY <1>1, <2>2, <2>3, <2>4
    <3> QED BY <2>1, <3>1 DEF RoomForOrder
  <2>6. OursAreTimed'
    BY <1>1, <2>1, <2>2 DEF TimedInv, OursAreTimed
  <2> QED BY <2>1, <2>5, <2>6 DEF TimedInv, OneAtATime
<1>3. CASE Reconcile
  <2>1. /\ reply # NoReply /\ reply' = NoReply /\ command' = command /\ command = NoCommand
        /\ \/ waiting' = waiting
           \/ reply \notin {NoReply, Answer} /\ DOMAIN waiting' = DOMAIN waiting \cup {reply}
    BY <1>3 DEF Reconcile, vars, TimedInv, OneAtATime
  <2>2. OursAreTimed'
    BY <1>1, <2>1 DEF TimedInv, OursAreTimed, DelayInv, DelayTypeOK, NoReply
  <2>3. Cardinality(DOMAIN waiting') <= MaxOpenOffers
    <3>1. CASE waiting' = waiting
      BY <3>1 DEF TimedInv, RoomForOrder
    <3>2. CASE reply \notin {NoReply, Answer} /\ DOMAIN waiting' = DOMAIN waiting \cup {reply}
      <4> DEFINE D == DOMAIN waiting
      <4>1. Cardinality(D) < MaxOpenOffers
        BY <3>2 DEF TimedInv, RoomForOrder
      <4>2. IsFiniteSet(D) /\ Cardinality(D) \in Nat
        <5>1. IsFiniteSet(1..lastId)
          BY FS_Interval DEF MarketInv, ScalarsOK
        <5>2. IsFiniteSet(D)
          BY <5>1, FS_Subset DEF DelayInv, DelayTypeOK
        <5> QED BY <5>2, FS_CardinalityType
      <4> HIDE DEF D
      <4>3. Cardinality(D \cup {reply}) \in {Cardinality(D), Cardinality(D) + 1}
        BY <4>2, FS_AddElement
      <4>4. Cardinality(D \cup {reply}) <= MaxOpenOffers
        BY <1>1, <4>1, <4>2, <4>3
      <4> QED BY <3>2, <4>4 DEF D
    <3> QED BY <2>1, <3>1, <3>2
  <2> QED BY <2>1, <2>2, <2>3, NoCommandIs DEF TimedInv, RoomForOrder, OneAtATime
<1>4. CASE TimedRestart
  <2>1. waiting' = <<>> /\ reply' = NoReply /\ command' = NoCommand
    BY <1>4 DEF TimedRestart, Restart
  <2>2. DOMAIN waiting' = {} /\ Cardinality({}) = 0
    BY <2>1, FS_EmptySet
  <2>3. OursAreTimed'
    BY <1>1, <2>1, <2>2 DEF OursAreTimed, DelayInv, DelayTypeOK, NoReply
  <2> QED BY <1>1, <2>1, <2>2, <2>3, NoCommandIs DEF TimedInv, RoomForOrder, OneAtATime
<1> QED BY <1>2, <1>3, <1>4

LEMMA TimedMarketStep ==
  ASSUME DelayInv, MarketInv, TimedInv, TimedServer \/ OrderSettles \/ TimedWorld
  PROVE  TimedInv'
<1>0. /\ lastId \in Nat /\ \A o \in offers : o.id \in 1..lastId
      /\ DOMAIN waiting \subseteq 1..lastId /\ reply \in {NoReply} \cup 0..lastId
  BY DEF DelayInv, DelayTypeOK
<1>1. waiting' = waiting
  BY DEF TimedServer, OrderSettles, TimedWorld, delayVars
<1>2. CASE TimedServer /\ ~(Apply /\ ApplyOffer)
  <2>1. command' = NoCommand /\ lastId' = lastId /\ offers' \subseteq offers
    BY <1>2 DEF TimedServer, Server, Apply, ApplyAccept, ApplyWithdraw, ApplyAdvertise, Refuse,
                RateLimit, marketVars
  <2>2. reply' = Answer
    BY <1>0, <1>2, <2>1 DEF TimedServer
  <2> QED BY <1>0, <1>1, <2>1, <2>2, NoCommandIs
          DEF TimedInv, OursAreTimed, RoomForOrder, OneAtATime, Answer
<1>3. CASE TimedServer /\ Apply /\ ApplyOffer
  <2> DEFINE new == [id |-> lastId + 1, from |-> Self, to |-> command.to, give |-> command.give,
                     receive |-> command.receive, created |-> tick, expires |-> command.expires]
  <2>1. /\ command' = NoCommand /\ lastId' = lastId + 1 /\ offers' = offers \cup {new}
        /\ command.kind = "offer" /\ reply' \in {Answer, lastId + 1}
    BY <1>3 DEF TimedServer, Apply, ApplyOffer
  <2>2. new.from = Self /\ new.id = lastId + 1
    OBVIOUS
  <2> HIDE DEF new
  <2>3. \A o \in offers : o.id # lastId + 1 /\ o.id # Answer
    BY <1>0 DEF Answer
  <2>4. OursAreTimed'
    BY <1>0, <1>1, <2>1, <2>2, <2>3 DEF TimedInv, OursAreTimed
  <2>5. RoomForOrder'
    BY <1>1, <2>1, NoCommandIs DEF TimedInv, RoomForOrder
  <2> QED BY <2>1, <2>4, <2>5 DEF TimedInv, OneAtATime
<1>4. CASE OrderSettles \/ TimedWorld
  <2>1. command' = command /\ reply' = reply
    BY <1>4 DEF OrderSettles, TimedWorld, PartnerAccepts, Tick, PartnerOffers, PartnerWithdraws,
                PartnerAdvertises, delayVars
  <2>2. offers' \subseteq offers \/ \E o : o.id = lastId + 1 /\ offers' = offers \cup {o}
    BY <1>4 DEF OrderSettles, TimedWorld, PartnerAccepts, Tick, PartnerOffers, PartnerWithdraws,
                PartnerAdvertises
  <2>3. lastId + 1 \notin DOMAIN waiting \cup {reply}
    BY <1>0 DEF NoReply
  <2>4. OursAreTimed'
    BY <1>1, <2>1, <2>2, <2>3 DEF TimedInv, OursAreTimed
  <2> QED BY <1>1, <2>1, <2>4 DEF TimedInv, RoomForOrder, OneAtATime
<1> QED BY <1>2, <1>3, <1>4

(* pending_trade_times holds no more orders than may be open at once.      *)
THEOREM FewOrdersAreTimed == TimedSpec => []FewOrdersTimed
<1>1. TimedInit => MarketInv /\ TimedInv
  <2> SUFFICES ASSUME TimedInit PROVE MarketInv /\ TimedInv
    OBVIOUS
  <2>1. MarketInv
    BY MarketInit DEF TimedInit
  <2>2. DOMAIN waiting = {} /\ Cardinality(DOMAIN waiting) = 0
    BY FS_EmptySet DEF TimedInit
  <2> QED BY <2>1, <2>2, NoCommandIs, RulesAssumption
          DEF TimedInit, Init, TimedInv, OursAreTimed, RoomForOrder, OneAtATime
<1>2. DelayInv /\ MarketInv /\ [TimedNext]_timedVars => MarketInv'
  BY TimedStep, MarketStep
<1>3. DelayInv /\ MarketInv /\ TimedInv /\ [TimedNext]_timedVars => TimedInv'
  <2> SUFFICES ASSUME DelayInv, MarketInv, TimedInv, [TimedNext]_timedVars PROVE TimedInv'
    OBVIOUS
  <2>1. CASE UNCHANGED timedVars \/ TimedTerminated
    BY <2>1 DEF TimedTerminated, Terminated, timedVars, vars, delayVars, TimedInv,
                OursAreTimed, RoomForOrder, OneAtATime
  <2> QED BY <2>1, TimedClientStep, TimedMarketStep DEF TimedNext
<1>4. TimedInv => FewOrdersTimed
  BY DEF TimedInv, RoomForOrder, FewOrdersTimed
<1> QED BY DelayInvHolds, <1>1, <1>2, <1>3, <1>4, PTL DEF TimedSpec

=============================================================================
