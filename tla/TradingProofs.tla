---------------------------- MODULE TradingProofs ----------------------------
(***************************************************************************)
(* Theorems about Trading, for every market, every latency and every value *)
(* of the policies' constants.                                             *)
(***************************************************************************)
EXTENDS PolicyProofs

(* The budget of request records.                                          *)

(* A policy decides only where MayAct lets it.                             *)
LEMMA DecisionMeansMayAct ==
  ASSUME NEW l, NEW d \in Chosen(l)
  PROVE  MayAct(view, AtTick(memory, view))
<1> DEFINE m == AtTick(memory, view)
<1>1. ~MayAct(view, m) => Decisions(view, memory, l) = {}
  BY DEF Decisions
<1>2. ~MayAct(view, m) => SimplifiedDecisions(view, memory) = {}
  BY DEF SimplifiedDecisions
<1> QED BY <1>1, <1>2 DEF Chosen

(* A memory is the record NewMemory makes, with a count of what was sent.  *)
Counting(m) ==
  /\ m = [tick |-> m.tick, attempted |-> m.attempted, sentThisTick |-> m.sentThisTick,
          sentTotal |-> m.sentTotal, retryTick |-> m.retryTick,
          partnerTurn |-> m.partnerTurn, lastAdTick |-> m.lastAdTick]
  /\ m.sentTotal \in Nat

(* A new tick changes no count; a decision adds one; a back-off none.      *)
LEMMA TickKeepsCount ==
  ASSUME NEW m, Counting(m)
  PROVE  Counting(AtTick(m, view)) /\ AtTick(m, view).sentTotal = m.sentTotal
BY DEF Counting, AtTick

LEMMA RecordCounts ==
  ASSUME NEW m, Counting(m), NEW d
  PROVE  Counting(Record(m, d)) /\ Record(m, d).sentTotal = m.sentTotal + 1
<1> DEFINE turn == IF d.kind = "offer" THEN [m.partnerTurn EXCEPT ![d.to] = m.sentTotal + 1]
                                       ELSE m.partnerTurn
           ad   == IF d.kind = "advertise" THEN m.tick ELSE m.lastAdTick
           n    == m.sentThisTick + 1
           tried == m.attempted \cup {Key(d)}
<1>1. Record(m, d) = [m EXCEPT !.attempted = tried, !.sentThisTick = n,
                               !.sentTotal = m.sentTotal + 1,
                               !.partnerTurn = turn, !.lastAdTick = ad]
  BY DEF Record
<1> HIDE DEF turn, ad, n, tried
<1> DEFINE new == [tick |-> m.tick, attempted |-> tried, sentThisTick |-> n,
                   sentTotal |-> m.sentTotal + 1, retryTick |-> m.retryTick,
                   partnerTurn |-> turn, lastAdTick |-> ad]
<1>2. m = [tick |-> m.tick, attempted |-> m.attempted, sentThisTick |-> m.sentThisTick,
           sentTotal |-> m.sentTotal, retryTick |-> m.retryTick,
           partnerTurn |-> m.partnerTurn, lastAdTick |-> m.lastAdTick]
  BY DEF Counting
<1>3. Record(m, d) = new
  BY <1>1, <1>2
<1>4. m.sentTotal + 1 \in Nat
  BY DEF Counting
<1>5. new = [tick |-> new.tick, attempted |-> new.attempted,
             sentThisTick |-> new.sentThisTick, sentTotal |-> new.sentTotal,
             retryTick |-> new.retryTick, partnerTurn |-> new.partnerTurn,
             lastAdTick |-> new.lastAdTick] /\ new.sentTotal = m.sentTotal + 1
  OBVIOUS
<1> HIDE DEF new
<1> QED BY <1>3, <1>4, <1>5 DEF Counting

LEMMA RetryKeepsCount ==
  ASSUME NEW m, Counting(m), NEW t
  PROVE  /\ Counting([m EXCEPT !.retryTick = t])
         /\ [m EXCEPT !.retryTick = t].sentTotal = m.sentTotal
BY DEF Counting

(* BudgetKept is inductive once the counts are numbers.                    *)
BudgetInv == Counting(memory) /\ records \in Nat /\ BudgetKept

LEMMA BudgetInit == Init => BudgetInv
BY RulesAssumption DEF Init, BudgetInv, BudgetKept, Counting, NewMemory, NoCommand

LEMMA BudgetDecide == BudgetInv /\ Decide => BudgetInv'
<1> SUFFICES ASSUME BudgetInv, Decide PROVE BudgetInv'
  OBVIOUS
<1> DEFINE m == AtTick(memory, view)
<1>1. PICK l \in 1..MaxLatency : \E d \in Chosen(l) :
        command' = d /\ memory' = Record(m, d)
  BY DEF Decide
<1>2. PICK d \in Chosen(l) : command' = d /\ memory' = Record(m, d)
  BY <1>1
<1>3. MayAct(view, m)
  BY DecisionMeansMayAct
<1>4. Counting(m) /\ m.sentTotal = memory.sentTotal
  BY TickKeepsCount DEF BudgetInv
<1>5. Counting(memory') /\ memory'.sentTotal = memory.sentTotal + 1
  BY <1>2, <1>4, RecordCounts
<1>6. records < MaxRecords
  <2>1. Spent(view, m) < MaxRecords
    BY <1>3 DEF MayAct
  <2>2. view.records = records
    BY DEF view
  <2> QED BY <2>1, <2>2, <1>4, RulesAssumption DEF Spent, AtLeast, BudgetInv, Counting
<1>7. records' = records
  BY DEF Decide
<1> QED BY <1>5, <1>6, <1>7, RulesAssumption DEF BudgetInv, BudgetKept, Counting

LEMMA BudgetServer == BudgetInv /\ Server => BudgetInv'
<1> SUFFICES ASSUME BudgetInv, Server PROVE BudgetInv'
  OBVIOUS
<1> USE RulesAssumption
<1>1. CASE Apply
  <2>1. command # NoCommand
    BY <1>1 DEF Apply, ApplyOffer, ApplyAccept, ApplyWithdraw, ApplyAdvertise, NoCommand
  <2> QED BY <1>1, <2>1 DEF Apply, BudgetInv, BudgetKept, Counting
<1>2. CASE Refuse
  BY <1>2 DEF Refuse, BudgetInv, BudgetKept, Counting
<1>3. CASE RateLimit
  <2>1. PICK t : memory' = [memory EXCEPT !.retryTick = t]
    BY <1>3 DEF RateLimit
  <2>2. Counting(memory') /\ memory'.sentTotal = memory.sentTotal
    BY <2>1, RetryKeepsCount DEF BudgetInv
  <2>3. records' \in {records, AtMost(records + 1, MaxRecords)} /\ command' = NoCommand
    BY <1>3 DEF RateLimit
  <2>4. records < memory.sentTotal /\ records < MaxRecords
    BY <1>3 DEF RateLimit, BudgetInv, BudgetKept
  <2> QED BY <2>2, <2>3, <2>4 DEF AtMost, BudgetInv, BudgetKept, Counting
<1> QED BY <1>1, <1>2, <1>3 DEF Server

LEMMA BudgetStep == BudgetInv /\ [Next]_vars => BudgetInv'
<1> SUFFICES ASSUME BudgetInv, [Next]_vars PROVE BudgetInv'
  OBVIOUS
<1>1. CASE Decide
  BY <1>1, BudgetDecide
<1>2. CASE Restart
  BY <1>2, RulesAssumption
     DEF Restart, BudgetInv, BudgetKept, Counting, NewMemory
<1>3. CASE Server
  BY <1>3, BudgetServer
<1>4. CASE World \/ UNCHANGED vars
  <2>1. UNCHANGED <<memory, command, records>>
    BY <1>4 DEF World, Tick, PartnerAccepts, PartnerOffers, PartnerWithdraws,
                PartnerAdvertises, vars
  <2> QED BY <2>1 DEF BudgetInv, BudgetKept
<1> QED BY <1>1, <1>2, <1>3, <1>4 DEF Next, Client, Terminated

(* The lifetime budget is never overrun, on any market, by any of the      *)
(* policies and across any restarts of the client.                         *)
THEOREM BudgetNeverOverrun == Spec => []BudgetKept
<1>1. BudgetInv => BudgetKept
  BY DEF BudgetInv
<1> QED BY BudgetInit, BudgetStep, <1>1, PTL DEF Spec

-----------------------------------------------------------------------------
(* The market: types, offers and the command in flight.                    *)

(* A decision has a type, and a key to remember it by.                     *)
LEMMA KeyType ==
  ASSUME NEW d \in Commands, d # NoCommand
  PROVE  Key(d) \in Keys
<1>1. Self \in Stations /\ Partners \subseteq Stations /\ 0 \in Nat
  BY DEF Stations
<1>2. CASE d \in [kind : {"withdraw", "accept"}, offer : Nat]
  BY <1>1, <1>2 DEF Key, Keys
<1>3. CASE d \in [kind : {"advertise"}, ad : Ads]
  <2>1. d.kind = "advertise"
    BY <1>3
  <2> QED BY <1>1, <2>1 DEF Key, Keys
<1>4. CASE d \in [kind : {"offer"}, to : Partners, give : Bundles, receive : Bundles, expires : Nat]
  <2>1. d.kind = "offer" /\ d.to \in Partners
    BY <1>4
  <2> QED BY <1>1, <2>1 DEF Key, Keys
<1> QED BY <1>2, <1>3, <1>4 DEF Commands

(* Memories stay memories.                                                 *)
LEMMA NewMemoryType ==
  ASSUME NEW n \in Nat
  PROVE  NewMemory(n) \in Memories
<1> DEFINE turn == [p \in Partners |-> -1]
<1>1. turn \in [Partners -> Int]
  OBVIOUS
<1> HIDE DEF turn
<1>2. [tick |-> -1, attempted |-> {}, sentThisTick |-> 0, sentTotal |-> n,
       retryTick |-> 0, partnerTurn |-> turn, lastAdTick |-> -100] \in Memories
  BY <1>1 DEF Memories
<1> QED BY <1>2 DEF NewMemory, turn

LEMMA MemoryTypes ==
  ASSUME NEW m \in Memories, NEW w, w.tick \in Nat
  PROVE  /\ AtTick(m, w) \in Memories /\ m.sentTotal \in Nat
         /\ m.tick \in Int
<1>1. AtTick(m, w) \in Memories
  <2>1. [m EXCEPT !.tick = w.tick, !.attempted = {}, !.sentThisTick = 0] \in Memories
    <3> DEFINE t == w.tick
    <3>1. t \in Int /\ {} \in SUBSET Keys /\ 0 \in Nat
      OBVIOUS
    <3> HIDE DEF t
    <3>2. [m EXCEPT !.tick = t, !.attempted = {}, !.sentThisTick = 0] \in Memories
      BY <3>1 DEF Memories
    <3> QED BY <3>2 DEF t
  <2> QED BY <2>1 DEF AtTick
<1> QED BY <1>1 DEF Memories

LEMMA RetryType ==
  ASSUME NEW m \in Memories, NEW t \in Nat
  PROVE  [m EXCEPT !.retryTick = t] \in Memories
BY DEF Memories

LEMMA RecordType ==
  ASSUME NEW m \in Memories, NEW d \in Commands, d # NoCommand
  PROVE  Record(m, d) \in Memories
<1> DEFINE turn == IF d.kind = "offer" THEN [m.partnerTurn EXCEPT ![d.to] = m.sentTotal + 1]
                                       ELSE m.partnerTurn
           ad   == IF d.kind = "advertise" THEN m.tick ELSE m.lastAdTick
           n    == m.sentThisTick + 1
           tried == m.attempted \cup {Key(d)}
           total == m.sentTotal + 1
<1>1. Record(m, d) = [m EXCEPT !.attempted = tried, !.sentThisTick = n, !.sentTotal = total,
                               !.partnerTurn = turn, !.lastAdTick = ad]
  BY DEF Record
<1>2. turn \in [Partners -> Int] /\ ad \in Int
  <2>1. m.partnerTurn \in [Partners -> Int] /\ m.sentTotal + 1 \in Int
    BY DEF Memories
  <2>2. turn \in [Partners -> Int]
    BY <2>1
  <2>3. ad \in Int
    BY DEF Memories
  <2> QED BY <2>2, <2>3
<1>3. n \in Nat /\ total \in Nat
  BY DEF Memories
<1>4. tried \in SUBSET Keys
  BY KeyType DEF Memories
<1> HIDE DEF turn, ad, n, tried, total
<1> QED BY <1>1, <1>2, <1>3, <1>4 DEF Memories

(* An open offer is a partner's to us, or ours to a partner, made on even  *)
(* terms and for no longer than the rules allow; ids are never given twice.*)
Ours(o) ==
  /\ o.from = Self /\ o.to \in Partners /\ EvenTerms(o)
  /\ o.expires <= tick + LongestLife /\ o.expires <= Duration

Theirs(o) == o.from \in Partners /\ o.to = Self

OffersInv ==
  /\ IsFiniteSet(offers)
  /\ \A o \in offers :
       /\ o \in Offers /\ o.id <= lastId
       /\ Ours(o) \/ Theirs(o)
       /\ \A q \in offers : q.id = o.id => q = o

(* What the command in flight relies on is still so when it arrives.       *)
OfferInv ==
  command.kind = "offer" =>
    /\ EvenTerms(command)
    /\ command.expires <= tick + LongestLife /\ command.expires <= Duration
    /\ \A o \in OurOpen :
         /\ o.to # command.to
         /\ Simplified => \A r \in Resource : ~(Buys(o, r) /\ Buys(command, r))

AcceptInv ==
  command.kind = "accept" =>
    /\ command.offer <= lastId
    /\ \A o \in offers : o.id = command.offer => Theirs(o) /\ Agreeable(o)

(* The limits on our open offers, as sets.                                 *)
LimitsInv ==
  /\ Cardinality(OurOpen) <= MaxOpenOffers
  /\ \A o, q \in OurOpen : o.to = q.to => o = q
  /\ Simplified => OneOrderPerResource

ScalarsOK ==
  /\ tick \in Ticks /\ alive \in BOOLEAN /\ stock \in Bundles
  /\ lastId \in Nat /\ ads \in [Stations -> Ads] /\ records \in Nat /\ served \in Nat
  /\ delivered \in SUBSET (Stations \X Resource)
  /\ memory \in Memories /\ command \in Commands /\ restarts \in Nat

MarketInv == ScalarsOK /\ OffersInv /\ OfferInv /\ AcceptInv /\ LimitsInv

(* What a policy sees is well typed, and its outgoing offers are those the *)
(* server calls open.                                                      *)
LEMMA MarketSeen ==
  ASSUME MarketInv
  PROVE  Seen(view) /\ OurOpen = Outgoing(view) /\ view.tick = tick /\ view.offers = offers
         /\ view.stock = stock
<1>1. /\ view.tick = tick /\ view.offers = offers /\ view.stock = stock
      /\ view.ads = ads /\ view.records = records
  BY DEF view
<1>2. OurOpen = Outgoing(view)
  BY <1>1 DEF OurOpen, Outgoing
<1> QED BY <1>1, <1>2 DEF MarketInv, ScalarsOK, OffersInv, Seen

(* The fields of a command, by its kind.                                   *)
LEMMA CommandKinds ==
  ASSUME command \in Commands
  PROVE  /\ command.kind = "offer" =>
              command \in [kind : {"offer"}, to : Partners, give : Bundles, receive : Bundles,
                           expires : Nat]
         /\ command.kind = "accept" => command.offer \in Nat
         /\ command.kind = "advertise" => command.ad \in Ads
BY DEF Commands, NoCommand

(* Sums and covered differences of bundles are bundles.                    *)
LEMMA BundleSums ==
  ASSUME NEW a \in Bundles, NEW b \in Bundles, NEW c \in Bundles
  PROVE  /\ Plus(a, b) \in Bundles
         /\ Covers(a, b) => Plus(Minus(a, b), c) \in Bundles
BY DEF Bundles, Plus, Minus, Covers

(* A trade settles in the types of stock and deliveries.                   *)
LEMMA SettleType ==
  ASSUME MarketInv, NEW pays \in Bundles, NEW gets \in Bundles, NEW p \in Stations,
         Settle(pays, gets, p)
  PROVE  stock' \in Bundles /\ delivered' \in SUBSET (Stations \X Resource)
<1>1. stock \in Bundles /\ delivered \in SUBSET (Stations \X Resource)
  BY DEF MarketInv, ScalarsOK
<1>2. stock' \in Bundles
  BY <1>1, BundleSums DEF Settle
<1>3. {<<p, r>> : r \in {q \in Resource : gets[q] > 0}} \subseteq Stations \X Resource
  OBVIOUS
<1> QED BY <1>1, <1>2, <1>3 DEF Settle

(* Where no offer is added and no command decided, what has been agreed on *)
(* stays so.                                                               *)
Quiet ==
  /\ offers' \subseteq offers /\ lastId' = lastId
  /\ tick' \in Ticks /\ tick' >= tick
  /\ command' = command \/ command' = NoCommand

(* No offer opens in a quiet step ...                                      *)
LEMMA QuietShrinks ==
  ASSUME MarketInv, Quiet
  PROVE  OurOpen' \subseteq OurOpen
<1>1. ASSUME NEW o \in OurOpen' PROVE o \in OurOpen
  <2>1. o \in offers /\ o.from = Self /\ ~(tick' >= o.expires)
    BY <1>1 DEF OurOpen, Quiet, Expired, view
  <2>2. o.expires \in Nat /\ tick \in Nat /\ tick' \in Nat /\ tick' >= tick
    BY <2>1, RulesAssumption DEF MarketInv, OffersInv, Offers, Quiet, ScalarsOK, Ticks
  <2>3. ~(tick >= o.expires)
    BY <2>1, <2>2
  <2> QED BY <2>1, <2>3 DEF OurOpen, Expired, view
<1> QED BY <1>1

(* ... and everything agreed on stays so.                                  *)
LEMMA QuietKeeps ==
  ASSUME MarketInv, Quiet
  PROVE  (OffersInv /\ OfferInv /\ AcceptInv /\ LimitsInv)'
<1>1. OurOpen' \subseteq OurOpen
  BY QuietShrinks
<1>2. /\ tick \in Nat /\ tick' \in Nat /\ tick' >= tick /\ LongestLife \in Nat
      /\ Duration \in Nat
  BY RulesAssumption, LifeIs DEF MarketInv, Quiet, ScalarsOK, Ticks
<1>3. \A e \in Nat : e <= tick + LongestLife => e <= tick' + LongestLife
  <2> DEFINE s == tick'
  <2>1. s \in Nat /\ s >= tick
    BY <1>2
  <2> HIDE DEF s
  <2>2. \A e \in Nat : e <= tick + LongestLife => e <= s + LongestLife
    BY <1>2, <2>1
  <2> QED BY <2>2 DEF s
<1>4. OffersInv'
  <2>1. IsFiniteSet(offers')
    BY FS_Subset DEF MarketInv, OffersInv, Quiet
  <2>2. ASSUME NEW o \in offers' PROVE Ours(o)' \/ Theirs(o)'
    <3>1. o \in Offers /\ (Ours(o) \/ Theirs(o))
      BY <2>2 DEF Quiet, MarketInv, OffersInv
    <3>2. Ours(o) => Ours(o)'
      <4>1. o.expires \in Nat
        BY <3>1 DEF Offers
      <4> QED BY <1>3, <4>1 DEF Ours
    <3> QED BY <3>1, <3>2 DEF Theirs
  <2> QED BY <2>1, <2>2 DEF OffersInv, MarketInv, Quiet
<1>5. OfferInv'
  <2>1. CASE command' = NoCommand
    BY <2>1 DEF OfferInv, NoCommand
  <2>2. CASE command' = command /\ command.kind = "offer"
    <3>1. command.expires \in Nat
      BY <2>2, CommandKinds DEF MarketInv, ScalarsOK
    <3> QED BY <1>1, <1>3, <2>2, <3>1 DEF OfferInv, MarketInv
  <2>3. CASE command' = command /\ command.kind # "offer"
    BY <2>3 DEF OfferInv
  <2> QED BY <2>1, <2>2, <2>3 DEF Quiet
<1>6. AcceptInv'
  BY DEF AcceptInv, MarketInv, Quiet, NoCommand, Theirs
<1>7. LimitsInv'
  <2>1. IsFiniteSet(OurOpen) /\ Cardinality(OurOpen) \in Nat
    BY FS_Subset, FS_CardinalityType DEF OurOpen, MarketInv, OffersInv
  <2>2. Cardinality(OurOpen') <= Cardinality(OurOpen) /\ Cardinality(OurOpen') \in Nat
    BY <1>1, <2>1, FS_Subset, FS_CardinalityType
  <2>3. Cardinality(OurOpen') <= MaxOpenOffers
    BY <2>1, <2>2, RulesAssumption DEF MarketInv, LimitsInv
  <2> QED BY <1>1, <2>3 DEF LimitsInv, MarketInv, OneOrderPerResource
<1> QED BY <1>4, <1>5, <1>6, <1>7

(* The invariant, action by action: first what is not quiet.               *)
LEMMA MarketInit == Init => MarketInv
<1> SUFFICES ASSUME Init PROVE MarketInv
  OBVIOUS
<1>1. ads \in [Stations -> Ads]
  BY TradingAssumption DEF Init, Ads
<1>2. stock \in Bundles /\ memory \in Memories
  BY NewMemoryType, TradingAssumption DEF Init
<1>3. ScalarsOK
  BY <1>1, <1>2, RulesAssumption DEF Init, ScalarsOK, Ticks, Commands
<1>4. IsFiniteSet(offers) /\ OurOpen = {} /\ Cardinality(OurOpen) = 0
  BY FS_EmptySet DEF Init, OurOpen
<1>5. OffersInv
  BY <1>4 DEF Init, OffersInv
<1>6. OfferInv /\ AcceptInv
  BY DEF Init, OfferInv, AcceptInv, NoCommand
<1>7. LimitsInv
  BY <1>4, RulesAssumption DEF LimitsInv, OneOrderPerResource
<1> QED BY <1>3, <1>5, <1>6, <1>7 DEF MarketInv

LEMMA DecideKeepsMarket ==
  ASSUME MarketInv, Decide
  PROVE  MarketInv'
<1> DEFINE m == AtTick(memory, view)
<1>1. PICK l \in 1..MaxLatency : \E d \in Chosen(l) : command' = d /\ memory' = Record(m, d)
  BY DEF Decide
<1>2. PICK d \in Chosen(l) : command' = d /\ memory' = Record(m, d)
  BY <1>1
<1>3. /\ UNCHANGED <<tick, alive, stock, offers, lastId, ads, delivered, records, served, restarts>>
      /\ OurOpen' = OurOpen
  BY DEF Decide, marketVars, OurOpen, Expired, view
<1>4. Seen(view) /\ OurOpen = Outgoing(view) /\ view.tick = tick /\ view.offers = offers
  BY MarketSeen
<1>5. \/ \E o \in Outgoing(view) : d = Withdraw(o)
      \/ \E o \in Incoming(view) : d = Accept(o) /\ Agreeable(o)
      \/ d \in [kind : {"advertise"}, ad : Ads]
      \/ /\ Proposal(d, view)
         /\ Simplified => \A r \in Resource : Buys(d, r) => r \notin Ordered(view)
  BY <1>4, ChosenIs
<1>6. \A o \in offers : o \in Offers /\ o.id \in Nat /\ o.id <= lastId /\ (Ours(o) \/ Theirs(o))
  BY DEF MarketInv, OffersInv, Offers
<1>7. d \in Commands /\ d # NoCommand /\ OfferInv' /\ AcceptInv'
  <2>1. ASSUME NEW o \in Outgoing(view), d = Withdraw(o)
        PROVE  d \in Commands /\ d # NoCommand /\ OfferInv' /\ AcceptInv'
    <3>1. o.id \in Nat
      BY <1>4, <1>6 DEF Outgoing
    <3>2. d \in [kind : {"withdraw", "accept"}, offer : Nat] /\ d.kind = "withdraw"
      BY <2>1, <3>1 DEF Withdraw
    <3> QED BY <1>2, <3>2 DEF Commands, NoCommand, OfferInv, AcceptInv
  <2>2. ASSUME NEW o \in Incoming(view), d = Accept(o), Agreeable(o)
        PROVE  d \in Commands /\ d # NoCommand /\ OfferInv' /\ AcceptInv'
    <3>1. o \in offers /\ o.to = Self /\ Theirs(o)
      BY <1>4, <1>6, RulesAssumption DEF Incoming, Ours, Theirs
    <3>2. o.id \in Nat /\ o.id <= lastId /\ \A q \in offers : q.id = o.id => q = o
      BY <1>6, <3>1 DEF MarketInv, OffersInv
    <3>3. d \in [kind : {"withdraw", "accept"}, offer : Nat] /\ d.kind = "accept" /\ d.offer = o.id
      BY <2>2, <3>2 DEF Accept
    <3>4. OfferInv'
      BY <1>2, <3>3 DEF OfferInv
    <3>5. AcceptInv'
      BY <1>2, <1>3, <2>2, <3>1, <3>2, <3>3 DEF AcceptInv, Theirs
    <3> QED BY <3>3, <3>4, <3>5 DEF Commands, NoCommand
  <2>3. ASSUME d \in [kind : {"advertise"}, ad : Ads]
        PROVE  d \in Commands /\ d # NoCommand /\ OfferInv' /\ AcceptInv'
    <3>1. d.kind = "advertise"
      BY <2>3
    <3> QED BY <1>2, <2>3, <3>1 DEF Commands, NoCommand, OfferInv, AcceptInv
  <2>4. ASSUME Proposal(d, view),
               Simplified => \A r \in Resource : Buys(d, r) => r \notin Ordered(view)
        PROVE  d \in Commands /\ d # NoCommand /\ OfferInv' /\ AcceptInv'
    <3>1. d \in Commands /\ d.kind = "offer"
      BY <2>4 DEF Proposal, Commands
    <3>2. EvenTerms(d) /\ d.expires <= tick + LongestLife /\ d.expires <= Duration
      BY <1>4, <2>4 DEF Proposal
    <3>3. \A o \in OurOpen : o.to # d.to
      BY <1>4, <2>4 DEF Proposal, Advertised
    <3>4. Simplified => \A o \in OurOpen, r \in Resource : ~(Buys(o, r) /\ Buys(d, r))
      BY <1>4, <2>4 DEF Ordered
    <3> QED BY <1>2, <1>3, <3>1, <3>2, <3>3, <3>4 DEF OfferInv, AcceptInv, NoCommand
  <2> QED BY <1>5, <2>1, <2>2, <2>3, <2>4
<1>8. m \in Memories
  BY <1>4, MemoryTypes, RulesAssumption DEF MarketInv, ScalarsOK, Ticks
<1>9. Record(m, d) \in Memories
  BY <1>7, <1>8, RecordType
<1>10. ScalarsOK'
  BY <1>2, <1>3, <1>7, <1>9 DEF MarketInv, ScalarsOK, Ticks
<1>11. OffersInv'
  BY <1>3 DEF MarketInv, OffersInv, Ours, Theirs
<1>12. LimitsInv'
  BY <1>3 DEF MarketInv, LimitsInv, OneOrderPerResource
<1> QED BY <1>7, <1>10, <1>11, <1>12 DEF MarketInv

LEMMA ApplyOfferKeepsMarket ==
  ASSUME MarketInv, Apply, ApplyOffer
  PROVE  MarketInv'
<1> DEFINE new == [id |-> lastId + 1, from |-> Self, to |-> command.to, give |-> command.give,
                   receive |-> command.receive, created |-> tick, expires |-> command.expires]
<1>1. /\ UNCHANGED <<tick, alive, stock, ads, delivered, memory, restarts>>
      /\ records' = records + 1 /\ served' = served + 1 /\ command' = NoCommand
      /\ lastId' = lastId + 1 /\ offers' = offers \cup {new}
      /\ Cardinality(OurOpen) < MaxOpenOffers /\ tick < command.expires /\ command.kind = "offer"
  BY DEF Apply, ApplyOffer
<1>2. /\ command \in [kind : {"offer"}, to : Partners, give : Bundles, receive : Bundles,
                      expires : Nat]
      /\ lastId \in Nat /\ tick \in Nat
  BY <1>1, CommandKinds, RulesAssumption DEF MarketInv, ScalarsOK, Ticks
<1>3. /\ new \in Offers /\ new.id = lastId + 1 /\ new.from = Self /\ new.to = command.to
      /\ new.give = command.give /\ new.receive = command.receive /\ new.expires = command.expires
  BY <1>2 DEF Offers, Stations
<1> HIDE DEF new
<1>4. ScalarsOK'
  BY <1>1, <1>2 DEF MarketInv, ScalarsOK, Commands, Ticks
<1>5. \A o \in offers : o \in Offers /\ o.id \in Nat /\ o.id <= lastId
  BY DEF MarketInv, OffersInv, Offers
<1>6. Ours(new)
  BY <1>1, <1>2, <1>3 DEF Ours, MarketInv, OfferInv, EvenTerms
<1>7. OffersInv'
  <2>1. IsFiniteSet(offers')
    BY <1>1, FS_AddElement DEF MarketInv, OffersInv
  <2>2. ASSUME NEW o \in offers' PROVE (Ours(o) \/ Theirs(o))'
    BY <1>1, <1>6, <2>2 DEF MarketInv, OffersInv, Ours, Theirs
  <2>3. ASSUME NEW o \in offers' PROVE o \in Offers /\ o.id <= lastId'
    BY <1>1, <1>2, <1>3, <1>5, <2>3
  <2>4. ASSUME NEW o \in offers', NEW q \in offers', q.id = o.id PROVE q = o
    <3>1. \A x \in offers : x.id # new.id
      BY <1>2, <1>3, <1>5
    <3> QED BY <1>1, <2>4, <3>1 DEF MarketInv, OffersInv
  <2> QED BY <2>1, <2>2, <2>3, <2>4 DEF OffersInv
<1>8. OurOpen' = OurOpen \cup {new}
  <2>1. new.from = Self /\ ~(tick >= new.expires)
    BY <1>1, <1>2, <1>3
  <2> QED BY <1>1, <2>1 DEF OurOpen, Expired, view
<1>9. LimitsInv'
  <2>1. IsFiniteSet(OurOpen) /\ Cardinality(OurOpen) \in Nat
    BY FS_Subset, FS_CardinalityType DEF OurOpen, MarketInv, OffersInv
  <2>2. Cardinality(OurOpen') <= MaxOpenOffers
    <3>1. Cardinality(OurOpen \cup {new}) <= Cardinality(OurOpen) + 1
      <4> DEFINE S == OurOpen
      <4>1. IsFiniteSet(S) /\ Cardinality(S) \in Nat
        BY <2>1
      <4> HIDE DEF S
      <4>2. Cardinality(S \cup {new}) \in {Cardinality(S), Cardinality(S) + 1}
        BY <4>1, FS_AddElement
      <4>3. Cardinality(S \cup {new}) <= Cardinality(S) + 1
        BY <4>1, <4>2
      <4> QED BY <4>3 DEF S
    <3>2. Cardinality(OurOpen \cup {new}) \in Nat
      BY <2>1, FS_AddElement, FS_CardinalityType
    <3> DEFINE c == Cardinality(OurOpen \cup {new})
               k == Cardinality(OurOpen)
    <3>3. c \in Nat /\ k \in Nat /\ c <= k + 1 /\ k < MaxOpenOffers
      BY <1>1, <2>1, <3>1, <3>2
    <3> HIDE DEF c, k
    <3>4. c <= MaxOpenOffers
      BY <3>3, RulesAssumption
    <3> QED BY <1>8, <3>4 DEF c
  <2>3. \A o \in OurOpen : /\ o.to # new.to
                           /\ Simplified => \A r \in Resource : ~(Buys(o, r) /\ Buys(new, r))
    BY <1>1, <1>3 DEF MarketInv, OfferInv, Buys
  <2> QED BY <1>8, <2>2, <2>3 DEF MarketInv, LimitsInv, OneOrderPerResource
<1>10. OfferInv' /\ AcceptInv'
  BY <1>1 DEF OfferInv, AcceptInv, NoCommand
<1> QED BY <1>4, <1>7, <1>9, <1>10 DEF MarketInv

LEMMA PartnerOffersKeepsMarket ==
  ASSUME MarketInv, PartnerOffers
  PROVE  MarketInv'
<1>1. /\ UNCHANGED <<tick, alive, stock, ads, delivered, records, served, memory, command,
                      restarts>>
      /\ lastId' = lastId + 1
  BY DEF PartnerOffers
<1>2. PICK p \in Partners, terms \in PartnerTerms :
        offers' = offers \cup
         {[id |-> lastId + 1, from |-> p, to |-> Self, give |-> terms.give,
           receive |-> terms.receive, created |-> tick, expires |-> tick + MaxOfferTtl]}
  BY DEF PartnerOffers
<1> DEFINE new == [id |-> lastId + 1, from |-> p, to |-> Self, give |-> terms.give,
                   receive |-> terms.receive, created |-> tick, expires |-> tick + MaxOfferTtl]
<1>3. lastId \in Nat /\ tick \in Nat /\ MaxOfferTtl \in Nat
  BY RulesAssumption DEF MarketInv, ScalarsOK, Ticks
<1>4. terms.give \in Bundles /\ terms.receive \in Bundles
  BY TradingAssumption
<1>5. new \in Offers /\ new.id = lastId + 1 /\ new.from = p /\ new.to = Self
  BY <1>3, <1>4 DEF Offers, Stations
<1>6. offers' = offers \cup {new}
  BY <1>2
<1> HIDE DEF new
<1>7. ScalarsOK'
  BY <1>1, <1>3 DEF MarketInv, ScalarsOK, Ticks
<1>8. \A o \in offers : o \in Offers /\ o.id \in Nat /\ o.id <= lastId
  BY DEF MarketInv, OffersInv, Offers
<1>9. OffersInv'
  <2>1. IsFiniteSet(offers')
    BY <1>6, FS_AddElement DEF MarketInv, OffersInv
  <2>2. ASSUME NEW o \in offers' PROVE (Ours(o) \/ Theirs(o))'
    BY <1>1, <1>5, <1>6, <2>2 DEF MarketInv, OffersInv, Ours, Theirs
  <2>3. ASSUME NEW o \in offers' PROVE o \in Offers /\ o.id <= lastId'
    BY <1>1, <1>3, <1>5, <1>6, <1>8, <2>3
  <2>4. ASSUME NEW o \in offers', NEW q \in offers', q.id = o.id PROVE q = o
    <3>1. \A x \in offers : x.id # new.id
      BY <1>3, <1>5, <1>8
    <3> QED BY <1>6, <2>4, <3>1 DEF MarketInv, OffersInv
  <2> QED BY <2>1, <2>2, <2>3, <2>4 DEF OffersInv
<1>10. OurOpen' = OurOpen
  <2>1. new.from # Self
    BY <1>5, RulesAssumption
  <2> QED BY <1>1, <1>6, <2>1 DEF OurOpen, Expired, view
<1>11. LimitsInv' /\ OfferInv'
  BY <1>1, <1>10 DEF MarketInv, LimitsInv, OneOrderPerResource, OfferInv
<1>12. AcceptInv'
  <2>1. CASE command.kind = "accept"
    <3>1. command.offer \in Nat /\ command.offer <= lastId /\ new.id # command.offer
      BY <1>3, <1>5, <2>1, CommandKinds DEF MarketInv, ScalarsOK, AcceptInv
    <3>2. command.offer <= lastId'
      BY <1>1, <1>3, <3>1
    <3> QED BY <1>1, <1>6, <3>1, <3>2 DEF MarketInv, AcceptInv, Theirs
  <2>2. CASE command.kind # "accept"
    BY <1>1, <2>2 DEF AcceptInv
  <2> QED BY <2>1, <2>2
<1> QED BY <1>7, <1>9, <1>11, <1>12 DEF MarketInv

(* The steps that only take offers away, or none, and decide nothing.      *)
QuietStep ==
  \/ Restart \/ Refuse \/ RateLimit
  \/ Apply /\ ~ApplyOffer
  \/ Tick \/ PartnerAccepts \/ PartnerWithdraws \/ PartnerAdvertises
  \/ UNCHANGED vars

LEMMA StepKinds ==
  [Next]_vars => \/ Decide \/ (Apply /\ ApplyOffer) \/ PartnerOffers \/ QuietStep
BY DEF Next, Client, Server, World, Terminated, QuietStep

(* A tick takes no more than the upkeep.                                   *)
LEMMA TickTypes ==
  ASSUME MarketInv, Tick
  PROVE  /\ Quiet /\ stock' \in Bundles
         /\ tick' = tick + 1 /\ \A r \in Resource : stock'[r] >= stock[r] - Upkeep[r]
<1>1. tick \in Nat /\ tick < Duration /\ Duration \in Nat /\ tick' = tick + 1
  BY RulesAssumption DEF MarketInv, ScalarsOK, Ticks, Tick
<1>2. PICK n \in Productions : stock' = Plus(LessUpTo(stock, Upkeep), Only(Specialty, n))
  BY DEF Tick
<1>3. n \in Nat /\ Upkeep \in Bundles /\ Specialty \in Resource /\ stock \in Bundles
  BY RulesAssumption, TradingAssumption DEF MarketInv, ScalarsOK
<1>4. LessUpTo(stock, Upkeep) \in Bundles /\ Only(Specialty, n) \in Bundles
  BY <1>3, LessUpToIs, OnlyIs
<1>5. stock' \in Bundles
  BY <1>2, <1>4, BundleSums
<1>6. ASSUME NEW r \in Resource PROVE stock'[r] >= stock[r] - Upkeep[r]
  <2>1. stock'[r] = LessUpTo(stock, Upkeep)[r] + Only(Specialty, n)[r]
    BY <1>2 DEF Plus
  <2>2. LessUpTo(stock, Upkeep)[r] >= stock[r] - Upkeep[r]
    BY <1>3, LessUpToIs
  <2> QED BY <1>3, <1>4, <2>1, <2>2 DEF Bundles
<1>7. Quiet
  <2>1. offers' \subseteq offers /\ lastId' = lastId /\ command' = command
    BY DEF Tick
  <2>2. tick' \in Ticks /\ tick' >= tick
    BY <1>1 DEF Ticks
  <2> QED BY <2>1, <2>2 DEF Quiet
<1> QED BY <1>1, <1>5, <1>6, <1>7

(* Every quiet step keeps the types.                                       *)
LEMMA QuietStepTypes ==
  ASSUME MarketInv, QuietStep
  PROVE  ScalarsOK' /\ Quiet
<1> USE RulesAssumption
<1>0. /\ ScalarsOK /\ NoCommand \in Commands /\ tick \in Nat
      /\ \A o \in offers : o.give \in Bundles /\ o.receive \in Bundles /\ o.from \in Stations
                           /\ o.to \in Stations
  BY DEF MarketInv, ScalarsOK, Ticks, Commands, OffersInv, Offers
<1>1. CASE Restart
  <2>1. memory' \in Memories
    BY <1>0, <1>1, NewMemoryType DEF Restart, ScalarsOK
  <2> QED BY <1>0, <1>1, <2>1 DEF Restart, marketVars, ScalarsOK, Quiet, Ticks
<1>2. CASE Refuse
  BY <1>0, <1>2 DEF Refuse, marketVars, ScalarsOK, Quiet, Ticks
<1>3. CASE RateLimit
  <2>1. PICK t \in {0, tick + 1} :
          memory' = [memory EXCEPT !.retryTick = AtLeast(memory.tick + 1, t)]
    BY <1>3 DEF RateLimit
  <2>2. AtLeast(memory.tick + 1, t) \in Nat
    BY <1>0, <2>1 DEF AtLeast, ScalarsOK, Memories
  <2>3. memory' \in Memories
    BY <1>0, <2>1, <2>2, RetryType DEF ScalarsOK
  <2>4. records' \in Nat
    BY <1>0, <1>3 DEF RateLimit, ScalarsOK, AtMost
  <2> QED BY <1>0, <1>3, <2>3, <2>4 DEF RateLimit, marketVars, ScalarsOK, Quiet, Ticks
<1>4. CASE Apply /\ ~ApplyOffer
  <2>1. /\ UNCHANGED <<tick, alive, memory, restarts>>
        /\ records' = records + 1 /\ served' = served + 1 /\ command' = NoCommand
    BY <1>4 DEF Apply
  <2>2. CASE ApplyAccept
    <3>1. PICK o \in Open(command.offer) :
            Settle(o.receive, o.give, o.from) /\ offers' = offers \ {o}
      BY <2>2 DEF ApplyAccept
    <3>2. stock' \in Bundles /\ delivered' \in SUBSET (Stations \X Resource)
      BY <1>0, <3>1, SettleType DEF Open
    <3> QED BY <1>0, <2>1, <2>2, <3>1, <3>2 DEF ApplyAccept, ScalarsOK, Quiet, Ticks
  <2>3. CASE ApplyWithdraw
    BY <1>0, <2>1, <2>3 DEF ApplyWithdraw, ScalarsOK, Quiet, Ticks
  <2>4. CASE ApplyAdvertise
    <3>1. command.ad \in Ads
      BY <1>0, <2>4, CommandKinds DEF ApplyAdvertise, ScalarsOK
    <3>2. ads' \in [Stations -> Ads]
      BY <1>0, <2>4, <3>1 DEF ApplyAdvertise, ScalarsOK
    <3> QED BY <1>0, <2>1, <2>4, <3>2 DEF ApplyAdvertise, ScalarsOK, Quiet, Ticks
  <2> QED BY <1>4, <2>2, <2>3, <2>4 DEF Apply
<1>5. CASE Tick
  <2>1. Quiet /\ stock' \in Bundles
    BY <1>5, TickTypes
  <2>2. /\ alive' \in BOOLEAN /\ served' = 0
        /\ UNCHANGED <<lastId, ads, delivered, records, memory, command, restarts>>
    BY <1>0, <1>5 DEF Tick, ScalarsOK
  <2> QED BY <1>0, <2>1, <2>2 DEF ScalarsOK, Quiet, Ticks
<1>6. CASE PartnerAccepts
  <2>1. PICK o \in OurOpen : Settle(o.give, o.receive, o.to) /\ offers' = offers \ {o}
    BY <1>6 DEF PartnerAccepts
  <2>2. stock' \in Bundles /\ delivered' \in SUBSET (Stations \X Resource)
    BY <1>0, <2>1, SettleType DEF OurOpen
  <2> QED BY <1>0, <1>6, <2>1, <2>2 DEF PartnerAccepts, ScalarsOK, Quiet, Ticks
<1>7. CASE PartnerWithdraws
  BY <1>0, <1>7 DEF PartnerWithdraws, ScalarsOK, Quiet, Ticks
<1>8. CASE PartnerAdvertises
  <2>1. PICK p \in Partners, a \in PartnerAds :
          ads' = [ads EXCEPT ![p] = [selling |-> a.selling, seeking |-> a.seeking,
                                     expires |-> tick + MaxPublicationTtl]]
    BY <1>8 DEF PartnerAdvertises
  <2>2. [selling |-> a.selling, seeking |-> a.seeking, expires |-> tick + MaxPublicationTtl] \in Ads
    BY <1>0, TradingAssumption DEF Ads
  <2>3. ads' \in [Stations -> Ads]
    BY <1>0, <2>1, <2>2 DEF ScalarsOK
  <2> QED BY <1>0, <1>8, <2>3 DEF PartnerAdvertises, ScalarsOK, Quiet, Ticks
<1>9. CASE UNCHANGED vars
  BY <1>0, <1>9 DEF vars, ScalarsOK, Quiet, Ticks
<1> QED BY <1>1, <1>2, <1>3, <1>4, <1>5, <1>6, <1>7, <1>8, <1>9 DEF QuietStep

(* The invariant is inductive.                                             *)
LEMMA MarketStep == MarketInv /\ [Next]_vars => MarketInv'
<1> SUFFICES ASSUME MarketInv, [Next]_vars PROVE MarketInv'
  OBVIOUS
<1>1. ASSUME QuietStep PROVE MarketInv'
  BY <1>1, QuietStepTypes, QuietKeeps DEF MarketInv
<1> QED BY <1>1, StepKinds, DecideKeepsMarket, ApplyOfferKeepsMarket, PartnerOffersKeepsMarket

(* Quantities never go below zero, and every variable keeps its type, on   *)
(* any market.                                                             *)
THEOREM TradingTyped == Spec => []TypeOK
<1>1. MarketInv => TypeOK
  BY DEF MarketInv, ScalarsOK, OffersInv, TypeOK
<1> QED BY MarketInit, MarketStep, <1>1, PTL DEF Spec

(* No partner ever has two open offers of ours, and all of them together   *)
(* never exceed the server's limit, though offers are decided on one       *)
(* snapshot and placed on a later one.                                     *)
THEOREM OpenOffersStayLimited == Spec => []OpenOffersLimited
<1>1. MarketInv => OpenOffersLimited
  BY DEF MarketInv, LimitsInv, OfferInv, OpenOffersLimited
<1> QED BY MarketInit, MarketStep, <1>1, PTL DEF Spec

(* The simplified policy never has two open orders of one resource.        *)
THEOREM NeverOrderedTwice == ASSUME Simplified PROVE Spec => []OneOrderPerResource
<1>1. MarketInv => OneOrderPerResource
  BY Simplified DEF MarketInv, LimitsInv
<1> QED BY MarketInit, MarketStep, <1>1, PTL DEF Spec

-----------------------------------------------------------------------------
(* What a settled trade, and a decision, may cost.                         *)

(* Only a settled trade changes the stock within a tick: one we accepted,  *)
(* or one of ours that a partner did.                                      *)
LEMMA TradeForms ==
  ASSUME MarketInv, [Next]_vars, tick' = tick
  PROVE  \/ stock' = stock
         \/ \E o \in offers : /\ Agreeable(o) /\ o \in Offers
                              /\ stock' = Plus(Minus(stock, o.receive), o.give)
         \/ \E o \in offers \ offers' : /\ Ours(o) /\ o \in Offers
                                        /\ stock' = Plus(Minus(stock, o.give), o.receive)
<1>0. /\ \A o \in offers : o \in Offers /\ (Ours(o) \/ Theirs(o))
      /\ tick \in Nat /\ Self \notin Partners
  BY RulesAssumption DEF MarketInv, OffersInv, ScalarsOK, Ticks
<1>1. CASE Apply /\ ApplyAccept
  <2>1. PICK o \in Open(command.offer) : Settle(o.receive, o.give, o.from)
    BY <1>1 DEF ApplyAccept
  <2>2. o \in offers /\ Agreeable(o)
    BY <1>1, <2>1 DEF ApplyAccept, Open, MarketInv, AcceptInv
  <2> QED BY <1>0, <2>1, <2>2 DEF Settle
<1>2. CASE PartnerAccepts
  <2>1. PICK o \in OurOpen : Settle(o.give, o.receive, o.to) /\ offers' = offers \ {o}
    BY <1>2 DEF PartnerAccepts
  <2>2. o \in offers /\ o.from = Self
    BY <2>1 DEF OurOpen
  <2>3. Ours(o)
    BY <1>0, <2>2 DEF Theirs
  <2> QED BY <1>0, <2>1, <2>2, <2>3 DEF Settle
<1>3. CASE Tick
  BY <1>0, <1>3 DEF Tick
<1>4. CASE \/ Decide \/ Restart \/ Refuse \/ RateLimit \/ UNCHANGED vars
           \/ PartnerOffers \/ PartnerWithdraws \/ PartnerAdvertises
           \/ Apply /\ ~ApplyAccept
  BY <1>4 DEF Decide, Restart, Refuse, RateLimit, marketVars, vars, PartnerOffers,
     PartnerWithdraws, PartnerAdvertises, Apply, ApplyOffer, ApplyWithdraw, ApplyAdvertise
<1> QED BY <1>1, <1>2, <1>3, <1>4 DEF Next, Client, Server, World, Terminated

(* What a trade does to the stock.                                         *)
LEMMA UnitsOfTrade ==
  ASSUME NEW a \in Bundles, NEW b \in Bundles, NEW c \in Bundles
  PROVE  /\ Units(Plus(Minus(a, b), c)) = Units(a) - Units(b) + Units(c)
         /\ \A r \in Resource : Plus(Minus(a, b), c)[r] = a[r] - b[r] + c[r]
         /\ Units(a) \in Nat /\ Units(b) \in Nat /\ Units(c) \in Nat
BY DEF Units, Plus, Minus, Bundles, Resource

(* Our offers are even or gifts of specialty, and either pay in specialty  *)
(* or buy it.                                                              *)
LEMMA OursIsEven ==
  ASSUME NEW o \in Offers, Ours(o)
  PROVE  /\ Units(o.give) = Units(o.receive) \/ Gift(o)
         /\ \/ \A r \in Resource \ {Specialty} : o.give[r] = 0
            \/ o.give[Specialty] = 0 /\ o.receive[Specialty] > 0
<1>1. PICK n \in Nat \ {0} :
        \/ \E need, pay \in Resource :
             /\ need # pay /\ Specialty \in {need, pay}
             /\ o.give = Only(pay, n) /\ o.receive = Only(need, n)
        \/ o.give = Only(Specialty, n) /\ o.receive = Zero
  BY DEF Ours, EvenTerms
<1>2. Specialty \in Resource
  BY RulesAssumption
<1>3. ASSUME NEW need \in Resource, NEW pay \in Resource, need # pay, Specialty \in {need, pay},
             o.give = Only(pay, n), o.receive = Only(need, n)
      PROVE  /\ Units(o.give) = Units(o.receive)
             /\ \/ \A r \in Resource \ {Specialty} : o.give[r] = 0
                \/ o.give[Specialty] = 0 /\ o.receive[Specialty] > 0
  BY <1>2, <1>3, OnlyIs
<1>4. CASE o.give = Only(Specialty, n) /\ o.receive = Zero
  BY <1>2, <1>4, OnlyIs DEF Gift, IsGift, IsZero
<1> QED BY <1>1, <1>3, <1>4

(* Hence no trade costs more than it brings, or more imports than          *)
(* specialty.                                                              *)
LEMMA FavorableStep ==
  ASSUME MarketInv, [Next]_vars, tick' = tick
  PROVE  /\ \/ Units(stock') >= Units(stock)
            \/ \E o \in offers \ offers' : o.from = Self /\ Gift(o)
         /\ \/ \A r \in Resource \ {Specialty} : stock'[r] >= stock[r]
            \/ stock'[Specialty] > stock[Specialty]
<1>0. stock \in Bundles /\ Specialty \in Resource
  BY RulesAssumption DEF MarketInv, ScalarsOK
<1>1. CASE stock' = stock
  <2>1. Units(stock) \in Nat /\ \A r \in Resource : stock[r] \in Nat
    BY <1>0, UnitsOfTrade DEF Bundles
  <2> QED BY <1>1, <2>1
<1>2. ASSUME NEW o \in offers, Agreeable(o), o \in Offers,
             stock' = Plus(Minus(stock, o.receive), o.give)
      PROVE  /\ Units(stock') >= Units(stock)
             /\ \/ \A r \in Resource \ {Specialty} : stock'[r] >= stock[r]
                \/ stock'[Specialty] > stock[Specialty]
  <2>1. o.give \in Bundles /\ o.receive \in Bundles
    BY <1>2 DEF Offers
  <2>2. /\ Units(stock') = Units(stock) - Units(o.receive) + Units(o.give)
        /\ \A r \in Resource : stock'[r] = stock[r] - o.receive[r] + o.give[r]
        /\ Units(stock) \in Nat /\ Units(o.receive) \in Nat /\ Units(o.give) \in Nat
    BY <1>0, <1>2, <2>1, UnitsOfTrade
  <2>3. \A r \in Resource : stock[r] \in Nat /\ o.receive[r] \in Nat /\ o.give[r] \in Nat
    BY <1>0, <2>1 DEF Bundles
  <2>4. Units(stock') >= Units(stock)
    BY <1>2, <2>2 DEF Agreeable
  <2>5. CASE \A r \in Resource \ {Specialty} : o.receive[r] = 0
    BY <2>2, <2>3, <2>4, <2>5
  <2>6. CASE o.receive[Specialty] = 0 /\ o.give[Specialty] > 0
    BY <1>0, <2>2, <2>3, <2>4, <2>6
  <2> QED BY <1>2, <2>4, <2>5, <2>6 DEF Agreeable
<1>3. ASSUME NEW o \in offers \ offers', Ours(o), o \in Offers,
             stock' = Plus(Minus(stock, o.give), o.receive)
      PROVE  /\ Units(stock') >= Units(stock) \/ Gift(o)
             /\ \/ \A r \in Resource \ {Specialty} : stock'[r] >= stock[r]
                \/ stock'[Specialty] > stock[Specialty]
  <2>1. o.give \in Bundles /\ o.receive \in Bundles
    BY <1>3 DEF Offers
  <2>2. /\ Units(stock') = Units(stock) - Units(o.give) + Units(o.receive)
        /\ \A r \in Resource : stock'[r] = stock[r] - o.give[r] + o.receive[r]
        /\ Units(stock) \in Nat /\ Units(o.receive) \in Nat /\ Units(o.give) \in Nat
    BY <1>0, <1>3, <2>1, UnitsOfTrade
  <2>3. \A r \in Resource : stock[r] \in Nat /\ o.receive[r] \in Nat /\ o.give[r] \in Nat
    BY <1>0, <2>1 DEF Bundles
  <2>4. Units(stock') >= Units(stock) \/ Gift(o)
    BY <1>3, <2>2, OursIsEven
  <2>5. CASE \A r \in Resource \ {Specialty} : o.give[r] = 0
    BY <2>2, <2>3, <2>4, <2>5
  <2>6. CASE o.give[Specialty] = 0 /\ o.receive[Specialty] > 0
    BY <1>0, <2>2, <2>3, <2>4, <2>6
  <2> QED BY <1>3, <2>4, <2>5, <2>6, OursIsEven
<1>4. \A o \in offers \ offers' : Ours(o) => o.from = Self
  BY DEF Ours
<1> QED BY <1>1, <1>2, <1>3, <1>4, TradeForms

(* Whatever partners offer and however late commands arrive, no trade costs*)
(* more units than it brings but a gift of specialty.                      *)
THEOREM EveryTradeIsFavorable == Spec => TradesAreFavorable
<1>1. MarketInv /\ [Next]_vars =>
        [tick' = tick => \/ Units(stock') >= Units(stock)
                         \/ \E o \in offers \ offers' : o.from = Self /\ Gift(o)]_vars
  BY FavorableStep
<1> QED BY MarketInit, MarketStep, <1>1, PTL DEF Spec, TradesAreFavorable

(* What we do not produce leaves only for upkeep, or to buy specialty.     *)
THEOREM ImportsStayOrBuySpecialty == Spec => ImportsAreKept
<1>1. MarketInv /\ [Next]_vars =>
        [tick' = tick => \/ \A r \in Resource \ {Specialty} : stock'[r] >= stock[r]
                         \/ stock'[Specialty] > stock[Specialty]]_vars
  BY FavorableStep
<1> QED BY MarketInit, MarketStep, <1>1, PTL DEF Spec, ImportsAreKept

(* A routine decision leaves a record beyond the reserve for itself.       *)
LEMMA RoutineSpends ==
  ASSUME MarketInv, NEW m \in Memories, RoutineOk(view, m)
  PROVE  MaxRecords - (m.sentTotal + 1) >= EMERGENCY_RESERVE
<1>1. m.sentTotal \in Nat /\ records \in Nat /\ view.records = records
  BY DEF Memories, MarketInv, ScalarsOK, view
<1> QED BY <1>1, RulesAssumption, PolicyAssumption DEF RoutineOk, Spent, AtLeast

(* A decision of the default or restrained policy is an emergency, or      *)
(* leaves the last records alone.                                          *)
LEMMA RoutineDecision ==
  ASSUME MarketInv, ~Simplified, NEW l \in 1..MaxLatency, NEW d \in Chosen(l)
  PROVE  Emergency(d, l) \/ RoutineOk(view, AtTick(memory, view))
<1> DEFINE m == AtTick(memory, view)
<1>1. Seen(view) /\ view.offers = offers
  BY MarketSeen
<1>2. \/ \E o \in Outgoing(view) : d = Withdraw(o)
      \/ \E o \in Incoming(view) : d = Accept(o) /\ Acceptable(o, view, m, l)
      \/ d \in Advertisements(view, m, l)
      \/ d \in Purchases(view, m, l) \cup Gifts(view, m, l)
  BY DecisionForms DEF Chosen
<1> SUFFICES Emergency(d, l) \/ RoutineOk(view, m)
  OBVIOUS
<1> HIDE DEF m
<1>3. ASSUME NEW o \in Outgoing(view), d = Withdraw(o) PROVE Emergency(d, l)
  BY <1>3 DEF Withdraw, Emergency
<1>4. ASSUME NEW o \in Incoming(view), d = Accept(o), Acceptable(o, view, m, l)
      PROVE  Emergency(d, l) \/ RoutineOk(view, m)
  <2>1. o \in offers
    BY <1>1 DEF Incoming
  <2>2. d.kind = "accept" /\ d.offer = o.id
    BY <1>4 DEF Accept
  <2>3. IsGift(o) \/ RoutineOk(view, m) \/ Rescues(o, view, l)
    BY <1>4 DEF Acceptable
  <2> QED BY <2>1, <2>2, <2>3 DEF Emergency
<1>5. CASE d \in Advertisements(view, m, l)
  BY <1>5 DEF Advertisements
<1>6. CASE d \in Gifts(view, m, l)
  BY <1>6, GiftForm
<1>7. CASE d \in Purchases(view, m, l)
  <2>1. PICK need \in Seeking(view, l), pay \in Resource, p \in Advertised(view) :
           /\ need \in Critical(view, l) \/ RoutineOk(view, m)
           /\ Amount(need, pay, view, l) > 0
           /\ d = Propose(p, Only(pay, Amount(need, pay, view, l)),
                          Only(need, Amount(need, pay, view, l)), view.tick + OfferTtl(view, l))
    BY <1>7, PurchaseForm
  <2> DEFINE n == Amount(need, pay, view, l)
  <2>2. need \in Resource /\ n \in Nat \ {0}
    BY <1>1, <2>1, PolicyTypes, AmountIs
  <2>3. d.kind = "offer" /\ d.receive = Only(need, n)
    BY <2>1 DEF Propose
  <2> HIDE DEF n
  <2>4. d.receive[need] > 0
    BY <2>2, <2>3, OnlyIs
  <2> QED BY <2>1, <2>3, <2>4 DEF Emergency
<1> QED BY <1>2, <1>3, <1>4, <1>5, <1>6, <1>7

(* Routine decisions leave the last EMERGENCY_RESERVE records alone.       *)
THEOREM RoutineSparesTheReserve == ASSUME ~Simplified PROVE Spec => RoutineLeavesReserve
<1>1. ASSUME MarketInv, [Next]_vars, command' # NoCommand, command' # command
      PROVE  \/ \E l \in 1..MaxLatency : Emergency(command', l)
             \/ MaxRecords - memory'.sentTotal >= EMERGENCY_RESERVE
  <2>1. Decide
    BY <1>1 DEF Next, Client, Server, World, Terminated, Restart, Apply, Refuse, RateLimit, Tick,
       PartnerAccepts, PartnerOffers, PartnerWithdraws, PartnerAdvertises, vars
  <2> DEFINE m == AtTick(memory, view)
  <2>2. PICK l \in 1..MaxLatency : \E d \in Chosen(l) : command' = d /\ memory' = Record(m, d)
    BY <2>1 DEF Decide
  <2>3. PICK d \in Chosen(l) : command' = d /\ memory' = Record(m, d)
    BY <2>2
  <2>4. m \in Memories
    BY <1>1, MarketSeen, MemoryTypes, RulesAssumption DEF MarketInv, ScalarsOK, Ticks
  <2>5. Counting(m)
    BY <2>4 DEF Memories, Counting
  <2>6. memory'.sentTotal = m.sentTotal + 1
    BY <2>3, <2>5, RecordCounts
  <2>7. Emergency(d, l) \/ RoutineOk(view, m)
    BY <1>1, RoutineDecision
  <2> QED BY <1>1, <2>3, <2>4, <2>6, <2>7, RoutineSpends
<1>2. MarketInv /\ [Next]_vars =>
        [command' # NoCommand /\ command' # command =>
           \/ \E l \in 1..MaxLatency : Emergency(command', l)
           \/ MaxRecords - memory'.sentTotal >= EMERGENCY_RESERVE]_vars
  BY <1>1
<1> QED BY MarketInit, MarketStep, <1>2, PTL DEF Spec, RoutineLeavesReserve

-----------------------------------------------------------------------------
(* Open offers can be paid for.                                            *)

(* As long as an offer of ours is firm, the stock lasts for all of them.   *)
StockBacks == \A r \in Resource, k \in Nat : Lasts(view, r, k) => Backs(view, r, k, 0)

BackedInv ==
  /\ StockBacks
  /\ command.kind = "offer" => BackedOffer(command, view)
  /\ command.kind = "accept" => \A o \in Open(command.offer) : BackedAccept(o, view)

LEMMA NoCommandIs == NoCommand.kind = "none"
BY DEF NoCommand

(* The same in the next state.                                             *)
LEMMA MarketSeenNext ==
  ASSUME MarketInv'
  PROVE  Seen(view') /\ OurOpen' = Outgoing(view') /\ view'.tick = tick' /\ view'.offers = offers'
         /\ view'.stock = stock'
<1>1. /\ view'.tick = tick' /\ view'.offers = offers' /\ view'.stock = stock'
      /\ view'.ads = ads' /\ view'.records = records'
  BY DEF view
<1>2. OurOpen' = Outgoing(view')
  BY <1>1 DEF OurOpen, Outgoing
<1> QED BY <1>1, <1>2 DEF MarketInv, ScalarsOK, OffersInv, Seen

(* What is committed is what the open offers promise.                      *)
LEMMA CommittedIs ==
  ASSUME MarketInv
  PROVE  /\ Giving(OurOpen) /\ Committed(view) = Promised(OurOpen)
         /\ \A r \in Resource : /\ Promised(OurOpen)[r] \in Nat
                                /\ stock[r] \in Nat /\ Upkeep[r] \in Nat
<1>1. Seen(view) /\ OurOpen = Outgoing(view) /\ stock \in Bundles /\ Upkeep \in Bundles
  BY MarketSeen, RulesAssumption DEF MarketInv, ScalarsOK
<1>2. Giving(Outgoing(view)) /\ Committed(view) \in Bundles
  BY <1>1, AvailableIs
<1> QED BY <1>1, <1>2 DEF Committed, Bundles

(* The same in the next state.                                             *)
LEMMA CommittedNext ==
  ASSUME MarketInv'
  PROVE  /\ Giving(OurOpen') /\ Committed(view') = Promised(OurOpen')
         /\ \A r \in Resource : Promised(OurOpen')[r] \in Nat /\ stock'[r] \in Nat
<1>1. Seen(view') /\ OurOpen' = Outgoing(view') /\ stock' \in Bundles
  BY MarketSeenNext DEF MarketInv, ScalarsOK
<1>2. Giving(Outgoing(view')) /\ Committed(view') \in Bundles
  BY <1>1, AvailableIs
<1> QED BY <1>1, <1>2 DEF Committed, Bundles

(* What the stock holds beyond the promises.                               *)
Slack == [r \in Resource |-> stock[r] - Promised(OurOpen)[r]]

(* A step in which dt ticks pass, no offer of ours opens, what the stock   *)
(* holds beyond the promises shrinks by upkeep at most, and the command in *)
(* flight, if it stays, means what it meant.                               *)
Frame(dt) ==
  /\ tick' = tick + dt /\ OurOpen' \subseteq OurOpen
  /\ \A r \in Resource : Slack'[r] >= Slack[r] - dt * Upkeep[r]
  /\ \/ command' = NoCommand
     \/ /\ command' = command
        /\ command.kind = "accept" =>
             \A o \in offers' : o.id = command.offer => o \in offers

(* When that shrinks by the upkeep of the time passed at most, all that was*)
(* backed still is.                                                        *)
LEMMA BacksOn ==
  ASSUME MarketInv, MarketInv', NEW dt \in {0, 1},
         \A r \in Resource : Slack'[r] >= Slack[r] - dt * Upkeep[r],
         NEW r \in Resource, NEW k \in Nat, NEW n \in Nat, Backs(view, r, k + dt, n)
  PROVE  Backs(view', r, k, n)
<1>0. view.stock = stock /\ view'.stock = stock'
  BY MarketSeen, MarketSeenNext
<1> DEFINE c == Promised(OurOpen)[r]
           cc == Promised(OurOpen')[r]
           s == stock[r]
           ss == stock'[r]
           u == Upkeep[r]
<1>1. c \in Nat /\ s \in Nat /\ u \in Nat /\ cc \in Nat /\ ss \in Nat
  BY CommittedIs, CommittedNext
<1>2. Committed(view)[r] = c /\ Committed(view')[r] = cc
  BY CommittedIs, CommittedNext
<1>3. ss - cc >= s - c - dt * u
  BY DEF Slack
<1>4. c + n + (k + dt) * u <= s
  BY <1>0, <1>2 DEF Backs
<1> HIDE DEF c, cc, s, ss, u
<1>5. k * u \in Nat /\ (k + 1) * u = k * u + u
  BY <1>1, Products
<1>6. (k + dt) * u = k * u + dt * u /\ dt * u \in Nat
  <2>1. CASE dt = 0
    <3>1. k + dt = k /\ dt * u = 0
      BY <1>1, <2>1
    <3> QED BY <1>5, <3>1
  <2>2. CASE dt = 1
    <3>1. dt * u = u
      BY <1>1, <2>2
    <3> QED BY <1>1, <1>5, <2>2, <3>1
  <2> QED BY <2>1, <2>2
<1> DEFINE ku == k * u
           du == dt * u
<1>7. ku \in Nat /\ du \in Nat /\ ss - cc >= s - c - du /\ c + n + (ku + du) <= s
  BY <1>3, <1>4, <1>5, <1>6
<1> HIDE DEF ku, du
<1>8. cc + n + ku <= ss
  BY <1>1, <1>7
<1> QED BY <1>0, <1>2, <1>8 DEF Backs, ku, u, ss

(* Fewer open offers promise no more.                                      *)
LEMMA SlackGrows ==
  ASSUME MarketInv, MarketInv', OurOpen' \subseteq OurOpen, stock' = stock
  PROVE  \A r \in Resource : Slack'[r] >= Slack[r] - 0 * Upkeep[r]
<1> SUFFICES ASSUME NEW r \in Resource PROVE Slack'[r] >= Slack[r] - 0 * Upkeep[r]
  OBVIOUS
<1>1. Promised(OurOpen')[r] <= Promised(OurOpen)[r]
  BY CommittedIs, PromisedSubset
<1>2. Slack[r] = stock[r] - Promised(OurOpen)[r] /\ Slack'[r] = stock[r] - Promised(OurOpen')[r]
  BY DEF Slack
<1> DEFINE c == Promised(OurOpen)[r]
           cc == Promised(OurOpen')[r]
           s == stock[r]
           u == Upkeep[r]
<1>3. c \in Nat /\ s \in Nat /\ u \in Nat /\ cc \in Nat /\ cc <= c
  BY <1>1, CommittedIs, CommittedNext
<1> HIDE DEF c, cc, s, u
<1>4. s - cc >= s - c - 0 * u
  BY <1>3
<1> QED BY <1>2, <1>4 DEF c, cc, s, u

(* A tick costs upkeep ...                                                 *)
LEMMA TickFrames ==
  ASSUME MarketInv, MarketInv', Tick
  PROVE  Frame(1)
<1>1. Quiet /\ tick' = tick + 1 /\ \A r \in Resource : stock'[r] >= stock[r] - Upkeep[r]
  BY TickTypes
<1>2. OurOpen' \subseteq OurOpen
  BY <1>1, QuietShrinks
<1>3. ASSUME NEW r \in Resource PROVE Slack'[r] >= Slack[r] - 1 * Upkeep[r]
  <2>1. Promised(OurOpen')[r] <= Promised(OurOpen)[r]
    BY <1>2, CommittedIs, PromisedSubset
  <2>2. Slack[r] = stock[r] - Promised(OurOpen)[r] /\ Slack'[r] = stock'[r] - Promised(OurOpen')[r]
    BY DEF Slack
  <2> DEFINE c == Promised(OurOpen)[r]
             cc == Promised(OurOpen')[r]
             s == stock[r]
             ss == stock'[r]
             u == Upkeep[r]
  <2>3. c \in Nat /\ s \in Nat /\ u \in Nat /\ cc \in Nat /\ ss \in Nat /\ cc <= c /\ ss >= s - u
    BY <1>1, <2>1, CommittedIs, CommittedNext
  <2> HIDE DEF c, cc, s, ss, u
  <2>4. ss - cc >= s - c - 1 * u
    BY <2>3
  <2> QED BY <2>2, <2>4 DEF c, cc, s, ss, u
<1>4. command' = command /\ offers' \subseteq offers
  BY DEF Tick
<1> QED BY <1>1, <1>2, <1>3, <1>4 DEF Frame

(* ... what a partner takes was promised ...                               *)
LEMMA PartnerAcceptsFrames ==
  ASSUME MarketInv, MarketInv', PartnerAccepts
  PROVE  Frame(0)
<1>1. PICK o \in OurOpen : Settle(o.give, o.receive, o.to) /\ offers' = offers \ {o}
  BY DEF PartnerAccepts
<1>2. tick' = tick /\ command' = command
  BY DEF PartnerAccepts
<1>3. o \in Offers
  BY DEF OurOpen, MarketInv, OffersInv
<1>4. OurOpen' = OurOpen \ {o}
  BY <1>1, <1>2 DEF OurOpen, Expired, view
<1>5. ASSUME NEW r \in Resource PROVE Slack'[r] >= Slack[r] - 0 * Upkeep[r]
  <2> DEFINE c == Promised(OurOpen)[r]
             s == stock[r]
             g == o.give[r]
             p == o.receive[r]
             u == Upkeep[r]
  <2>1. c \in Nat /\ s \in Nat /\ u \in Nat /\ g \in Nat /\ p \in Nat
    BY <1>3, CommittedIs DEF Offers, Bundles
  <2>2. Promised(OurOpen')[r] = c - g
    BY <1>4, CommittedIs, PromisedLess
  <2>3. stock'[r] = s - g + p
    BY <1>1 DEF Settle, Plus, Minus
  <2>4. Slack[r] = s - c /\ Slack'[r] = (s - g + p) - (c - g)
    BY <2>2, <2>3 DEF Slack
  <2> HIDE DEF c, s, g, p, u
  <2>5. (s - g + p) - (c - g) >= s - c - 0 * u
    BY <2>1
  <2> QED BY <2>4, <2>5 DEF u
<1>6. tick' = tick + 0
  BY <1>2, RulesAssumption DEF MarketInv, ScalarsOK, Ticks
<1> QED BY <1>1, <1>2, <1>4, <1>5, <1>6 DEF Frame

(* ... most other steps leave tick and stock alone ...                     *)
LEMMA StillFrames ==
  ASSUME MarketInv, MarketInv', tick' = tick, stock' = stock,
         OurOpen' \subseteq OurOpen,
         \/ command' = NoCommand
         \/ /\ command' = command
            /\ command.kind = "accept" =>
                 \A o \in offers' : o.id = command.offer => o \in offers
  PROVE  Frame(0)
<1>1. tick' = tick + 0
  BY RulesAssumption DEF MarketInv, ScalarsOK, Ticks
<1>2. \A r \in Resource : Slack'[r] >= Slack[r] - 0 * Upkeep[r]
  BY SlackGrows
<1> QED BY <1>1, <1>2 DEF Frame

(* ... and what partners offer is not ours to pay before we accept.        *)
LEMMA PartnerOffersFrames ==
  ASSUME MarketInv, MarketInv', PartnerOffers
  PROVE  Frame(0)
<1>1. tick' = tick /\ stock' = stock /\ command' = command
  BY DEF PartnerOffers
<1>2. PICK p \in Partners, terms \in PartnerTerms :
        offers' = offers \cup
         {[id |-> lastId + 1, from |-> p, to |-> Self, give |-> terms.give,
           receive |-> terms.receive, created |-> tick, expires |-> tick + MaxOfferTtl]}
  BY DEF PartnerOffers
<1> DEFINE new == [id |-> lastId + 1, from |-> p, to |-> Self, give |-> terms.give,
                   receive |-> terms.receive, created |-> tick, expires |-> tick + MaxOfferTtl]
<1>3. new.id = lastId + 1 /\ new.from # Self /\ offers' = offers \cup {new}
  BY <1>2, RulesAssumption
<1> HIDE DEF new
<1>4. OurOpen' \subseteq OurOpen
  BY <1>1, <1>3 DEF OurOpen, Expired, view
<1>5. command.kind = "accept" => \A o \in offers' : o.id = command.offer => o \in offers
  <2> SUFFICES ASSUME command.kind = "accept" PROVE new.id # command.offer
    BY <1>3
  <2>1. command.offer \in Nat /\ command.offer <= lastId /\ lastId \in Nat
    BY CommandKinds DEF MarketInv, ScalarsOK, AcceptInv
  <2> QED BY <1>3, <2>1
<1> QED BY <1>1, <1>4, <1>5, StillFrames

(* So every step frames that neither decides, nor opens an offer of ours,  *)
(* nor settles a trade we accepted.                                        *)
LEMMA OthersFrame ==
  ASSUME MarketInv, MarketInv', [Next]_vars
  PROVE  \/ Decide \/ (Apply /\ ApplyOffer) \/ (Apply /\ ApplyAccept)
         \/ \E dt \in {0, 1} : Frame(dt)
<1>1. CASE QuietStep /\ ~(Apply /\ ApplyAccept)
  <2>1. Quiet /\ OurOpen' \subseteq OurOpen
    BY <1>1, QuietStepTypes, QuietShrinks
  <2>2. CASE Tick
    BY <2>2, TickFrames
  <2>3. CASE PartnerAccepts
    BY <2>3, PartnerAcceptsFrames
  <2>4. CASE \/ Restart \/ Refuse \/ RateLimit \/ PartnerWithdraws \/ PartnerAdvertises
             \/ UNCHANGED vars
             \/ Apply /\ ~ApplyOffer /\ ~ApplyAccept
    <3>1. tick' = tick /\ stock' = stock
      BY <2>4 DEF Restart, Refuse, RateLimit, marketVars, vars, PartnerWithdraws,
         PartnerAdvertises, Apply, ApplyWithdraw, ApplyAdvertise
    <3> QED BY <2>1, <3>1, StillFrames DEF Quiet
  <2> QED BY <1>1, <2>2, <2>3, <2>4 DEF QuietStep
<1>2. CASE PartnerOffers
  BY <1>2, PartnerOffersFrames
<1> QED BY <1>1, <1>2, StepKinds

(* A step that frames keeps what is backed.                                *)
LEMMA BackedFrame ==
  ASSUME MarketInv, MarketInv', BackedInv, NEW dt \in {0, 1}, Frame(dt)
  PROVE  BackedInv'
<1> USE DEF Frame
<1>1. /\ OurOpen = Outgoing(view) /\ view.tick = tick /\ view.stock = stock
      /\ OurOpen' = Outgoing(view') /\ view'.tick = tick' /\ view'.stock = stock'
      /\ view.offers = offers /\ view'.offers = offers'
  BY MarketSeen, MarketSeenNext
<1>2. /\ tick \in Nat /\ \A o \in OurOpen : o.expires \in Nat
  BY RulesAssumption DEF MarketInv, ScalarsOK, Ticks, OffersInv, Offers, OurOpen
<1>3. ASSUME NEW r \in Resource, NEW k \in Nat, Lasts(view', r, k)
      PROVE  Lasts(view, r, k + dt)
  BY <1>1, <1>2, <1>3, LifeIs DEF Lasts
<1>4. ASSUME NEW r \in Resource, NEW k \in Nat, NEW n \in Nat, Backs(view, r, k + dt, n)
      PROVE  Backs(view', r, k, n)
  BY <1>4, BacksOn
<1>5. StockBacks'
  <2> SUFFICES ASSUME NEW r \in Resource, NEW k \in Nat, Lasts(view', r, k)
               PROVE  Backs(view', r, k, 0)
    BY DEF StockBacks
  <2>1. Lasts(view, r, k + dt) /\ k + dt \in Nat
    BY <1>3
  <2>2. Backs(view, r, k + dt, 0)
    BY <2>1 DEF BackedInv, StockBacks
  <2> QED BY <1>4, <2>2
<1>6. CASE command' = NoCommand
  BY <1>5, <1>6 DEF BackedInv, NoCommand
<1>7. CASE command' = command /\ command.kind = "offer"
  <2>1. /\ command.give \in Bundles /\ command.expires \in Nat /\ BackedOffer(command, view)
    BY <1>7, CommandKinds DEF MarketInv, ScalarsOK, BackedInv
  <2>2. ASSUME NEW r \in Resource, NEW k \in Nat, command.give[r] > 0,
               tick' + k < command.expires - Overhang \/ Lasts(view', r, k)
        PROVE  Backs(view', r, k, command.give[r])
    <3>1. tick + (k + dt) < command.expires - Overhang \/ Lasts(view, r, k + dt)
      BY <1>2, <1>3, <2>1, <2>2, LifeIs
    <3>2. Backs(view, r, k + dt, command.give[r])
      BY <1>1, <2>1, <2>2, <3>1 DEF BackedOffer
    <3> QED BY <1>4, <2>1, <3>2 DEF Bundles
  <2>3. BackedOffer(command', view')
    BY <1>1, <1>7, <2>2 DEF BackedOffer
  <2> QED BY <1>5, <1>7, <2>3 DEF BackedInv
<1>8. CASE command' = command /\ command.kind = "accept"
  <2>1. ASSUME NEW o \in (Open(command.offer))' PROVE BackedAccept(o, view')
    <3>1. o \in offers' /\ o.id = command.offer /\ ~(tick' >= o.expires)
      BY <1>1, <1>8, <2>1 DEF Open, Expired
    <3>2. o \in offers /\ o \in Offers
      BY <1>8, <3>1, NoCommandIs DEF MarketInv, OffersInv
    <3>3. o \in Open(command.offer)
      BY <1>1, <1>2, <3>1, <3>2 DEF Open, Expired, Offers
    <3>4. BackedAccept(o, view)
      BY <1>8, <3>3 DEF BackedInv
    <3>5. ASSUME NEW r \in Resource, NEW k \in Nat, o.receive[r] > o.give[r], Lasts(view', r, k)
          PROVE  Backs(view', r, k, o.receive[r] - o.give[r])
      <4>1. Lasts(view, r, k + dt)
        BY <1>3, <3>5
      <4>2. Backs(view, r, k + dt, o.receive[r] - o.give[r])
        BY <3>4, <3>5, <4>1 DEF BackedAccept
      <4>3. o.receive[r] - o.give[r] \in Nat
        BY <3>2, <3>5 DEF Offers, Bundles
      <4> QED BY <1>4, <4>2, <4>3
    <3> QED BY <3>5 DEF BackedAccept
  <2> QED BY <1>5, <1>8, <2>1 DEF BackedInv
<1>9. CASE command' = command /\ command.kind \notin {"offer", "accept"}
  BY <1>5, <1>9 DEF BackedInv
<1> QED BY <1>6, <1>7, <1>8, <1>9

(* What a policy decides is backed at the moment it decides ...            *)
LEMMA BackedDecide ==
  ASSUME MarketInv, BackedInv, Decide
  PROVE  BackedInv'
<1>1. PICK l \in 1..MaxLatency : \E d \in Chosen(l) : command' = d
  BY DEF Decide
<1>2. PICK d \in Chosen(l) : command' = d
  BY <1>1
<1>3. view' = view /\ offers' = offers
  BY DEF Decide, marketVars, view
<1>4. Seen(view) /\ OurOpen = Outgoing(view) /\ view.tick = tick /\ view.offers = offers
  BY MarketSeen
<1>5. \A o \in offers : /\ o.expires \in Nat /\ (Ours(o) \/ Theirs(o))
                        /\ \A q \in offers : q.id = o.id => q = o
  BY DEF MarketInv, OffersInv, Offers
<1>6. FloorsReach(view)
  <2>1. ASSUME NEW o \in Outgoing(view)
        PROVE  o.expires <= Duration /\ (Simplified \/ Reaches(view, 3, o.expires))
    <3>1. Ours(o) /\ o.expires \in Nat
      BY <1>4, <1>5, RulesAssumption DEF Outgoing, Theirs
    <3>2. tick \in Nat
      BY RulesAssumption DEF MarketInv, ScalarsOK, Ticks
    <3> QED BY <1>4, <3>1, <3>2, LifeIs DEF Ours, Reaches
  <2> QED BY <2>1 DEF FloorsReach
<1>7. StockBacks'
  BY <1>3 DEF BackedInv, StockBacks
<1>8. \/ \E o \in Outgoing(view) : d = Withdraw(o)
      \/ \E o \in Incoming(view) : d = Accept(o) /\ BackedAccept(o, view)
      \/ d \in [kind : {"advertise"}, ad : Ads]
      \/ d.kind = "offer" /\ BackedOffer(d, view)
  BY <1>4, <1>6, ChosenIs DEF Proposal
<1>9. ASSUME NEW o \in Outgoing(view), d = Withdraw(o) PROVE BackedInv'
  BY <1>2, <1>7, <1>9 DEF BackedInv, Withdraw
<1>10. ASSUME NEW o \in Incoming(view), d = Accept(o), BackedAccept(o, view) PROVE BackedInv'
  <2>1. d.kind = "accept" /\ d.offer = o.id
    BY <1>10 DEF Accept
  <2>2. \A q \in Open(d.offer) : q = o
    BY <1>4, <1>5, <2>1 DEF Open, Incoming
  <2>3. (Open(command.offer))' = Open(d.offer)
    BY <1>2, <1>3 DEF Open
  <2> QED BY <1>2, <1>3, <1>7, <1>10, <2>1, <2>2, <2>3 DEF BackedInv
<1>11. ASSUME d \in [kind : {"advertise"}, ad : Ads] PROVE BackedInv'
  <2>1. d.kind = "advertise"
    BY <1>11
  <2> QED BY <1>2, <1>7, <2>1 DEF BackedInv
<1>12. ASSUME d.kind = "offer", BackedOffer(d, view) PROVE BackedInv'
  BY <1>2, <1>3, <1>7, <1>12 DEF BackedInv
<1> QED BY <1>8, <1>9, <1>10, <1>11, <1>12

(* ... an offer that opens was backed while its command was on the way ... *)
LEMMA BackedOfferApplied ==
  ASSUME MarketInv, MarketInv', BackedInv, Apply, ApplyOffer
  PROVE  BackedInv'
<1> DEFINE new == [id |-> lastId + 1, from |-> Self, to |-> command.to, give |-> command.give,
                   receive |-> command.receive, created |-> tick, expires |-> command.expires]
<1>1. /\ tick' = tick /\ stock' = stock /\ command' = NoCommand /\ command.kind = "offer"
      /\ offers' = offers \cup {new} /\ tick < command.expires
  BY DEF Apply, ApplyOffer
<1>2. /\ command.give \in Bundles /\ command.expires \in Nat /\ lastId \in Nat /\ tick \in Nat
  BY <1>1, CommandKinds, RulesAssumption DEF MarketInv, ScalarsOK, Ticks
<1>3. /\ new.id = lastId + 1 /\ new.from = Self /\ new.give = command.give
      /\ new.expires = command.expires
  OBVIOUS
<1> HIDE DEF new
<1>4. new \notin OurOpen
  <2>1. \A o \in offers : o.id \in Nat /\ o.id <= lastId
    BY DEF MarketInv, OffersInv, Offers
  <2> QED BY <1>2, <1>3, <2>1 DEF OurOpen
<1>5. OurOpen' = OurOpen \cup {new}
  <2>1. ~(tick >= new.expires)
    BY <1>1, <1>2, <1>3
  <2> QED BY <1>1, <1>3, <2>1 DEF OurOpen, Expired, view
<1>6. /\ OurOpen = Outgoing(view) /\ view.tick = tick /\ view.stock = stock
      /\ OurOpen' = Outgoing(view') /\ view'.tick = tick' /\ view'.stock = stock'
  BY MarketSeen, MarketSeenNext
<1>7. BackedOffer(command, view) /\ StockBacks
  BY <1>1 DEF BackedInv
<1>8. ASSUME NEW r \in Resource, NEW k \in Nat, Lasts(view', r, k)
      PROVE  Backs(view', r, k, 0)
  <2> DEFINE c == Promised(OurOpen)[r]
             g == command.give[r]
             ku == k * Upkeep[r]
  <2>1. c \in Nat /\ stock[r] \in Nat /\ g \in Nat /\ ku \in Nat
    BY <1>2, CommittedIs, Products DEF Bundles
  <2>2. Committed(view)[r] = c /\ Committed(view')[r] = c + g
    BY <1>2, <1>3, <1>4, <1>5, CommittedIs, CommittedNext, PromisedMore
  <2> HIDE DEF c, g, ku
  <2>3. CASE g > 0
    <3>1. tick + k < command.expires - Overhang \/ Lasts(view, r, k)
      BY <1>1, <1>3, <1>5, <1>6, <1>8 DEF Lasts
    <3>2. Backs(view, r, k, g)
      BY <1>6, <1>7, <2>3, <3>1 DEF BackedOffer, g
    <3>3. c + g + ku <= stock[r]
      BY <1>6, <2>2, <3>2 DEF Backs, ku
    <3>4. (c + g) + 0 + ku <= stock[r]
      BY <2>1, <3>3
    <3> QED BY <1>1, <1>6, <2>2, <3>4 DEF Backs, ku
  <2>4. CASE g = 0
    <3>1. Lasts(view, r, k)
      BY <1>1, <1>3, <1>5, <1>6, <1>8, <2>4 DEF Lasts, g
    <3>2. c + 0 + ku <= stock[r]
      BY <1>6, <1>7, <2>2, <3>1 DEF StockBacks, Backs, ku
    <3>3. (c + g) + 0 + ku <= stock[r]
      BY <2>1, <2>4, <3>2
    <3> QED BY <1>1, <1>6, <2>2, <3>3 DEF Backs, ku
  <2> QED BY <2>1, <2>3, <2>4
<1>9. StockBacks'
  BY <1>8 DEF StockBacks
<1> QED BY <1>1, <1>9, NoCommandIs DEF BackedInv

(* ... and so was a trade that settles.                                    *)
LEMMA BackedAcceptApplied ==
  ASSUME MarketInv, MarketInv', BackedInv, Apply, ApplyAccept
  PROVE  BackedInv'
<1>1. /\ tick' = tick /\ command' = NoCommand /\ command.kind = "accept"
  BY DEF Apply, ApplyAccept
<1>2. PICK o \in Open(command.offer) : Settle(o.receive, o.give, o.from) /\ offers' = offers \ {o}
  BY DEF ApplyAccept
<1>3. o \in offers /\ o \in Offers /\ Theirs(o) /\ BackedAccept(o, view)
  BY <1>1, <1>2 DEF Open, MarketInv, OffersInv, AcceptInv, BackedInv
<1>4. OurOpen' = OurOpen
  <2>1. o.from # Self
    BY <1>3, RulesAssumption DEF Theirs
  <2> QED BY <1>1, <1>2, <2>1 DEF OurOpen, Expired, view
<1>5. /\ OurOpen = Outgoing(view) /\ view.tick = tick /\ view.stock = stock
      /\ OurOpen' = Outgoing(view') /\ view'.tick = tick' /\ view'.stock = stock'
  BY MarketSeen, MarketSeenNext
<1>6. ASSUME NEW r \in Resource, NEW k \in Nat, Lasts(view', r, k)
      PROVE  Backs(view', r, k, 0)
  <2> DEFINE c == Promised(OurOpen)[r]
             g == o.give[r]
             p == o.receive[r]
             s == stock[r]
             ku == k * Upkeep[r]
  <2>1. c \in Nat /\ s \in Nat /\ g \in Nat /\ p \in Nat /\ ku \in Nat
    BY <1>3, CommittedIs, Products DEF Offers, Bundles
  <2>2. Committed(view)[r] = c /\ Committed(view')[r] = c
    BY <1>4, CommittedIs, CommittedNext
  <2>3. stock'[r] = s - p + g
    BY <1>2 DEF Settle, Plus, Minus
  <2>4. Lasts(view, r, k)
    BY <1>1, <1>4, <1>5, <1>6 DEF Lasts
  <2> HIDE DEF c, g, p, s, ku
  <2>5. c + 0 + ku <= s
    BY <1>5, <2>2, <2>4 DEF BackedInv, StockBacks, Backs, ku, s
  <2>6. p > g => c + (p - g) + ku <= s
    <3> SUFFICES ASSUME p > g PROVE c + (p - g) + ku <= s
      OBVIOUS
    <3>1. Backs(view, r, k, p - g)
      BY <1>3, <2>4 DEF BackedAccept, p, g
    <3> QED BY <1>5, <2>2, <3>1 DEF Backs, ku, s
  <2>7. c + 0 + ku <= s - p + g
    BY <2>1, <2>5, <2>6
  <2> QED BY <1>5, <2>2, <2>3, <2>7 DEF Backs, ku
<1>7. StockBacks'
  BY <1>6 DEF StockBacks
<1> QED BY <1>1, <1>7, NoCommandIs DEF BackedInv

(* Together with MarketInv, BackedInv is inductive.                        *)
LEMMA BackedStep == MarketInv /\ BackedInv /\ [Next]_vars => BackedInv'
<1> SUFFICES ASSUME MarketInv, BackedInv, [Next]_vars PROVE BackedInv'
  OBVIOUS
<1>1. MarketInv'
  BY MarketStep
<1> QED BY <1>1, OthersFrame, BackedFrame, BackedDecide, BackedOfferApplied, BackedAcceptApplied

LEMMA BackedInit == Init => BackedInv
BY NoCommandIs DEF Init, BackedInv, StockBacks, Lasts, Outgoing, view

(* What a firm offer gives of, and all else promised of it, is in stock.   *)
LEMMA FirmIsBacked ==
  ASSUME MarketInv, BackedInv, NEW r \in Resource, NEW o \in OurOpen, Firm(o), o.give[r] > 0
  PROVE  Promised(OurOpen)[r] <= stock[r]
<1>1. /\ Committed(view) = Promised(OurOpen)
      /\ Promised(OurOpen)[r] \in Nat /\ stock[r] \in Nat /\ Upkeep[r] \in Nat
  BY CommittedIs
<1>2. /\ OurOpen = Outgoing(view) /\ view.tick = tick /\ view.stock = stock
      /\ tick \in Nat
  BY MarketSeen, RulesAssumption DEF MarketInv, ScalarsOK, Ticks
<1>3. tick + 0 < o.expires - Overhang
  BY <1>2 DEF Firm
<1>4. Lasts(view, r, 0)
  BY <1>2, <1>3 DEF Lasts
<1>5. Backs(view, r, 0, 0)
  BY <1>4 DEF BackedInv, StockBacks
<1>6. Promised(OurOpen)[r] + 0 + 0 * Upkeep[r] <= stock[r]
  BY <1>1, <1>2, <1>5 DEF Backs
<1> QED BY <1>1, <1>6

(* Whenever a partner accepts, we can pay, whatever the policy, the rules  *)
(* and the delays: while an offer outlives no floor, what it gives and all *)
(* else promised of that resource is in stock.                             *)
THEOREM FirmOffersStayCovered == Spec => []FirmOffersCovered
<1>1. MarketInv /\ BackedInv => FirmOffersCovered
  BY FirmIsBacked, CommittedIs DEF FirmOffersCovered
<1> QED BY MarketInit, MarketStep, BackedInit, BackedStep, <1>1, PTL DEF Spec

(* With the simplified policy that is every offer, as long as it is open:  *)
(* its floor lasts to the end of the last of them.                         *)
THEOREM CommitmentsStayCovered ==
  ASSUME Simplified PROVE Spec => []CommitmentsCovered
<1>1. MarketInv /\ BackedInv => CommitmentsCovered
  <2> SUFFICES ASSUME MarketInv, BackedInv, NEW r \in Resource
               PROVE  stock[r] >= Promised(OurOpen)[r]
    BY DEF CommitmentsCovered, Covers
  <2>1. /\ Giving(OurOpen) /\ Promised(OurOpen)[r] \in Nat /\ stock[r] \in Nat
    BY CommittedIs
  <2>2. CASE \A o \in OurOpen : o.give[r] = 0
    BY <2>1, <2>2, PromisedNothing
  <2>3. ASSUME NEW o \in OurOpen, o.give[r] # 0
        PROVE  stock[r] >= Promised(OurOpen)[r]
    <3>1. o \in Offers /\ ~(tick >= o.expires)
      BY DEF OurOpen, Expired, MarketInv, OffersInv, view
    <3>2. o.give[r] > 0 /\ tick < o.expires - Overhang
      BY <2>3, <3>1, LifeIs, RulesAssumption DEF Offers, Bundles, MarketInv, ScalarsOK, Ticks
    <3> QED BY <2>1, <3>2, FirmIsBacked DEF Firm
  <2> QED BY <2>2, <2>3
<1> QED BY MarketInit, MarketStep, BackedInit, BackedStep, <1>1, PTL DEF Spec
-----------------------------------------------------------------------------
(* Gifts.  While one is open, all that is promised and upkeep as far ahead *)
(* as the gift calls for can be paid; a command in flight keeps it so.     *)
CarriedInv ==
  /\ CarriedStock(view)
  /\ command.kind = "offer" => CarriedOffer(command, view)
  /\ command.kind = "accept" => \A o \in Open(command.offer) : CarriedAccept(o, view)

(* Open offers have their types and end when the rules say.                *)
LEMMA OpenOffers ==
  ASSUME MarketInv
  PROVE  /\ tick \in Nat
         /\ \A o \in OurOpen :
              /\ o \in offers /\ o \in Offers /\ o.expires \in Nat /\ tick < o.expires
              /\ o.expires <= tick + LongestLife /\ o.expires <= Duration
<1>1. tick \in Nat
  BY RulesAssumption DEF MarketInv, ScalarsOK, Ticks
<1>2. ASSUME NEW o \in OurOpen
      PROVE  /\ o \in offers /\ o \in Offers /\ o.expires \in Nat /\ tick < o.expires
             /\ o.expires <= tick + LongestLife /\ o.expires <= Duration
  <2>1. o \in offers /\ o.from = Self /\ ~(tick >= o.expires)
    BY DEF OurOpen, Expired, view
  <2>2. o \in Offers /\ o.expires \in Nat /\ Ours(o)
    BY <2>1, RulesAssumption DEF MarketInv, OffersInv, Offers, Theirs
  <2> QED BY <1>1, <2>1, <2>2 DEF Ours
<1> QED BY <1>1, <1>2

(* A step that frames keeps what is carried.                               *)
LEMMA CarriedFrame ==
  ASSUME MarketInv, MarketInv', CarriedInv, NEW dt \in {0, 1}, Frame(dt)
  PROVE  CarriedInv'
<1> USE DEF Frame
<1>1. /\ OurOpen = Outgoing(view) /\ view.tick = tick
      /\ OurOpen' = Outgoing(view') /\ view'.tick = tick'
  BY MarketSeen, MarketSeenNext
<1>2. tick \in Nat /\ \A o \in OurOpen : o.expires \in Nat
  BY OpenOffers
<1>3. ASSUME NEW k \in Ahead
      PROVE  /\ k \in Nat /\ k + dt \in Ahead
             /\ \A x : Spans(x, view', k) => Spans(x, view, k + dt)
             /\ Carries(view', k) => Carries(view, k + dt)
  <2>1. k \in Nat /\ k + dt \in Ahead /\ tick' + k = tick + (k + dt)
    BY <1>2 DEF Ahead
  <2>2. \A x : Spans(x, view', k) => Spans(x, view, k + dt)
    BY <1>1, <2>1 DEF Spans
  <2> QED BY <1>1, <2>1, <2>2 DEF Carries
<1>4. \A r \in Needed : r \in Resource
  BY DEF Needed
<1>5. CarriedStock(view')
  <2> SUFFICES ASSUME NEW r \in Needed, NEW k \in Ahead, Carries(view', k)
               PROVE  Backs(view', r, k, 0)
    BY DEF CarriedStock
  <2>1. Backs(view, r, k + dt, 0)
    BY <1>3 DEF CarriedInv, CarriedStock
  <2> QED BY <1>3, <1>4, <2>1, BacksOn
<1>6. CASE command' = NoCommand
  BY <1>5, <1>6 DEF CarriedInv, NoCommand
<1>7. CASE command' = command /\ command.kind = "offer"
  <2>1. command.give \in Bundles /\ CarriedOffer(command, view)
    BY <1>7, CommandKinds DEF MarketInv, ScalarsOK, CarriedInv
  <2>2. ASSUME NEW r \in Needed, NEW k \in Ahead, Carries(view', k) \/ Spans(command, view', k)
        PROVE  Backs(view', r, k, command.give[r])
    <3>1. Backs(view, r, k + dt, command.give[r])
      BY <1>3, <2>1, <2>2 DEF CarriedOffer
    <3>2. command.give[r] \in Nat
      BY <1>4, <2>1 DEF Bundles
    <3> QED BY <1>3, <1>4, <3>1, <3>2, BacksOn
  <2> QED BY <1>5, <1>7, <2>2 DEF CarriedInv, CarriedOffer
<1>8. CASE command' = command /\ command.kind = "accept"
  <2>1. ASSUME NEW o \in (Open(command.offer))' PROVE CarriedAccept(o, view')
    <3>1. o \in offers' /\ o.id = command.offer /\ ~(tick' >= o.expires)
      BY <1>1, <1>8, <2>1 DEF Open, Expired
    <3>2. o \in offers /\ o \in Offers
      BY <1>8, <3>1, NoCommandIs DEF MarketInv, OffersInv
    <3>3. o \in Open(command.offer)
      BY <1>1, <1>2, <3>1, <3>2 DEF Open, Expired, Offers
    <3>4. CarriedAccept(o, view)
      BY <1>8, <3>3 DEF CarriedInv
    <3>5. ASSUME NEW r \in Needed, NEW k \in Ahead, o.receive[r] > o.give[r], Carries(view', k)
          PROVE  Backs(view', r, k, o.receive[r] - o.give[r])
      <4>1. Backs(view, r, k + dt, o.receive[r] - o.give[r])
        BY <1>3, <3>4, <3>5 DEF CarriedAccept
      <4>2. o.receive[r] - o.give[r] \in Nat
        BY <1>4, <3>2, <3>5 DEF Offers, Bundles
      <4> QED BY <1>3, <1>4, <4>1, <4>2, BacksOn
    <3> QED BY <3>5 DEF CarriedAccept
  <2> QED BY <1>5, <1>8, <2>1 DEF CarriedInv
<1>9. CASE command' = command /\ command.kind \notin {"offer", "accept"}
  BY <1>5, <1>9 DEF CarriedInv
<1> QED BY <1>6, <1>7, <1>8, <1>9

(* The policy's decision is carried by what it saw ...                     *)
LEMMA CarriedDecide ==
  ASSUME MarketInv, CarriedInv, ReserveOutlastsGifts, Decide
  PROVE  CarriedInv'
<1>1. PICK l \in 1..MaxLatency : \E d \in Chosen(l) : command' = d
  BY DEF Decide
<1>2. PICK d \in Chosen(l) : command' = d
  BY <1>1
<1>3. view' = view /\ offers' = offers
  BY DEF Decide, marketVars, view
<1>4. Seen(view) /\ OurOpen = Outgoing(view) /\ view.tick = tick /\ view.offers = offers
  BY MarketSeen
<1>5. \A o \in offers, q \in offers : q.id = o.id => q = o
  BY DEF MarketInv, OffersInv
<1>6. GiftsInTime(view)
  BY <1>4, OpenOffers DEF GiftsInTime
<1>7. CarriedStock(view')
  BY <1>3 DEF CarriedInv
<1>8. \/ \E o \in Outgoing(view) : d = Withdraw(o)
      \/ \E o \in Incoming(view) : d = Accept(o) /\ CarriedAccept(o, view)
      \/ d \in [kind : {"advertise"}, ad : Ads]
      \/ d.kind = "offer" /\ CarriedOffer(d, view)
  BY <1>4, <1>6, DecisionCarried DEF CarriedInv
<1>9. ASSUME NEW o \in Outgoing(view), d = Withdraw(o) PROVE CarriedInv'
  BY <1>2, <1>7, <1>9 DEF CarriedInv, Withdraw
<1>10. ASSUME NEW o \in Incoming(view), d = Accept(o), CarriedAccept(o, view) PROVE CarriedInv'
  <2>1. d.kind = "accept" /\ d.offer = o.id
    BY <1>10 DEF Accept
  <2>2. \A q \in Open(d.offer) : q = o
    BY <1>4, <1>5, <2>1 DEF Open, Incoming
  <2>3. (Open(command.offer))' = Open(d.offer)
    BY <1>2, <1>3 DEF Open
  <2> QED BY <1>2, <1>3, <1>7, <1>10, <2>1, <2>2, <2>3 DEF CarriedInv
<1>11. ASSUME d \in [kind : {"advertise"}, ad : Ads] PROVE CarriedInv'
  <2>1. d.kind = "advertise"
    BY <1>11
  <2> QED BY <1>2, <1>7, <2>1 DEF CarriedInv
<1>12. ASSUME d.kind = "offer", CarriedOffer(d, view) PROVE CarriedInv'
  BY <1>2, <1>3, <1>7, <1>12 DEF CarriedInv
<1> QED BY <1>8, <1>9, <1>10, <1>11, <1>12

(* ... an offer that opens, a gift or not, finds it so ...                 *)
LEMMA CarriedOfferApplied ==
  ASSUME MarketInv, MarketInv', CarriedInv, Apply, ApplyOffer
  PROVE  CarriedInv'
<1> DEFINE new == [id |-> lastId + 1, from |-> Self, to |-> command.to, give |-> command.give,
                   receive |-> command.receive, created |-> tick, expires |-> command.expires]
<1>1. /\ tick' = tick /\ stock' = stock /\ command' = NoCommand /\ command.kind = "offer"
      /\ offers' = offers \cup {new} /\ tick < command.expires
  BY DEF Apply, ApplyOffer
<1>2. /\ command.give \in Bundles /\ command.expires \in Nat /\ lastId \in Nat /\ tick \in Nat
  BY <1>1, CommandKinds, RulesAssumption DEF MarketInv, ScalarsOK, Ticks
<1>3. /\ new.id = lastId + 1 /\ new.from = Self /\ new.give = command.give
      /\ new.expires = command.expires /\ new.receive = command.receive
  OBVIOUS
<1> HIDE DEF new
<1>4. new \notin OurOpen
  <2>1. \A o \in offers : o.id \in Nat /\ o.id <= lastId
    BY DEF MarketInv, OffersInv, Offers
  <2> QED BY <1>2, <1>3, <2>1 DEF OurOpen
<1>5. OurOpen' = OurOpen \cup {new}
  <2>1. ~(tick >= new.expires)
    BY <1>1, <1>2, <1>3
  <2> QED BY <1>1, <1>3, <2>1 DEF OurOpen, Expired, view
<1>6. /\ OurOpen = Outgoing(view) /\ view.tick = tick /\ view.stock = stock
      /\ OurOpen' = Outgoing(view') /\ view'.tick = tick' /\ view'.stock = stock'
  BY MarketSeen, MarketSeenNext
<1>7. CarriedOffer(command, view)
  BY <1>1 DEF CarriedInv
<1>8. ASSUME NEW r \in Needed, NEW k \in Ahead, Carries(view', k)
      PROVE  Backs(view', r, k, 0)
  <2> DEFINE c == Promised(OurOpen)[r]
             g == command.give[r]
             ku == k * Upkeep[r]
  <2>1. c \in Nat /\ stock[r] \in Nat /\ g \in Nat /\ ku \in Nat
    BY <1>2, CommittedIs, Products DEF Bundles, Needed, Ahead
  <2>2. Committed(view)[r] = c /\ Committed(view')[r] = c + g
    BY <1>2, <1>3, <1>4, <1>5, CommittedIs, CommittedNext, PromisedMore DEF Needed
  <2>3. Carries(view, k) \/ Spans(command, view, k)
    <3>1. PICK o \in OurOpen \cup {new} : Spans(o, view', k)
      BY <1>5, <1>6, <1>8 DEF Carries
    <3>2. Spans(o, view, k)
      BY <1>1, <1>6, <3>1 DEF Spans
    <3>3. o = new => Spans(command, view, k)
      BY <1>3, <3>2 DEF Spans, IsGift
    <3> QED BY <1>6, <3>1, <3>2, <3>3 DEF Carries
  <2> HIDE DEF c, g, ku
  <2>4. Backs(view, r, k, g)
    BY <1>7, <2>3 DEF CarriedOffer, g
  <2>5. c + g + ku <= stock[r]
    BY <1>6, <2>2, <2>4 DEF Backs, ku
  <2>6. (c + g) + 0 + ku <= stock[r]
    BY <2>1, <2>5
  <2> QED BY <1>1, <1>6, <2>2, <2>6 DEF Backs, ku
<1>9. CarriedStock(view')
  BY <1>8 DEF CarriedStock
<1> QED BY <1>1, <1>9, NoCommandIs DEF CarriedInv

(* ... and so does a trade that settles while a gift is open.              *)
LEMMA CarriedAcceptApplied ==
  ASSUME MarketInv, MarketInv', CarriedInv, Apply, ApplyAccept
  PROVE  CarriedInv'
<1>1. /\ tick' = tick /\ command' = NoCommand /\ command.kind = "accept"
  BY DEF Apply, ApplyAccept
<1>2. PICK o \in Open(command.offer) : Settle(o.receive, o.give, o.from) /\ offers' = offers \ {o}
  BY DEF ApplyAccept
<1>3. o \in offers /\ o \in Offers /\ Theirs(o) /\ CarriedAccept(o, view)
  BY <1>1, <1>2 DEF Open, MarketInv, OffersInv, AcceptInv, CarriedInv
<1>4. OurOpen' = OurOpen
  <2>1. o.from # Self
    BY <1>3, RulesAssumption DEF Theirs
  <2> QED BY <1>1, <1>2, <2>1 DEF OurOpen, Expired, view
<1>5. /\ OurOpen = Outgoing(view) /\ view.tick = tick /\ view.stock = stock
      /\ OurOpen' = Outgoing(view') /\ view'.tick = tick' /\ view'.stock = stock'
  BY MarketSeen, MarketSeenNext
<1>6. ASSUME NEW r \in Needed, NEW k \in Ahead, Carries(view', k)
      PROVE  Backs(view', r, k, 0)
  <2> DEFINE c == Promised(OurOpen)[r]
             g == o.give[r]
             p == o.receive[r]
             s == stock[r]
             ku == k * Upkeep[r]
  <2>1. c \in Nat /\ s \in Nat /\ g \in Nat /\ p \in Nat /\ ku \in Nat
    BY <1>3, CommittedIs, Products DEF Offers, Bundles, Needed, Ahead
  <2>2. Committed(view)[r] = c /\ Committed(view')[r] = c
    BY <1>4, CommittedIs, CommittedNext
  <2>3. stock'[r] = s - p + g
    BY <1>2 DEF Settle, Plus, Minus, Needed
  <2>4. Carries(view, k)
    BY <1>1, <1>4, <1>5, <1>6 DEF Carries, Spans
  <2> HIDE DEF c, g, p, s, ku
  <2>5. c + 0 + ku <= s
    BY <1>5, <2>2, <2>4 DEF CarriedInv, CarriedStock, Backs, ku, s
  <2>6. p > g => c + (p - g) + ku <= s
    <3> SUFFICES ASSUME p > g PROVE c + (p - g) + ku <= s
      OBVIOUS
    <3>1. Backs(view, r, k, p - g)
      BY <1>3, <2>4 DEF CarriedAccept, p, g
    <3> QED BY <1>5, <2>2, <3>1 DEF Backs, ku, s
  <2>7. c + 0 + ku <= s - p + g
    BY <2>1, <2>5, <2>6
  <2> QED BY <1>5, <2>2, <2>3, <2>7 DEF Backs, ku
<1>7. CarriedStock(view')
  BY <1>6 DEF CarriedStock
<1> QED BY <1>1, <1>7, NoCommandIs DEF CarriedInv

(* Together with MarketInv, CarriedInv is inductive.                       *)
LEMMA CarriedStep ==
  ReserveOutlastsGifts /\ MarketInv /\ CarriedInv /\ [Next]_vars => CarriedInv'
<1> SUFFICES ASSUME ReserveOutlastsGifts, MarketInv, CarriedInv, [Next]_vars PROVE CarriedInv'
  OBVIOUS
<1>1. MarketInv'
  BY MarketStep
<1> QED BY <1>1, OthersFrame, CarriedFrame, CarriedDecide, CarriedOfferApplied,
           CarriedAcceptApplied

(* A restrained gift never leaves us short: while it is open, upkeep is    *)
(* available for the reserve and the rest of its life, short of the longest*)
(* life of an offer.  The reserve must be long enough for nothing to become*)
(* urgent meanwhile, whatever the delays.                                  *)
THEOREM GiftsSpare ==
  ASSUME ReserveOutlastsGifts PROVE Spec => []GiftsSpareTheReserve
<1>1. Init => CarriedInv
  BY NoCommandIs DEF Init, CarriedInv, CarriedStock, Carries, Outgoing, view
<1>2. MarketInv /\ CarriedInv /\ [Next]_vars => CarriedInv'
  BY CarriedStep
<1>3. MarketInv /\ CarriedInv => GiftsSpareTheReserve
  <2> SUFFICES ASSUME MarketInv, CarriedInv, NEW o \in OurOpen, IsGift(o), NEW r \in Resource
               PROVE  Available(view)[r] >= Buffer(view, GiftFloor + (o.expires - tick))[r]
    BY DEF GiftsSpareTheReserve, Covers, GiftFloor
  <2> DEFINE t == GiftFloor + (o.expires - tick)
             k == AtMost(t, Remaining(view))
             u == Upkeep[r]
  <2>1. /\ Seen(view) /\ OurOpen = Outgoing(view) /\ view.tick = tick /\ view.stock = stock
        /\ tick \in Nat /\ o.expires \in Nat /\ tick < o.expires /\ tick <= Duration
    BY MarketSeen, OpenOffers, RulesAssumption DEF MarketInv, ScalarsOK, Ticks
  <2>2. t \in Nat /\ tick + t = GiftFloor + o.expires
    BY <2>1, LifeIs, RulesAssumption DEF ReserveOutlastsGifts, GiftFloor
  <2> HIDE DEF t
  <2>3. k \in Nat /\ tick + k <= Duration /\ tick + k <= GiftFloor + o.expires
    BY <2>1, <2>2, RulesAssumption DEF Remaining, AtLeast, AtMost
  <2>4. Buffer(view, t)[r] = u * k
    BY DEF Buffer, Scaled
  <2>5. u \in Nat /\ Available(view)[r] \in Nat
    BY <2>1, AvailableIs, RulesAssumption DEF Bundles
  <2> HIDE DEF k, u
  <2>6. CASE k = 0 \/ u = 0
    <3>1. u * k = 0
      BY <2>3, <2>5, <2>6
    <3> QED BY <2>4, <2>5, <3>1 DEF t
  <2>7. CASE k # 0 /\ u # 0
    <3>1. r \in Needed /\ k \in Ahead
      BY <2>3, <2>5, <2>7 DEF Needed, Ahead, u
    <3>2. Carries(view, k)
      BY <2>1, <2>3 DEF Carries, Spans
    <3>3. Committed(view)[r] + 0 + k * u <= stock[r]
      BY <2>1, <3>1, <3>2 DEF CarriedInv, CarriedStock, Backs, u
    <3>4. Available(view)[r] >= stock[r] - Committed(view)[r]
      BY <2>1, AvailableIs, LessUpToIs DEF Available, Seen
    <3>5. stock[r] \in Nat /\ Committed(view)[r] \in Nat /\ k * u \in Nat /\ u * k = k * u
      BY <2>1, <2>3, <2>5, AvailableIs, Products DEF Seen, Bundles
    <3> QED BY <2>4, <2>5, <3>3, <3>4, <3>5 DEF t
  <2> QED BY <2>6, <2>7
<1> QED BY MarketInit, MarketStep, <1>1, <1>2, <1>3, PTL DEF Spec
=============================================================================
