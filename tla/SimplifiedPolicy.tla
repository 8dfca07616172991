--------------------------- MODULE SimplifiedPolicy ---------------------------
(***************************************************************************)
(* SimplifiedTradingStrategy (strategy.py): two moves, refill what is short*)
(* and share specialty once nothing is.  It keeps BaseStrategy's memory and*)
(* accounting, learns no suppliers and looks at no delays.  The operators  *)
(* read as in TradingPolicy: a set of decisions the code may return.       *)
(***************************************************************************)
EXTENDS Market

CONSTANTS REORDER_TICKS, OFFER_TTL_TICKS

ASSUME SimplifiedAssumption == REORDER_TICKS \in Nat /\ OFFER_TTL_TICKS \in Nat

(* Ticks until the last of our open offers expires.                        *)
Horizon(w) == Max({0} \cup {o.expires - w.tick : o \in Outgoing(w)})

Target(w)  == Buffer(w, TARGET_TICKS)
Guard(w)   == Buffer(w, RESERVE_TICKS + Horizon(w))
Short(w)   == {r \in Resource : Available(w)[r] < Buffer(w, REORDER_TICKS)[r]}
Spare(w)   == LessUpTo(Available(w), Target(w))

(* Resources an open offer of ours is already buying.                      *)
NothingOrdered(w) == {}  \* mutant: open purchases are forgotten

Ordered(w) == {r \in Resource : \E o \in Outgoing(w) : Buys(o, r)}

(* coverage: r lasts fewer ticks than s; without upkeep it lasts for ever. *)
Shorter(w, r, s) ==
  /\ Upkeep[r] > 0
  /\ Upkeep[s] > 0 => Available(w)[r] * Upkeep[s] < Available(w)[s] * Upkeep[r]

Unguarded(w) ==
  \/ ~Covers(w.stock, Committed(w))
  \/ \E r \in Resource : Committed(w)[r] > 0 /\ Available(w)[r] < Guard(w)[r]

(* The largest payment is withdrawn first.                                 *)
Releases(w, m) ==
  LET Earlier(a, b) == Units(a.give) > Units(b.give)
      open == {o \in Outgoing(w) : Key(Withdraw(o)) \notin m.attempted}
  IN {Withdraw(o) : o \in First(open, Earlier)}

-----------------------------------------------------------------------------
(* Incoming offers.                                                        *)

Payable(o, w) ==
  LET available == Available(w)
      after == Plus(Minus(available, o.receive), o.give)
  IN /\ \A r \in Resource : after[r] >= AtMost(available[r], Guard(w)[r])
     /\ \/ \A r \in Resource \ {Specialty} : o.receive[r] = 0
        \/ /\ Specialty \in Short(w) /\ o.give[Specialty] > 0
           /\ o.receive[Specialty] = 0 /\ Covers(Spare(w), o.receive)

Useful(o, w) ==
  \E r \in Resource : Available(w)[r] < Target(w)[r] /\ Brings(o, r)

Welcome(o, w) ==
  /\ ~Expired(o, w) /\ Covers(Available(w), o.receive)
  /\ \/ IsGift(o)
     \/ Payable(o, w) /\ Units(o.give) >= Units(o.receive) /\ Useful(o, w)

(* Gifts first, then what refills the shortest supply, then the oldest.    *)
Welcomes(w, m) ==
  LET Brought(o) == {r \in Resource : Brings(o, r)}
      Scarcer(a, b) ==
        \E r \in Brought(a) : Upkeep[r] > 0 /\ \A s \in Brought(b) : Shorter(w, r, s)
      Earlier(a, b) ==
        \/ IsGift(a) /\ ~IsGift(b)
        \/ /\ IsGift(a) <=> IsGift(b)
           /\ \/ Scarcer(a, b)
              \/ ~Scarcer(b, a) /\ a.created < b.created
      open == {o \in Incoming(w) : Welcome(o, w) /\ Key(Accept(o)) \notin m.attempted}
  IN {Accept(o) : o \in First(open, Earlier)}

-----------------------------------------------------------------------------
(* Outgoing offers and the advertisement.                                  *)

RefillTtl(w) == AtMost(AtMost(OFFER_TTL_TICKS, MaxOfferTtl), Remaining(w))

MayOffer(w) == RefillTtl(w) > 0 /\ Cardinality(Outgoing(w)) < MaxOpenOffers

DisposableNow(w) == Available(w)  \* mutant: upkeep is not kept back

(* Stock beyond the guard of every open offer and of the one to be made.   *)
Disposable(w) ==
  LessUpTo(Available(w), Buffer(w, RESERVE_TICKS + AtLeast(Horizon(w), RefillTtl(w))))

RefillAmount(need, payment, w) ==
  LET capacity == IF need = Specialty
                  THEN AtMost(Disposable(w)[payment], Spare(w)[payment])
                  ELSE Disposable(w)[payment]
  IN AtMost(Target(w)[need] - Available(w)[need], capacity)

(* Move 1: the shortest supply first, none that is already on order.       *)
Refills(w, m) ==
  LET options ==
        {c \in [need : Short(w) \ Ordered(w), to : Advertised(w), pay : Resource] :
           /\ c.need \in w.ads[c.to].selling /\ c.pay \in w.ads[c.to].seeking
           /\ IF c.need = Specialty THEN c.pay # Specialty ELSE c.pay = Specialty
           /\ RefillAmount(c.need, c.pay, w) > 0
           /\ <<"partner", 0, c.to>> \notin m.attempted}
      Earlier(a, b) ==
        \/ Shorter(w, a.need, b.need)
        \/ a.need = b.need /\ m.partnerTurn[a.to] < m.partnerTurn[b.to]
        \/ a.need = b.need /\ a.to = b.to /\ Shorter(w, b.pay, a.pay)
  IN {LET amount == RefillAmount(c.need, c.pay, w) IN
      Propose(c.to, Only(c.pay, amount), Only(c.need, amount), w.tick + RefillTtl(w))
        : c \in First(options, Earlier)}

Notices(w, m) ==
  LET selling == IF Disposable(w)[Specialty] > 0 THEN {Specialty} ELSE {}
      own     == OwnAd(w)
      ttl     == AtMost(AtMost(10, MaxPublicationTtl), Remaining(w))
  IN IF /\ selling \cup Short(w) # {} /\ ttl > 0
        /\ \/ own = NoAd \/ own.expires <= w.tick + 1
           \/ own.selling # selling \/ own.seeking # Short(w)
     THEN Fresh(m, {Advertise(selling, Short(w), w.tick + ttl)}) ELSE {}

(* Move 2: small gifts, while every resource stays at the target.          *)
Shares(w, m) ==
  LET amount == AtMost(2, AtMost(Disposable(w)[Specialty], Spare(w)[Specialty]))
      takers == {p \in Advertised(w) : /\ Specialty \in w.ads[p].seeking
                                       /\ <<"partner", 0, p>> \notin m.attempted}
      Earlier(p, q) == m.partnerTurn[p] < m.partnerTurn[q]
  IN IF amount > 0 /\ Covers(Minus(Available(w), Only(Specialty, amount)), Target(w))
     THEN {Propose(p, Only(Specialty, amount), Zero, w.tick + RefillTtl(w))
             : p \in First(takers, Earlier)}
     ELSE {}

-----------------------------------------------------------------------------
(* choose                                                                  *)

Moves(w, m) ==
  LET refills == IF MayOffer(w) THEN Refills(w, m) ELSE {}
      notices == Notices(w, m)
  IN CASE refills # {} -> refills
       [] refills = {} /\ notices # {} -> notices
       [] OTHER -> IF MayOffer(w) THEN Shares(w, m) ELSE {}

SimplifiedDecisions(w, memory) ==
  LET m == AtTick(memory, w)
      welcomes == Welcomes(w, m)
  IN CASE ~MayAct(w, m) -> {}
       [] MayAct(w, m) /\ Unguarded(w) -> Releases(w, m)
       [] OTHER -> IF welcomes # {} THEN welcomes ELSE Moves(w, m)
=============================================================================
