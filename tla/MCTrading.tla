------------------------------ MODULE MCTrading ------------------------------
(* Trading for TLC: a station that makes water and lives on water and food.*)
EXTENDS TradingProperties, TLC

CONSTANTS us, p1, p2

Goods(water, food) == [water |-> water, food |-> food, components |-> 0]
Parts(n)           == Only("components", n)

MCPartners  == {p1, p2}
MCUpkeep    == Goods(1, 1)
Enough      == {Goods(9, 4), Goods(7, 2), Goods(3, 8)}
Modest      == {Plus(Goods(3, 1), Parts(1)), Goods(1, 4)}
Extremes    == {Goods(9, 6), Goods(4, 0)}
Medium      == {Goods(9, 1)}
Scarce      == {Goods(5, 4)}
Tight       == {Goods(7, 2)}
Few         == {Goods(7, 2), Goods(4, 1), Goods(3, 8)}

(* What partners offer: `give' is theirs.                                  *)
Terms(give, receive) == [give |-> give, receive |-> receive]
Gifts1      == {Terms(Goods(0, 1), Zero)}
Barter      == {Terms(Goods(0, 1), Goods(1, 0))}
BothWays    == Barter \cup {Terms(Goods(1, 0), Goods(0, 1))}
InBulk      == {Terms(Goods(0, 3), Goods(3, 0)), Terms(Goods(1, 0), Goods(0, 1))}
AllTerms    == Gifts1 \cup BothWays \cup
               {Terms(Goods(0, 1), Goods(2, 0)), Terms(Goods(0, 1), Parts(1))}

MCAds       == {[selling |-> {"food"}, seeking |-> {"water"}],
                [selling |-> {"water"}, seeking |-> {"food"}]}
OneAd       == {[selling |-> {"water", "food"}, seeking |-> {"water", "food"}]}
NoMoreAds   == {}

(* Both partners advertise, each one thing, for the whole run; or nobody.  *)
Lasting(a)  == [selling |-> a.selling, seeking |-> a.seeking, expires |-> Duration]
LastingAds(A, ours) == {[s \in Stations |-> IF s = us THEN ours ELSE Lasting(f[s])]
                          : f \in [MCPartners -> A]}
MCStartAds  == LastingAds(MCAds, NoAd)
Sellers     == LastingAds({[selling |-> {"food"}, seeking |-> {"water"}]}, NoAd)
Wanting     == LastingAds({[selling |-> {}, seeking |-> {"water"}],
                           [selling |-> {"food"}, seeking |-> {"water"}]},
                          Lasting([selling |-> {"water"}, seeking |-> {"food"}]))
(* The same, but a partner who sells nothing may advertise anew before the *)
(* end.                                                                    *)
Renewing    == {[s \in Stations |-> IF a[s].selling = {} THEN [a[s] EXCEPT !.expires = Duration - 1]
                                    ELSE a[s]] : a \in Wanting}
MoreSellers == {[selling |-> {"food"}, seeking |-> {"water"}]}
MCNoAds     == {[s \in Stations |-> NoAd]}

Idle        == {0}       \* units of specialty produced in a tick
Working     == {1}

MCSymmetry == Permutations(MCPartners)
=============================================================================
