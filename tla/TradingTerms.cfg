SPECIFICATION TimedSpec
CONSTANTS
  us = us
  p1 = p1
  p2 = p2
  Self = us
  Partners <- MCPartners
  Specialty = "water"
  Upkeep <- MCUpkeep
  Duration = 2
  MaxOfferTtl = 1
  MaxPublicationTtl = 1
  CommandsPerTick = 2
  MaxRecords = 2
  MaxOpenOffers = 1
  RESERVE_TICKS = 3
  TARGET_TICKS = 6
  BATCH_TICKS = 3
  EMERGENCY_RESERVE = 1
  SEEK_SPECIALTY_TO_TARGET = FALSE
  GiftsKeepReserve = FALSE
  REORDER_TICKS = 15
  OFFER_TTL_TICKS = 5
  Simplified = FALSE
  MaxLatency = 3
  MinTicks = 1
  Window = 2
  StartStocks <- Modest
  StartAds <- MCNoAds
  Productions <- Working
  PartnerTerms <- AllTerms
  PartnerAds <- OneAd
  MaxOffers = 2
  MaxRestarts = 1
INVARIANTS
  BudgetKept
  NoOrderSeenTooSoon
  FewOrdersTimed
  DelayTypeOK
PROPERTIES
  TradesAreFavorable
  ImportsAreKept
SYMMETRY MCSymmetry
