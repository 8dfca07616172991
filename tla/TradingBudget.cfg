SPECIFICATION Spec
CONSTANTS
  us = us
  p1 = p1
  p2 = p2
  Self = us
  Partners <- MCPartners
  Specialty = "water"
  Upkeep <- MCUpkeep
  Duration = 5
  MaxOfferTtl = 6
  MaxPublicationTtl = 5
  CommandsPerTick = 2
  MaxRecords = 2
  MaxOpenOffers = 2
  RESERVE_TICKS = 3
  TARGET_TICKS = 6
  BATCH_TICKS = 3
  EMERGENCY_RESERVE = 1
  SEEK_SPECIALTY_TO_TARGET = FALSE
  GiftsKeepReserve = FALSE
  REORDER_TICKS = 15
  OFFER_TTL_TICKS = 5
  Simplified = FALSE
  MaxLatency = 1
  StartStocks <- Tight
  StartAds <- MCStartAds
  Productions <- Idle
  PartnerTerms <- Gifts1
  PartnerAds <- NoMoreAds
  MaxOffers = 3
  MaxRestarts = 0
INVARIANTS
  WithdrawalHasBudget
SYMMETRY MCSymmetry
