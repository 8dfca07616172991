SPECIFICATION Spec
CONSTANTS
  us = us
  p1 = p1
  p2 = p2
  Self = us
  Partners <- MCPartners
  Specialty = "water"
  Upkeep <- MCUpkeep
  Duration = 5
  MaxOfferTtl = 6
  MaxPublicationTtl = 5
  CommandsPerTick = 1
  MaxRecords = 4
  MaxOpenOffers = 2
  RESERVE_TICKS = 3
  TARGET_TICKS = 6
  BATCH_TICKS = 3
  EMERGENCY_RESERVE = 2
  SEEK_SPECIALTY_TO_TARGET = FALSE
  GiftsKeepReserve = FALSE
  REORDER_TICKS = 15
  OFFER_TTL_TICKS = 5
  Simplified = FALSE
  MaxLatency = 1
  StartStocks <- Enough
  StartAds <- MCStartAds
  Productions <- Idle
  PartnerTerms <- BothWays
  PartnerAds <- NoMoreAds
  MaxOffers = 3
  MaxRestarts = 0
INVARIANTS
  SpecialtyRescueAccepted
SYMMETRY MCSymmetry
