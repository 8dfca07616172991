SPECIFICATION Spec
CONSTANTS
  us = us
  p1 = p1
  p2 = p2
  Self = us
  Partners <- MCPartners
  Specialty = "water"
  Upkeep <- MCUpkeep
  Duration = 6
  MaxOfferTtl = 5
  MaxPublicationTtl = 6
  CommandsPerTick = 1
  MaxRecords = 1
  MaxOpenOffers = 2
  RESERVE_TICKS = 3
  TARGET_TICKS = 6
  BATCH_TICKS = 3
  EMERGENCY_RESERVE = 1
  SEEK_SPECIALTY_TO_TARGET = FALSE
  GiftsKeepReserve = FALSE
  REORDER_TICKS = 15
  OFFER_TTL_TICKS = 5
  Simplified = FALSE
  MaxLatency = 2
  StartStocks <- Scarce
  StartAds <- MCStartAds
  Productions <- Idle
  PartnerTerms <- Barter
  PartnerAds <- NoMoreAds
  MaxOffers = 3
  MaxRestarts = 0
INVARIANTS
  CommitmentsCovered
SYMMETRY MCSymmetry
