SPECIFICATION Spec
CONSTANTS
  us = us
  p1 = p1
  p2 = p2
  Self = us
  Partners <- MCPartners
  Specialty = "water"
  Upkeep <- MCUpkeep
  Duration = 5
  MaxOfferTtl = 3
  MaxPublicationTtl = 5
  CommandsPerTick = 1
  MaxRecords = 3
  MaxOpenOffers = 2
  RESERVE_TICKS = 2
  TARGET_TICKS = 4
  BATCH_TICKS = 3
  EMERGENCY_RESERVE = 2
  SEEK_SPECIALTY_TO_TARGET = FALSE
  GiftsKeepReserve = FALSE
  REORDER_TICKS = 3
  OFFER_TTL_TICKS = 2
  Simplified = TRUE
  MaxLatency = 1
  StartStocks <- Few
  StartAds <- MCStartAds
  Productions <- Idle
  PartnerTerms <- Barter
  PartnerAds <- NoMoreAds
  MaxOffers = 3
  MaxRestarts = 0
INVARIANTS
  CommitmentsCovered
  OneOrderPerResource
SYMMETRY MCSymmetry
