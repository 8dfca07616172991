SPECIFICATION Spec
CONSTANTS
  us = us
  p1 = p1
  p2 = p2
  Self = us
  Partners <- MCPartners
  Specialty = "water"
  Upkeep <- MCUpkeep
  Duration = 7
  MaxOfferTtl = 2
  MaxPublicationTtl = 5
  CommandsPerTick = 2
  MaxRecords = 3
  MaxOpenOffers = 2
  RESERVE_TICKS = 4
  TARGET_TICKS = 7
  BATCH_TICKS = 8
  EMERGENCY_RESERVE = 1
  SEEK_SPECIALTY_TO_TARGET = TRUE
  GiftsKeepReserve = TRUE
  REORDER_TICKS = 15
  OFFER_TTL_TICKS = 5
  Simplified = FALSE
  MaxLatency = 1
  StartStocks <- Extremes
  StartAds <- Renewing
  Productions <- Idle
  PartnerTerms <- InBulk
  PartnerAds <- MoreSellers
  MaxOffers = 2
  MaxRestarts = 1
INVARIANTS
  GiftsSpareTheReserve
SYMMETRY MCSymmetry
