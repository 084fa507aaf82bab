SPECIFICATION Spec
CONSTANTS
  RawMaps <- MCRawMaps
  ReservationLists <- MCReservationLists
  PageSize = 2
  MaxAddress = 15
  CONVERTED_DESCRIPTOR_CAPACITY = 5
  RESERVATION_CAPACITY = 2
INVARIANTS
  ConvertedMapIsExact
  ReservationsAreCovered
  RefusedForAReason
