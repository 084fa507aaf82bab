SPECIFICATION BootSpec
CONSTANTS
  RawMaps <- MCRawMaps
  ReservationLists <- MCReservationLists
  Layouts <- MCLayouts
  PageSize = 2
  MaxAddress = 31
  CONVERTED_DESCRIPTOR_CAPACITY = 16
  RESERVATION_CAPACITY = 10
INVARIANTS
  KernelCanTrustTheMap
