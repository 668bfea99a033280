\* Two lobbies, two players fill a room, orders and one fault.
SPECIFICATION FairSpec
CONSTANTS
  N = 2
  Full = 2
  Most = 3
  Orders <- FewOrders
  MaxFaults = 1
INVARIANTS TypeOK Advertised
PROPERTIES Served RoomElsewhere NoSurplus
