\* Three players and a bot; the room is full with two.
SPECIFICATION Spec
CONSTANTS
  Humans = {1001, 1002, 1003}
  Bots = {1}
  Garbage = 0
  Options <- MCOptions
  SpecKinds = {"up", "forcedown", "stop"}
  Full = 2
  MaxAge = 2
INVARIANTS TypeOK StatsTruthful AdminInside
PROPERTIES AdminStays PlayersNotKicked MatchNotBroken
