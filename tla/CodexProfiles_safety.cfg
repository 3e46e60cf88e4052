CONSTANTS
  Names <- TwoNames
  Logins <- Team
  Kept <- SomeLogins
  Before = {"home"}
  Agents = {1, 2, 3, 4, 5}
  Runs = {1, 2}
  MaxEvents = 2
SPECIFICATION ProfilesSpec
 
 
PROPERTY DeletedEnds
