SPECIFICATION HSpec
CONSTANTS
  Id = {1, 2, 3}
  Country = {"IT", "FR"}
  CountryOf <- McTwoCountries
  Today = {2, 3}
  PageLimit = 1
  MaxLoads = 2
  MaxToggles = 2
  MaxRequests = 3
  MaxDeletes = 1
  Null = Null
  New = New
  Gone = Gone
INVARIANT
  SidebarIsInList
