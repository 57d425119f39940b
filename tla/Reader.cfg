SPECIFICATION HSpec
CONSTANTS
  Id = {1, 2, 3}
  Country = {"IT"}
  CountryOf <- McOneCountry
  Today = {1, 3}
  PageLimit = 1
  MaxLoads = 2
  MaxToggles = 2
  MaxRequests = 3
  MaxDeletes = 1
  Null = Null
  New = New
  Gone = Gone
INVARIANTS
  TypeOK
  Coupling
  SettledPageAgrees
  ConfirmedIsStored
  PagesComplete
PROPERTIES
  LateAnswerKeepsSidebar
