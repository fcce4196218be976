SPECIFICATION Spec
CONSTANTS
  MaxTx = 3
  HomeAliases <- Aliases
  BuiltIns <- Own
  KeySize = 6
  Marks <- Separators
  Digits = {"1"}
  MaxDestinations = 2
  Pasts <- AllPasts
  TransitWishes <- SomeTransit
  EfficiencyWishes <- SomeEfficiency
  SorterWishes <- SomeSorter
  ValueWishes <- SomeValue
  ListWishes <- SomeLists
  Slugs = {"c"}
  SiteName <- Central
  Texts <- AllTexts
  Counts <- Everywhere
  Today = 4
INVARIANTS
  IdentitiesAreOne
  DestinationsStand
  FiguresStand
PROPERTY
  OneKeyOnly
CHECK_DEADLOCK FALSE
