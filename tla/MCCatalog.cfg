SPECIFICATION CatalogFairSpec
CONSTANTS
  Source <- MCSource
  Specs <- MCSpecs
  StorageMaps <- MCStorageMaps
  NetworkMaps <- MCNetworkMaps
  TargetNamespace = "target"
  Cluster <- MCCluster
  MaxChanges = 3
INVARIANTS ReadyIsBuildable DisksKeepTheirPlaces UsedProviderStays
PROPERTIES DeletedProviderGoes PlanGetsVerdict
CHECK_DEADLOCK FALSE
