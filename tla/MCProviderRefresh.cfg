SPECIFICATION CatalogSpec
CONSTANTS
  Source <- MCSource
  Specs <- MCSpecs
  StorageMaps <- MCStorageMaps
  NetworkMaps <- MCNetworkMaps
  TargetNamespace = "target"
  Cluster <- MCCluster
  MaxChanges = 0
PROPERTIES RefreshesOnInterval
CHECK_DEADLOCK FALSE
