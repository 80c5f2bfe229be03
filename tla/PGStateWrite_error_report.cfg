CONSTANTS
  w1 = w1  w2 = w2  c1 = c1  c2 = c2  p1 = p1  v1 = v1  v2 = v2
  Absent = Absent  NoTx = NoTx  NoRow = NoRow
  Writers <- OneWriter
  Clusters <- MCClusters
  Components <- MCComponents
  Configs <- MCConfigs
  MaxTx = 2
SPECIFICATION Spec
INVARIANT StoreErrorReportedAsStoring
