\* Desired and observed resources of one deployment, edited and repaired.
CONSTANTS
  CpusVals = {"0.1", "1", "1.0005", "NaN", "x"}
  MemoryVals = {"100", "100.0", "x"}
  PortsVals = {"1", "01", "2", "2.0", "3000000000"}
  OtherKey = "disk"
  OtherVals = {"a", "b"}
SPECIFICATION Spec
INVARIANT TypeOK
INVARIANT SameResourcesAreEqual
PROPERTY RepairKeepsScheduledResources
