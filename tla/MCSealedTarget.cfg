CONSTANTS
  worker = worker extra = extra numpy = numpy python = python manifest = manifest
  spec = spec profile = profile slicer = slicer good = good bad = bad
  AppFile <- MCAppFile
  RuntimeFile <- MCRuntimeFile
  Asset <- MCAsset
  SlicerFile <- MCSlicerFile
  OtherFile <- MCOtherFile
  Manifest = manifest
  Content <- MCContent
  Absent = Absent
  None = None
  Approved <- MCApproved
  Lists <- MCLists
  Importable <- MCAppFile
  Source = {worker, numpy}
  Checkout <- MCCheckout
  Cached <- MCCached
  Parts <- MCParts
  CommonParts = 5
  Preloaded = {python}
  SlicerProgram = slicer
  DesignInput = {spec}
  ProfileInput = {profile}
  PolicyInput = {profile}
  MaxEdits = 2
SPECIFICATION Spec
INVARIANTS FingerprintIsAMoment UsedIsAccepted
