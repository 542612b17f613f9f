SPECIFICATION Spec
CONSTANTS
  x = x
  y = y
  z = z
  t = t
  Work = Work
  Away = Away
  Temp = Temp
  hf = hf
  lf = lf
  sb = sb
  f1 = f1
  f2 = f2
  NoPath = NoPath
  NoStore = NoStore
  NoManifest = NoManifest
  NoObject = 0
  Folder = {Work, Away, Temp}
  Path = {x, y, z, t}
  Sessions = {t}
  Layer = {hf, lf, sb}
  Source = {f1, f2}
  Object = {1, 2}
  FolderOf <- MCFolderOf
  SourceOf <- MCSourceOf
  MainOf <- MCMainOf
  Plans <- PlansShared
PROPERTIES
  KeptUntilDeleted
CHECK_DEADLOCK FALSE
