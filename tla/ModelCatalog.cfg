SPECIFICATION FairSpec
CONSTANTS
  Threads = {t1, t2}
  Models = {m1}
  Routes = {auto}
  None = None
  MaxTrouble = 3
INVARIANTS
  TypeOK
  OnlyOnceFree
  RefreshIsHonest
PROPERTY CatalogSettles
CHECK_DEADLOCK FALSE
