SPECIFICATION Spec
CONSTANTS
  Admin = admin
  Names = {admin, ann}
  Groups = {g1}
  Keys = {k1}
  Outs = {o1}
  Clients = {c1}
  None = None
  Configs <- MCConfigs
  Files <- MCFiles
  MaxEvents = 3
INVARIANTS TeamHasAdministrator NobodyStaysWhoLeft QuietClientsAreCurrent
PROPERTIES SessionsSettle
