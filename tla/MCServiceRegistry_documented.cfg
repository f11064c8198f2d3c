SPECIFICATION RegistrySpec
CONSTANTS
  Sessions = {s1}
  Pages = {page}
  Order <- MCOrder
  Provides <- MCProvides
  ServerServices = {"reload_plugins"}
  Others = {"unknown"}
  Files <- MCFiles
  Uris <- MCUris
INVARIANTS
  SelectedServiceIsCalled
