SPECIFICATION RegistrySpec
CONSTANTS
  Sessions = {s1, s2}
  Pages = {page}
  Order <- MCOrder
  Provides <- MCProvides
  ServerServices = {"reload_plugins"}
  Others = {}
  Files <- MCFiles
  Uris <- MCUris
SYMMETRY MCSymmetry
INVARIANTS
  SelectsFirstProvider
  FailsForACause
  ServerServicesSurvive
  UriNamesFile
