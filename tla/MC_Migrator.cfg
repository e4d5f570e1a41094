SPECIFICATION Spec
CONSTANTS
  Service = {"booking", "client", "staff", "analytics"}
  Top <- MCTop
  Atomic = {"staff"}
  Whole = {"booking", "client"}
  Once <- MCOnce
  Needs <- MCNeeds
  Undoes <- MCUndoes
  Idle = Idle
INVARIANTS
  RecordsMatch
  NoHoles
  UpIsRefusedTornOnly
  UpMeansComplete
