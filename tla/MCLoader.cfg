SPECIFICATION LoaderSpec
CONSTANTS
  Auth = Auth
  P1 = P1
  P2 = P2
  Spaces = {Auth, P1, P2}
  N = 9
  U32Max = 31
  Boot <- AuthBoot
  Callers = {}
  RetypeTypes = {}
  MaxPerObj = 0
  NewRights = {}
  GrantModes = {}
  MaxObj = 9
  WordMax = 31
  HEADER_LEN = 3
  SEGMENT_LEN = 2
  MANIFEST_LEN = 2
  MAX_SEGMENTS = 2
  MAX_MANIFEST = 3
  PAGE = 2
  MAX_SEGMENT_PAGES = 2
  PROCESS_SLOTS = 5
  L_SCRATCH = 3
  PROC_VA_BASE = 8
  PROC_VA_END = 20
  SHARED_SLOT = 3
  NOTIF_SLOT = 4
  SharedPfn = 20
  NotifId = 7
  Elfs <- Files
  Inputs <- SmallInputs
SYMMETRY Symmetric
INVARIANTS ParseSafe RoundTrip NoAmbientAuthority SegmentsApart ImageLoaded
PROPERTIES LoadsConserve
CHECK_DEADLOCK FALSE
