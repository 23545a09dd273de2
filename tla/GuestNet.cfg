SPECIFICATION MCSpec
CONSTANTS
  NAT = "nat"
  Lans = {"lan", "other lan"}
  Legacy <- MCLegacy
  Hooked <- MCHooked
  Custom <- MCCustom
  HookOf <- MCHookOf
  Mentioning <- MCMentioning
  Edited = {"edited"}
  Foreign = {"foreign"}
  NoFile = "none"
  Odd = "odd"
  Own = "own"
  Broken = "broken"
  Ids = {i1, i2, i3}
  Products = {"Shinogi", "ARAnyM"}
  NoId = NoId
  MaxBoots = 2
  Procs = {p, q}
  Folders = {"D", "U"}
  Images = {"hd"}
  SlotOrder <- MCSlots
  Reserved = "U"
  Paths = {"x", "y", "z", "i"}
  NoPath = ""
  Dirs = {"dx", "dy"}
  Raws = {"img"}
  Nothing = "nothing"
  Scenes <- MCScenes
  Eths = {"e"}
  Taps = {"t"}
  NoGuid = "none"
  Sizes = {"1", "2", "3"}
  Default = "3"
  Bad = "bad"
  Words = {"w", "v"}
  Inis <- MCInis
  MaxActs = 4
  Entered <- MCEntered
  Apps = {shinogi, aranym}
  Nics = {n1, n2}
  NoNic = NoNic
  Bridges = {b1, b2}
  NoBridge = NoBridge
SYMMETRY Alike
INVARIANTS
  SetupTypeOK
  UserTextKept
  EveryDeviceOwned
  NoObjectTwice
  BridgesOwned
  EthernetKept
PROPERTIES
  BootAsSelected
  NetAtomic
  OthersUntouched
  IniKept
