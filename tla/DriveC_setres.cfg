SPECIFICATION DriveSpec
CONSTANTS
  Launchers = {p}
  Shipped = {"AUTO"}
  Custom = "CUSTOM.IMG"
  Ini = "SHINOGI.INI"
  Sizes = {"1024x768"}
  Default = "1024x768"
  TooLarge = "2560x1440"
  Comment = "# shinogi settings"
  Settings = {"a future setting"}
  Texts <- MCTexts
  NoSize = "none"
  Keep = 64
INVARIANTS
  SettingsSurvive
