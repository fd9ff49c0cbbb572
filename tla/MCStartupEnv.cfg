SPECIFICATION StartupSpec
CONSTANTS
  NoAddress = NoAddress
  NoCreds = NoCreds
  NoContext = NoContext
  NoFile = NoFile
  Contexts = {1, 2}
  Addresses <- MCAddresses
  Typed <- MCTyped
  Creds <- MCCreds
  EnvCreds = {"env creds"}
  ContextFiles <- MCContextFiles
  ConfigFiles <- MCConfigFiles
  BuiltInAddress <- MCBuiltIn
  BundledConfig <- MCBundled
  Localhost <- MCLocalhost
  Uuids <- MCUuids
  Root = "root"
  Trash = "trash"
  Guard = 3
  Libraries <- MCLibraries
INVARIANT EnvCredsWin
CHECK_DEADLOCK FALSE
