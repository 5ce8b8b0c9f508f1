\* The hardware, the Bluetooth popup, the audio devices and the
\* configuration, each by itself.
CONSTANTS
  Machines <- MCMachines
  HatSets <- MCHatSets
  MaxFaults = 2
  ScansWith <- MCScansWith
  PhonesWith <- MCPhonesWith
  AdaptersWith <- MCAdaptersWith
  DevicesWith <- MCDevicesWith
  ListeningWith <- MCListeningWith
  SettingsWith <- MCSettingsWith
  None = None
SPECIFICATION PlatformSpec
INVARIANTS
  PlatformTypeOK LockedAsSeen ShownAsFitted VisibleAsChosen ListsFollow
  PreferenceKept HeardAsSet SettingsKept
PROPERTIES ComesUp NamesArrive ChannelsAsSet
\* The program ends, and users and servers reach their bounds.
CHECK_DEADLOCK FALSE
