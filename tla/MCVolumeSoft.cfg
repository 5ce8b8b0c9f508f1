\* The volume of a sink that has no card.
CONSTANTS
  Sinks = {"dac_sink", "network"}
  Platform = {}
  Card <- MCCard
  Sources = {"mic"}
  None = None
  NoDevice = "No device"
  Sliders = {0}
  Limits = {255}
  MaxChanges = 0
  MaxInputs = 3
  MaxRestarts = 0
SPECIFICATION Spec
INVARIANT SoftWithoutCard
CHECK_DEADLOCK FALSE
