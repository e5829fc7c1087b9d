CONSTANTS
  Pins = {20, 21, 31, 40}
  Masks = {{21}, {20, 21}, {21, 40}}
  Configs <- AllConfigs
  KernelWrites = 1
SPECIFICATION Spec
INVARIANTS OthersKeepSettings ConfiguredAsAsked EventsNeverMixed
