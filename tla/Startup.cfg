CONSTANTS
  W = 24
  EnvNames <- MCEnvNames
  Deployments <- MCDeployments
SPECIFICATION Spec
INVARIANTS
  SettingsSound
  NothingPulledAway
CHECK_DEADLOCK FALSE
