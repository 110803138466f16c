SPECIFICATION Spec
CONSTANTS
  None = None
  s1 = s1
  s2 = s2
  idle = idle
  gone = gone
  Agents = {ag}
  Users <- MCUsers
  Samples <- MCSamples
  Idle <- MCIdle
  Unknown <- MCUnknown
  Requested <- MCRequested
  PathOf <- MCPathOf
  Key <- MCKey
  Banks <- MCBanks
  Assessed = 1
  GrantChoices <- MCGrantChoices
  Actions <- MCActions
  Probes <- MCProbes
  Limits = {0, 1, 3}
  MaxCalls = 3
INVARIANT DenialsRecorded
CHECK_DEADLOCK FALSE
