CONSTANTS
  AutoConnect = TRUE
  EdgeSwitch = TRUE
  MaxBacklog = 1
SPECIFICATION FairSpec
INVARIANT TypeOK
INVARIANT SuppressionFollowsTarget
INVARIANT MacFollowsTarget
INVARIANT DesktopGivenBack
PROPERTY LostLinkReturnsInput
PROPERTY MacEventuallyReleased
PROPERTY QuitCompletes
CHECK_DEADLOCK FALSE
