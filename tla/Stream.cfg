SPECIFICATION FairSpec
CONSTANTS
  s1 = s1
  c1 = c1
  c2 = c2
  c3 = c3
  Subs <- OneSub
  Calls <- ThreeCalls
  MaxDelay = 4
  MaxMessages = 2
INVARIANTS TypeOK RegistryMatchesConnector NoOrphan FailedOnlyIfOverlapped
PROPERTIES UnsubscribeAnswers RetriesUntilUnsubscribed ImplementsLifecycle
