CONSTANTS
  MaxData = 3
  MethodBits = {"BASE64_NO_NL"}
SPECIFICATION Spec
INVARIANT TypeOK
INVARIANT RetryFlagsDescribeLastCall
INVARIANT CallerOutcomeCorrect
PROPERTY CallerTerminates
