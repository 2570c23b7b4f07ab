SPECIFICATION Spec
CONSTANTS
  MaxAttempts = 3
PROPERTIES InterruptedWaitsForUser
