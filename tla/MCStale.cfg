CONSTANTS
  Messages = {1}
  Authed = {1}
  Workers = {w1, w2}
  MaxAttempts = 2
  NoMessage = 0
SPECIFICATION Spec
PROPERTY SweptWorkerChangesNothing
