\* Two workers, so that a stale one and a live one share a message; a message with a
\* conversation and one without, so that one waits behind the other; two attempts each.
CONSTANTS
  Messages = {1, 2}
  Authed = {1}
  Workers = {w1, w2}
  MaxAttempts = 2
  NoMessage = 0
SPECIFICATION FairSpec
ACTION_CONSTRAINT ShellsWatchOne
INVARIANTS
  TypeOK
  AttemptHasOneWorker
  NoEarlyAbandonment
  ShownIsFinal
  StreamMirrorsTable
  NudgedOnceSettled
PROPERTIES KeepsGuarantee EveryMessageSettles
