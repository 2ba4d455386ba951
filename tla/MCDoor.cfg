\* Two symbiots, three requests at once, two codes, two sessions, two wrong guesses a
\* code, two hits in a window of one second of two ticks.
SPECIFICATION Spec
SYMMETRY Alike
CONSTANTS
  Symbiots = {ann, bob}
  Threads = {t1, t2, t3}
  MAX_VERIFY_ATTEMPTS = 2
  Limit = 2
  Window = 1
  Grain = 2
  MaxCodes = 2
  MaxSessions = 2
  None = None
INVARIANTS
  TypeOK
  LiveWasMailed
  SpentForASession
  BudgetHolds
  WaitSuffices
CHECK_DEADLOCK FALSE
