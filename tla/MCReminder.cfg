\* Two symbiots, a worker with two attempts at one message, two sweeps and the terse
\* routes, over two reminders and two lines.
CONSTANTS
  ann = ann
  bob = bob
  Symbiots = {ann, bob}
  Messages = {1}
  Sender <- MCSender
  Workers = {w1}
  Sweeps = {s1, s2}
  Lines = {tea, call}
  MaxReminders = 2
  Horizon = 1
  Window = 0
  MaxAttempts = 2
  None = None
SPECIFICATION FairSpec
INVARIANTS
  TypeOK
  SaidAsItStands
  OneReminderPerMessage
PROPERTIES KeepsPromise DueFires
