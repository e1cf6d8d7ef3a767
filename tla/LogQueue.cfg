SPECIFICATION MCSpec
CONSTANTS
  Subjects = {"queue", "text"}
  Blocks = {b1, b2}
  Events = {e1, e2}
  NoEvent = NoEvent
  NoBlock = NoBlock
  MaxDrops = 1
  Values = {0, 100, 2147483647}
  Capacities = {1, 40, 192}
  BufferSize = 192
  ConsoleSize = 128
INVARIANTS
  QueueIntact
  LineIsWhole
PROPERTIES
  EventsAreDrained
  ImplementsLossyLog
