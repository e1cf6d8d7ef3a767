SPECIFICATION MCSpec
CONSTANTS
  Subjects = {"text"}
  Blocks = {b1}
  Events = {e1}
  NoEvent = NoEvent
  NoBlock = NoBlock
  MaxDrops = 0
  Values = {0, 12345}
  Capacities = {192}
  BufferSize = 192
  ConsoleSize = 128
INVARIANT FieldsPrinted
