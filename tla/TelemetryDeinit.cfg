SPECIFICATION MCSpec
CONSTANTS
  Subjects = {"link"}
  SeqMod = 2
  MaxDrops = 0
  NoFrame = NoFrame
  Samples = {}
  Damages = {}
  NonFinite = NonFinite
  SeqRange = 3
  MaxFrames = 0
  MaxDamage = 0
  Chunks = {}
PROPERTY DeinitReturns
