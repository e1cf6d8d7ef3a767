SPECIFICATION PathSpec
CONSTANTS
  Subjects = {"driver", "sample", "clock", "latch", "snapshot"}
  Attempts = 3
  AccelCount = 2
  GyroCount = 2
  SourceAxes = {0, 1, 2, 3}
  Signs <- PathSigns
  AxisBytes <- PathAxisBytes
  Limit = 31130
  Half = 3
  HighMod = 3
  SeqRange = 4
  MaxSamples = 9
  Readers = {telemetry, foxglove}
  Values = {zero, v1}
  Zero = zero
  MaxDrops = 1
  Words = {w1, w2}
  Imu = imu
  Nobody = nobody
INVARIANTS
  StampExact
  HighWordTracks
  SampleFromConfigured
  OneChipSelected
  FailureHasCause
  BodySampleSound
  NoTornRead
PROPERTIES
  InitTerminates
  DropsNeverGoBack
  ImplementsRegister
  SamplesAccounted
