\* Two readers, of which the first takes adc_lock.
SPECIFICATION FairAdcSpec
CONSTANTS
  Reader = {r1, r2}
  NoReader = NoReader
PROPERTY ReadReturns
