INIT Init
NEXT Next
CONSTANTS
  Threads = {t1, t2, t3}
  NoThread = NoThread
  MaxHandles = 2
SYMMETRY Symmetry
INVARIANTS
  NoMapRace
  OneParsePerEngine
  FreedHandleAnswersNothing
PROPERTIES
  CallsAreAtomic
  HandlesAreFresh
