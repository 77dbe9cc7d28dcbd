SPECIFICATION Spec
CONSTANTS
  Arenas <- MCArenas
  Requests = {0, 1, 20, 60}
INVARIANTS ChainsSound
PROPERTIES HeapSpec
