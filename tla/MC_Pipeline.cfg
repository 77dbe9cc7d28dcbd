SPECIFICATION Spec
CONSTANTS
  NLines = 2
  NTags = 2
  NAddr = 16
  Modulus = 4
  NReg = 3
  VECTOR = 4
  Fill <- MCFill
  Programs <- MCPrograms
PROPERTIES ProgramSpec PipelineAdvances InterruptTaken
