SPECIFICATION Spec
CONSTANTS
  Keys = {97, 255}
  MaxKeys = 3
  ForeignWords = {}
  MaxOverrun = 0
  Programs <- PollPrograms
PROPERTIES
  KeyboardStatusReported
