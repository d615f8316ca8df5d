SPECIFICATION ConsumedSpec
CONSTANTS
  Names = {app}
  MaxAdds = 1
  Capacity = 1
  MaxLines = 2
PROPERTIES TailsFiles
CHECK_DEADLOCK FALSE
