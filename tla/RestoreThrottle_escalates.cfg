\* The values of main.go: 5 minutes, 60 minutes, 5 restores; doze 3 minutes.
SPECIFICATION RoundsFairSpec
CONSTANTS
  Window = 5
  WindowMax = 60
  RestoreMax = 5
  MaxGap = 3
PROPERTY
  WindowEscalates
