SPECIFICATION Spec
CONSTANTS
  MaxThreads = 2
  Autostart = TRUE
PROPERTY RestartedIsReady
