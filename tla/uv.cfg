SPECIFICATION FairSpec
CONSTANTS
  Launchers = {l1, l2}
  Platforms = {"posix", "win32"}
INVARIANTS RunsWhatIsThere OutlivesChild
PROPERTIES SignalEndsLauncher EveryInstallEnds
CHECK_DEADLOCK FALSE
