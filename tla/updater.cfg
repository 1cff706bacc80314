SPECIFICATION Spec
CONSTANTS
  gui = gui
  runtime = runtime
  script = script
  guide = guide
  manifest = manifest
  Files <- Release
  Required = {gui, runtime, script}
  MaxFailures = 2
INVARIANTS AllOrNothing RunsOnWhole
CHECK_DEADLOCK FALSE
