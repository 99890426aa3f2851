SPECIFICATION ControlsSpec
INVARIANT RunsWhilePhysicallyHeld
