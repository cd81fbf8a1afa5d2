CONSTANTS
  Builds = {1, 2}
  MaxVersion = 19
  MaxEdits = 2
  Edited <- MCEdited
  Seen <- MCSeen
  Wrapper <- MCWrapper
  Source <- MCSource
  Requested = {"build", "clean_build"}
  Pin = "pinned"
SPECIFICATION MCSpec
INVARIANTS
  ArtifactIsOfItsSnapshot
  WhatRanWasApproved
  KeptAsAnswered
  LeavesNothingRunning
PROPERTY
  EveryBuildIsAnswered
