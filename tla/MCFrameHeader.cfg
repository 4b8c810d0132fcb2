CONSTANTS
  Links <- MCLinks
  BodySizes <- MCBodySizes
  CharSigned = FALSE
SPECIFICATION Spec
INVARIANTS TypeOK FrameUnderstood ShutdownEndsJava
