SPECIFICATION PodsSpec
CONSTANTS
  p1 = p1
  p2 = p2
  p3 = p3
  Pods <- MCPods
  Channels <- MCChannels
  StepOps <- MCStepOps
INVARIANT SomebodyPublishes
CHECK_DEADLOCK FALSE
