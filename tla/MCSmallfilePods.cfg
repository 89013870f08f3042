SPECIFICATION PodsFairSpec
CONSTANTS
  p1 = p1
  p2 = p2
  p3 = p3
  Pods <- MCPods
  Channels <- MCChannels
  StepOps <- MCStepOps
INVARIANTS
  PodsInv
  NoDropWhileMeasuring
  MeasuredTogether
PROPERTIES
  ImplementsBarrier
  EveryPodEnds
  CalmPodsFinish
CHECK_DEADLOCK FALSE
