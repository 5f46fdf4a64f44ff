\* Reordered faults and recoveries, two consumers, one foreign change.
CONSTANTS
  Events = {"f1", "f2", "r1", "r2"}
  Payloads <- StoryPayloads
  Messages <- StoryMessages
  PayloadOf <- StoryPayloadOf
  None = None
  MinOccurrences = 1
  RecoveryMin = 2
  Consumers = {c1, c2}
  MaxAttempts = 1
  MaxDeliveries = 1
  MaxChanges = 1
SPECIFICATION PipelineSpec
SYMMETRY ConsumerSymmetry
INVARIANTS CausalHead CausalResolution
PROPERTIES AppliesAtomically
CHECK_DEADLOCK FALSE
