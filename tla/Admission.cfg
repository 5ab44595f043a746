\* Three requests and two slots: one request is admitted at once, two queue,
\* either may cancel, and a request can find the server saturated.  Interval 2
\* tells "just admitted" from "half way" from "due".
SPECIFICATION AdmissionSpec
CONSTANTS
  Requests = {r1, r2, r3}
  Interval = 2
  Limit = 2
INVARIANTS AdmissionTypeOK SpacedGrants QueueIsWaiters NoOvertaking SlotsAreHeld
PROPERTIES SlotsComeBack
