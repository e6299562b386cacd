\* Three sleepers and a heap of up to four timeouts, some of them cancelled.
CONSTANTS
  Sleeper = {s1, s2, s3}
  Nobody = Nobody
  MaxTime = 3
  MaxHeap = 4
SPECIFICATION Spec
PROPERTY SkipsToEarliest
