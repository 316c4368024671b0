\* Three pipelined lines of any kind, flushed after two.
SPECIFICATION Spec
CONSTANTS
    MaxLines = 3
    Depth = 2
INVARIANTS TypeOK RepliesInOrder TrackerExact
PROPERTIES EveryLineAnswered
