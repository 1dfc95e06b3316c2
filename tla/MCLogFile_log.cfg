SPECIFICATION Spec
CONSTANTS
    w1 = w1
    w2 = w2
    NoLine = NoLine
    Writers <- TwoWriters
    m_split_lines = 2
    max_queue_size = 1
    MaxLines = 3
    MaxDay = 2
INVARIANT TypeOK
INVARIANT EveryLineOnce
INVARIANT FilesAreBounded
INVARIANT FlushedIsOnDisk
CHECK_DEADLOCK FALSE
