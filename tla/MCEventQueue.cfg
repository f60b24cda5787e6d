\* Three EventQueues: the writers of q1 and q2 run BindWriter and share
\* one transport and its serializing mutex; q3's writer runs
\* BindWriterUnlocked, alone on its transport.  Two producers enqueue two
\* events each.  Writers blocked in Dequeue on a queue nobody stops are how
\* the code ends, so deadlock is not an error here.
CONSTANTS
  p1 = p1
  p2 = p2
  q1 = q1
  q2 = q2
  q3 = q3
  None = None
  Producers <- MCProducers
  Queues <- MCAllQueues
  Serialized <- MCQueues
  MaxEvents = 2
SPECIFICATION Spec
CHECK_DEADLOCK FALSE
PROPERTY ChannelRefinement
