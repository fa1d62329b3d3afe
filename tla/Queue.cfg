SPECIFICATION Spec
CONSTANTS
  user = user
  consumer = consumer
  producer = producer
  Threads = {user, consumer, producer}
  Entries = {3, 4, 5}
  Calls <- MCCalls
  Careful = TRUE
INVARIANTS
  TakesEnd
  
  
PROPERTIES
  LockFree
