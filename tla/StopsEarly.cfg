CONSTANTS
  Outs = {o1}
  Configs = {c1, c2}
  Off = Off
  Workers = {w1, w2, w3}
  NoWorker = NoWorker
  NotKnown = NotKnown
  MaxEvents = 3
SPECIFICATION Spec
PROPERTIES StopsAfterWorkers
CHECK_DEADLOCK FALSE
