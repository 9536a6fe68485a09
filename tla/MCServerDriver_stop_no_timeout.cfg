CONSTANTS
  w1 = w1
  w2 = w2
  w3 = w3
  c1 = c1
  c2 = c2
  c3 = c3
  Workers = {w1, w2}
  Conns = {c1, c2}
  Fds = {3, 4}
  ListenFd = 3
  AcceptTimesOut = FALSE
SPECIFICATION FairSpec
PROPERTY StopCompletes
