\* Two messages over HTTP, one over TCP and a signal, on three threads.
SPECIFICATION Spec
CONSTANTS
  http1 = http1
  http2 = http2
  tcp1 = tcp1
  HttpThreads <- MCHttpThreads
  TcpThreads <- MCTcpThreads
  MaxHttp = 2
  MaxTcp = 1
  MaxSignals = 1
INVARIANTS TypeOK OwnReply OnlyTogetherKills Stops
SYMMETRY Symmetry
