--------------------------- MODULE MCTcpConnection ---------------------------
EXTENDS TcpConnection
==============================================================================
