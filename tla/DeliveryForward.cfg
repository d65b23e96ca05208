SPECIFICATION Spec
CONSTANTS
  m1 = m1
  s1 = s1
  s2 = s2
  r1 = r1
  r2 = r2
  NoConn = NoConn
  Messages <- OneMessage
  SenderConns <- OneSocket
  RecipientConns <- OneTab
PROPERTIES
  NoForwardAfterDelete
