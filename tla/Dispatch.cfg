CONSTANTS
  c1 = c1
  c2 = c2
  Clients <- MCClients
  None = none
  Threads = {t1, t2}
  Services <- MCServices
  Methods = {"makeOrder"}
  Messages <- MCMessages
  Randoms <- MCRandoms
  SetIds <- MCSetIds
  MaxCalls <- MCMaxCalls
  g_msg_id_length = 2
  Nine = 1
SPECIFICATION Spec
INVARIANTS
  TypeOK
  StampsOwnRequest
  CalledIfCallable
PROPERTIES
  OnlyNinesRepeat
  CallReturns
CHECK_DEADLOCK FALSE
