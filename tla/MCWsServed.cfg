SPECIFICATION Spec
CONSTANTS
  WsClients = {w1}
  HttpClients = {h1}
  w1 = w1
  h1 = h1
  Kinds = {"get_device_state", "get_address", "sign_tx", "bad_tx", "unparsed", "ignored"}
  States <- const_States
  MaxRequests = 2
  MaxEvents = 1
INVARIANTS TypeOK 
PROPERTIES ServedWhileIoReturns
