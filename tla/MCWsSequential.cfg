SPECIFICATION Spec
CONSTANTS
  WsClients = {w1}
  HttpClients = {}
  w1 = w1
  Kinds = {"get_address", "sign_tx"}
  States <- const_States
  MaxRequests = 2
  MaxEvents = 1
PROPERTIES ResultsSequential
