SPECIFICATION SafeSpec
CONSTANTS
  WsClients = {w1, w2}
  HttpClients = {}
  w1 = w1
  w2 = w2
  Kinds = {"get_address", "sign_tx"}
  States <- const_States
  MaxRequests = 2
  MaxEvents = 1
INVARIANTS ConversationKept OneDialogue BroadcastHeard
 
SYMMETRY Symmetry
