---------------------------- MODULE Repositories -----------------------------
(***************************************************************************)
(* explorer_repo and gate_repo: the questions they ask and the request     *)
(* each is made into, and what defer_task makes of the reply.  A question  *)
(* is the name of the method and its arguments, as strings.                *)
(***************************************************************************)
EXTENDS HttpRequest

CONSTANT
  Questions  \* the questions asked

\* The addresses that transactions are asked for come as a list.
ASSUME QuestionsAssumption == \A q \in Questions : q.ask = "transactions_of" => q.args[4] \in Seq(STRING)

VARIABLE
  question   \* the one the request was made for, <<>> if it was made by hand

Explorer == [proto |-> "https", host |-> "explorer", port |-> "", path |-> "/api/v2/", params |-> <<>>]
Gate == [Explorer EXCEPT !.host = "gate"]

GateQuestions ==
  {"min_gas", "nonce", "price_commissions", "tx_commission", "exchange_buy", "exchange_sell", "send_tx"}

\* What add_path is given, one after the other: questions to the gate, about
\* coins and pools, validators, and accounts and their transactions.
GateSegments(q) ==
  CASE q.ask = "min_gas"           -> <<"min_gas_price">>
    [] q.ask = "nonce"             -> <<"nonce", q.args[1]>>
    [] q.ask = "price_commissions" -> <<"price_commissions">>
    [] q.ask = "tx_commission"     -> <<"estimate_tx_commission", q.args[1]>>
    [] q.ask = "exchange_buy"      -> <<"estimate_coin_buy">>
    [] q.ask = "exchange_sell"     -> <<"estimate_coin_sell">>
    [] q.ask = "send_tx"           -> <<"send_transaction">>

CoinSegments(q) ==
  LET a == q.args IN
  CASE q.ask = "pools"             -> <<"pools">>
    [] q.ask = "route"             -> <<"pools/coins", a[1], a[2], "route">>
    [] q.ask = "estimate"          -> <<"pools/coins", a[1], a[2], "estimate">>
    [] q.ask = "pool"              -> <<"pools/coins", a[1], a[2]>>
    [] q.ask = "providers"         -> <<"pools/coins", a[1], a[2], "providers">>
    [] q.ask = "provider"          -> <<"pools/coins", a[1], a[2], "providers", a[3]>>
    [] q.ask = "providers_of"      -> <<"pools/providers", a[1]>>
    [] q.ask \in {"coins", "search"} -> <<"coins">>
    [] q.ask = "coin_by_id"        -> <<"coins/id", a[1]>>
    [] OTHER                       -> GateSegments(q)

ChainSegments(q) ==
  CASE q.ask = "validators"        -> <<"validators">>
    [] q.ask = "validator"         -> <<"validators", q.args[1]>>
    [] q.ask = "validator_txs"     -> <<"validators", q.args[1], "transactions">>
    [] q.ask = "status"            -> <<"status">>
    [] q.ask = "status_page"       -> <<"status-page">>
    [] OTHER                       -> CoinSegments(q)

Segments(q) ==
  LET a == q.args IN
  CASE q.ask = "balance"           -> <<"addresses", a[1]>>
    [] q.ask \in {"transactions", "transaction_at"} -> <<"addresses", a[1], "transactions">>
    [] q.ask = "transactions_of"   -> <<"transactions">>
    [] q.ask = "transaction"       -> <<"transactions", a[1]>>
    [] q.ask = "delegated"         -> <<"addresses", a[1], "delegations">>
    [] q.ask = "rewards"           -> <<"addresses", a[1], "statistics/rewards">>
    [] OTHER                       -> ChainSegments(q)

\* A parameter that is left out when it has no value.
Optional(key, value) == IF value \in {"", "0"} THEN <<>> ELSE <<<<key, value>>>>

\* The slip of getters that lose their parameters.
NoQueries(q) == <<>>

\* What add_query is given; pages and the blocks of one address as numbers.
Queries(q) ==
  LET a == q.args IN
  CASE q.ask = "balance"         -> Optional("withSum", a[2])
    [] q.ask = "transactions"    -> <<<<"page", ToString(a[2])>>, <<"limit", ToString(a[3])>>>> \o Optional("send_type", a[4])
    [] q.ask = "transaction_at"  -> <<<<"start_block", ToString(a[2])>>, <<"end_block", ToString(a[2])>>>>
    [] q.ask = "transactions_of" -> Optional("page", ToString(a[1])) \o Optional("start_block", a[2]) \o Optional("end_block", a[3])
                                    \o [i \in DOMAIN a[4] |-> <<"addresses[]", a[4][i]>>]
    [] q.ask = "validator_txs"   -> Optional("page", ToString(a[2])) \o Optional("start_block", a[3]) \o Optional("end_block", a[4])
    [] q.ask = "rewards"         -> Optional("scale", a[2]) \o Optional("startTime", a[3]) \o Optional("endTime", a[4])
    [] q.ask = "pools"           -> Optional("page", ToString(a[1]))
    [] q.ask \in {"route", "estimate"} -> <<<<"amount", a[3]>>, <<"type", a[4]>>>>
    [] q.ask = "search"          -> <<<<"symbol", a[1]>>>>
    [] q.ask = "exchange_buy"    -> <<<<"coin_id_to_sell", a[1]>>, <<"value_to_buy", a[2]>>, <<"coin_id_to_buy", a[3]>>>>
    [] q.ask = "exchange_sell"   -> <<<<"coin_id_to_sell", a[1]>>, <<"value_to_sell", a[2]>>, <<"coin_id_to_buy", a[3]>>>>
    [] OTHER -> <<>>

\* create_request and what the method calls on it; send_tx sets header, method
\* and body too.
Created(q) == ParseUrl(NewRequest, IF q.ask \in GateQuestions THEN Gate ELSE Explorer)
Typed(q) ==
  IF q.ask = "send_tx"
    THEN [Created(q) EXCEPT !.headers = SetHeader(@, "content-type", "json"), !.method = "post"]
    ELSE Created(q)
Path(path, segments) == FoldLeft(AddedPath, path, segments)
Asked(q) ==
  LET queried == [Typed(q) EXCEPT !.path = Path(@, Segments(q)), !.params = @ \o Queries(q)]
  IN IF q.ask = "send_tx" THEN SetBody(queried, q.args[1]) ELSE queried

\* What cpr is given of a request: the headers are gathered and left behind.
Wire(r) == [url |-> Url(r), method |-> r.method, body |-> IF r.method = "post" THEN r.body ELSE ""]

\* defer_task: a reply is an error of the transport or not, and a text; a text
\* that came is read even then.  Two errors count as one.
Replies == [error : BOOLEAN, text : {"", "garbled", "another", "refusal", "data"}]
Task(r, reply) ==
  CASE r.method \notin {"get", "post"}             -> "error"
    [] reply.text \in {"", "garbled", "another"}   -> "error"
    [] OTHER                                       -> reply.text

\* A repository makes a request for a question.
Ask(q) ==
  /\ steps = 0 /\ steps' = MaxSteps
  /\ request' = Asked(q) /\ question' = q

RequestInit == request = ParseUrl(NewRequest, Explorer) /\ steps = 0 /\ question = <<>>
RequestStep == (RequestCall /\ UNCHANGED question) \/ (\E q \in Questions : Ask(q))

-----------------------------------------------------------------------------
\* What goes over the wire tells which question was asked, and with which
\* arguments: none of them is lost or taken for another.
QuestionsTold ==
  question # <<>> =>
    \A q \in Questions : Wire(Asked(q)) = Wire(request) => q.ask = question.ask /\ q.args = question.args
==============================================================================
