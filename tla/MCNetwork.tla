------------------------------ MODULE MCNetwork ------------------------------
(* Two devices, three coins two of which may leave the list; two header names, *)
(* one in both cases; two parameters that differ in case.                      *)
EXTENDS Network

const_Coins == {"BIP", "HUB", "MUSD"}
const_CoinLists == {<<"BIP", "HUB", "MUSD">>, <<"MUSD">>}
const_Top == <<"BIP">>
const_Reserve == [c \in const_Coins |-> CASE c = "BIP" -> 1 [] c = "HUB" -> 3 [] c = "MUSD" -> 2]
const_Balances == {<<"default">>, <<"HUB">>}

const_Lower ==
  [n \in {"Content-Length", "Page", "?Page", "POST", "GET"} |->
     CASE n = "Content-Length" -> "content-length" [] n = "Page" -> "page" [] n = "?Page" -> "?page"
       [] n = "POST" -> "post" [] n = "GET" -> "get"]

Q(ask, args) == [ask |-> ask, args |-> args]
const_Questions ==
  UNION {
    {Q("balance", <<a, s>>) : a \in Addresses, s \in {"", "true"}},
    {Q("transactions", <<a, p, 50, t>>) : a \in {"a1"}, p \in {1, 2}, t \in {"", "incoming"}},
    {Q("transaction_at", <<"a1", b>>) : b \in {1, 7}},
    {Q("transactions_of", <<p, "5", e, <<"a1", "a2">>>>) : p \in {0, 2}, e \in {"0", "9"}},
    {Q("validator_txs", <<"k", p, "5", "9">>) : p \in {0, 2}},
    {Q("rewards", <<"a1", s, "", "9">>) : s \in {"", "day"}},
    {Q("pools", <<p>>) : p \in {0, 2}},
    {Q(w, <<"0", "1", "1", t>>) : w \in {"route", "estimate"}, t \in {"input", "output"}},
    {Q(w, <<"0", "1">>) : w \in {"pool", "providers"}},
    {Q(w, <<"a1">>) : w \in {"delegated", "providers_of", "nonce", "transaction", "coin_by_id", "search",
                            "validator", "tx_commission"}},
    {Q(w, <<"0", "1", "a1">>) : w \in {"provider", "exchange_buy", "exchange_sell"}},
    {Q(w, <<>>) : w \in {"validators", "status", "status_page", "coins", "min_gas", "price_commissions"}},
    {Q("send_tx", <<tx>>) : tx \in {"t1", "t2"}}}
==============================================================================
