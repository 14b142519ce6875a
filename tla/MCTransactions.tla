--------------------------- MODULE MCTransactions ----------------------------
(* One device; BIP is sold, HUB or HUBABUBA bought; HUB may leave the list. *)
EXTENDS Transactions

const_Coins == {"BIP", "HUB", "HUBABUBA"}
const_CoinLists == {<<"BIP", "HUB", "HUBABUBA">>, <<"BIP", "HUBABUBA">>}
const_Top == <<"BIP">>
const_Reserve == [c \in const_Coins |-> CASE c = "BIP" -> 1 [] c = "HUB" -> 3 [] c = "HUBABUBA" -> 2]

Item(coin, amount, pool) == [coin |-> coin, amount |-> amount, pool |-> pool]
const_Balances == {<<Item("BIP", "1", FALSE), Item("HUB", "1", FALSE)>>,
                   <<Item("HUB", "1", FALSE), Item("LP", "1", TRUE), Item("BIP", "2", FALSE)>>}
const_Typed ==
  [buy |-> [coin_to_buy |-> {"HUB"}, coin_to_sell |-> {"BIP"}, amount |-> {"", "1"}, limit |-> {""}],
   sell |-> [coin_to_buy |-> {"HUB"}, coin_to_sell |-> {"BIP"}, amount |-> {"", "1"}, limit |-> {"", "1"}],
   sellAll |-> [coin_to_buy |-> {"HUB"}, coin_to_sell |-> {"BIP"}, limit |-> {""}]]
const_MaxAsked == [buy |-> 2, sell |-> 1, sellAll |-> 1]
const_Prefixes ==
  [buy |-> {<<"HUB", "HUB">>, <<"HUB", "HUBABUBA">>},
   sell |-> {<<"BIP", "BIP">>},
   sellAll |-> {<<"HUB", "HUBABUBA">>}]
==============================================================================
