------------------------------ MODULE Network --------------------------------
(***************************************************************************)
(* What goes over the network: ConsoleApp with the calls it makes, or one  *)
(* request while it is put together, by a repository or by hand.  The two  *)
(* share no state, so a behaviour looks at one of them.                    *)
(***************************************************************************)
EXTENDS ConsoleCalls

VARIABLE part  \* which of the two

requestVars == <<request, steps, question>>
vars == <<consoleVars, requestVars, part>>

Init == part \in {"console", "request"} /\ ConsoleInit /\ RequestInit

Next ==
  /\ UNCHANGED part
  /\ \/ part = "console" /\ ConsoleStep /\ UNCHANGED requestVars
     \/ part = "request" /\ RequestStep /\ UNCHANGED consoleVars

Spec == Init /\ [][Next]_vars

-----------------------------------------------------------------------------
TypeOK == ConsoleTypeOK /\ RequestTypeOK

\* The index finds each coin of the last list, whatever lists came before it.
FoundIfListed == \A c \in Listed(coins) : HasCoin(c) /\ Found(c) = c

\* What the console's window says of address and balances has its reason in the
\* answers that came, in whatever order they did.
ShownExplained == CallsAreOwn /\ LabelsAreTrue /\ StatusIsTrue

\* A request holds what its calls put into it, but for the headers, and tells
\* the question it was made for.
RequestsExplained == HeadersOfOneName /\ RemovalIsOfOne /\ QuestionsTold
==============================================================================
