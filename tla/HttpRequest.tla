----------------------------- MODULE HttpRequest -----------------------------
(***************************************************************************)
(* io_container and base_request: a request as its callers put it          *)
(* together, one method at a time.  QString::compare gives 0 for equal     *)
(* strings; the header methods (and method_from_string) take its result    *)
(* for "equal", so they find the headers with ANOTHER name.  The query     *)
(* methods compare with == 0 and find the keys they are given.             *)
(***************************************************************************)
EXTENDS Naturals, Sequences, SequencesExt, FiniteSets, TLC

CONSTANTS
  Names,      \* of headers, in the case they are written in
  Keys,       \* of query parameters
  Values,     \* of both
  Lower,      \* of the strings with capitals and some others, how they are written without
  Paths,      \* what add_path, set_path are given
  MaxSteps    \* bound: calls made on one request

Lowered(s) == IF s \in DOMAIN Lower THEN Lower[s] ELSE s

ASSUME StepsAssumption == MaxSteps \in Nat
ASSUME NamesAssumption == \A n \in Names : Lowered(n) \in Names /\ Lowered(Lowered(n)) = Lowered(n)

VARIABLES
  request,   \* m_method, m_path, m_params, m_headers, m_body and where it goes
  steps      \* calls made on it

NewRequest ==
  [method |-> "get", proto |-> "http", host |-> "", port |-> "80", path |-> "/",
   params |-> <<>>, headers |-> <<>>, body |-> ""]

\* The port of a url, or the one of its protocol when it names none.
PortOf(url, port) ==
  CASE url.port # ""                        -> url.port
    [] url.port = "" /\ url.proto = "https" -> "443"
    [] url.port = "" /\ url.proto = "ftp"   -> "20"
    [] OTHER                                -> port

\* parse_url, given what its pattern finds, <<>> when it does not match.
ParseUrl(r, url) ==
  IF url = <<>> THEN r
  ELSE [r EXCEPT !.proto = url.proto, !.host = url.host, !.path = url.path,
                 !.port = PortOf(url, @), !.params = @ \o url.params]

-----------------------------------------------------------------------------
\* Headers: pairs of a name and a value.
Compared(a, b) == Lowered(a) # Lowered(b)
Matching(headers, name) == {i \in DOMAIN headers : Compared(headers[i][1], name)}

\* add_header(name, value), which writes the name in lower case, and add_header(kv&&).
AddHeader(headers, name, value) ==
  IF Matching(headers, name) = {} THEN Append(headers, <<Lowered(name), value>>)
  ELSE [headers EXCEPT ![Min(Matching(headers, name))][2] = value]
MoveHeader(headers, name, value) ==
  IF Matching(headers, name) = {} THEN Append(headers, <<name, value>>)
  ELSE [headers EXCEPT ![Min(Matching(headers, name))][2] = value]

\* A value put into the pairs at some places.
Put(pairs, places, value) == [i \in DOMAIN pairs |-> IF i \in places THEN <<pairs[i][1], value>> ELSE pairs[i]]

\* The slip of a comparison with == 0.
SetHeaderOfName(headers, name, value) ==
  LET same == {i \in DOMAIN headers : ~Compared(headers[i][1], name)} IN
  IF same = {} THEN Append(headers, <<name, value>>) ELSE Put(headers, same, value)

\* set_header: the value goes to each header found.
SetHeader(headers, name, value) ==
  IF Matching(headers, name) = {} THEN MoveHeader(headers, name, value)
  ELSE Put(headers, Matching(headers, name), value)

\* add_headers and set_headers(map), of two: one after the other.
AddHeaders(headers, kv, next) == AddHeader(AddHeader(headers, kv[1], kv[2]), next[1], next[2])

\* has_header, find_header_pair, get_header_value, cmp_header_value.
HasHeader(headers, name) == Matching(headers, name) # {}
HeaderValue(headers, name) == IF HasHeader(headers, name) THEN headers[Min(Matching(headers, name))][2] ELSE ""

\* set_body.
SetBody(r, body) ==
  [r EXCEPT !.body = body, !.headers = SetHeader(@, "Content-Length", ToString(Len(body)))]

-----------------------------------------------------------------------------
\* Query parameters: pairs of a key and a value.
SameKey(a, b, icase) == IF icase THEN Lowered(a) = Lowered(b) ELSE a = b
At(params, key, icase) == {i \in DOMAIN params : SameKey(params[i][1], key, icase)}

\* Of places in a sequence the one with i before it; what stands at them.
Nth(places, i) == CHOOSE p \in places : Cardinality({q \in places : q < p}) = i
Of(s, places) == [i \in 1..Cardinality(places) |-> s[Nth(places, i - 1)]]

AddQuery(r, key, value) == [r EXCEPT !.params = Append(@, <<key, value>>)]

SetQuery(params, key, value, icase) == Put(params, At(params, key, icase), value)

RemoveQuery(params, key, icase) == Of(params, DOMAIN params \ At(params, key, icase))

\* The slip of a removal that counts from one.
RemoveQueryArrayFromOne(params, key, index, icase) ==
  LET places == At(params, key, icase) IN
  IF index \notin 1..Cardinality(places) THEN params ELSE RemoveAt(params, Nth(places, index - 1))

\* remove_query_array: the value with that index among those of the key.
RemoveQueryArray(params, key, index, icase) ==
  LET places == At(params, key, icase) IN
  IF index >= Cardinality(places) THEN params ELSE RemoveAt(params, Nth(places, index))

\* get_query_array; has_query and get_query_value look at its first.
QueryArray(params, key, icase) ==
  LET of == Of(params, At(params, key, icase)) IN [i \in DOMAIN of |-> of[i][2]]

\* parse_query: of a string that begins with a question mark it is the last
\* letter that is cut off.
ParseQuery(r, marked, key, value) ==
  IF marked THEN AddQuery(r, "?" \o key, SubSeq(value, 1, Len(value) - 1)) ELSE AddQuery(r, key, value)

\* method_from_string: whatever is not "post" in some case is post.
MethodFromString(name) == IF Compared(name, "post") THEN "post" ELSE "put"

-----------------------------------------------------------------------------
\* The path is a string; here too chopped(1) takes the end of the argument away.
Begins(path) == Len(path) > 0 /\ SubSeq(path, 1, 1) = "/"
Ends(path) == Len(path) > 0 /\ SubSeq(path, Len(path), Len(path)) = "/"

SetPath(r, path) == [r EXCEPT !.path = IF Len(path) > 1 /\ ~Begins(path) THEN "/" \o path ELSE path]

AddedPath(path, segment) ==
  LET base == IF path = "" THEN "/" ELSE path IN
  IF segment \in {"", "/"} THEN path
  ELSE CASE Begins(segment) /\ Ends(base)   -> base \o SubSeq(segment, 1, Len(segment) - 1)
         [] ~Begins(segment) /\ ~Ends(base) -> base \o "/" \o segment
         [] OTHER                           -> base \o segment
AddPath(r, segment) == [r EXCEPT !.path = AddedPath(@, segment)]

\* get_url_string, with the parameters as they are.
Url(r) ==
  <<r.proto, r.host, IF r.port \in {"80", "443"} THEN "" ELSE r.port,
    IF r.path = "" THEN "/" ELSE r.path, r.params>>

-----------------------------------------------------------------------------
\* One call on the request.
Called(r) == steps < MaxSteps /\ request' = r /\ steps' = steps + 1

HeaderCall ==
  \/ \E n \in Names, v \in Values :
       \E hs \in {AddHeader(request.headers, n, v), MoveHeader(request.headers, n, v), SetHeader(request.headers, n, v)} :
          Called([request EXCEPT !.headers = hs])
  \/ \E n, o \in Names, v, w \in Values :
       Called([request EXCEPT !.headers = AddHeaders(@, <<n, v>>, <<o, w>>)])
  \/ Called([request EXCEPT !.headers = <<>>])
  \/ \E b \in Values : Called(SetBody(request, b))
  \/ Called([request EXCEPT !.body = ""])

QueryCall ==
  \/ \E k \in Keys, v \in Values :
       \/ Called(AddQuery(request, k, v))
       \/ \E marked \in BOOLEAN : Called(ParseQuery(request, marked, k, v))
       \/ \E icase \in BOOLEAN : Called([request EXCEPT !.params = SetQuery(@, k, v, icase)])
  \/ \E k \in Keys, icase \in BOOLEAN :
       \/ Called([request EXCEPT !.params = RemoveQuery(@, k, icase)])
       \/ \E i \in 0..1 : Called([request EXCEPT !.params = RemoveQueryArray(@, k, i, icase)])
  \/ Called([request EXCEPT !.params = <<>>])

TargetCall ==
  \/ \E p \in Paths : Called(AddPath(request, p)) \/ Called(SetPath(request, p))
  \/ \E n \in DOMAIN Lower : Called([request EXCEPT !.method = MethodFromString(n)])

RequestCall == HeaderCall \/ QueryCall \/ TargetCall

RequestTypeOK ==
  /\ DOMAIN request = DOMAIN NewRequest /\ steps \in 0..MaxSteps
  /\ request.method \in {"get", "post", "put"}
  /\ \A i \in DOMAIN request.headers : Len(request.headers[i]) = 2
  /\ \A i \in DOMAIN request.params : Len(request.params[i]) = 2

\* The header methods never let two names into one list: the name that came first
\* keeps the list for itself and is given the values of all the others.
HeadersOfOneName ==
  \A i, j \in DOMAIN request.headers : Lowered(request.headers[i][1]) = Lowered(request.headers[j][1])

\* Removing one value of a key leaves its other values, in order, and the other keys.
RemovesOne(params, k, i, icase) ==
  LET left == RemoveQueryArray(params, k, i, icase)
      before == QueryArray(params, k, icase)
  IN /\ QueryArray(left, k, icase) = (IF i < Len(before) THEN RemoveAt(before, i + 1) ELSE before)
     /\ RemoveQuery(left, k, icase) = RemoveQuery(params, k, icase)
RemovalIsOfOne == \A k \in Keys, i \in 0..2, icase \in BOOLEAN : RemovesOne(request.params, k, i, icase)
==============================================================================
