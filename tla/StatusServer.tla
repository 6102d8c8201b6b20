---------------------------- MODULE StatusServer ----------------------------
(***************************************************************************)
(* HttpServer of peerq/transport.py with the routes of StatusServer of     *)
(* peerq/exporter.py.  The pages are rendered without an await, so that a  *)
(* page is a snapshot; what it says of the metrics is in Metrics.          *)
(*                                                                         *)
(* Every connection has a handler of its own, and handlers share nothing:  *)
(* each client has one connection at a time.  What arrives is a choice of  *)
(* the client; a line of the head costs at least one byte of the budget    *)
(* max_http_headers.  The handler gives way at every read, at the drain of *)
(* an answer, and when it waits for its writer to close.                   *)
(***************************************************************************)
EXTENDS Naturals, Sequences

CONSTANTS
    Clients,          \* those that connect
    Token,            \* an auth_token is configured
    HeadSize,         \* max_http_headers, in lines of one byte
    MaxConnects       \* bound: connections of a client

ASSUME StatusAssumption ==
    Token \in BOOLEAN /\ HeadSize \in Nat \ {0} /\ MaxConnects \in Nat

VARIABLES
    listening,  \* the server accepts connections
    stage,      \* stage[c]: where the handler of the connection of c waits
    head,       \* head[c]: header_bytes
    request,    \* request[c]: what the handler knows of the request
    answers,    \* answers[c]: the status and the kind of what was written
    failed,     \* history: failed[c], the drain of the first answer failed
    connects    \* connects[c]: connections of c so far

statusVars == <<listening, stage, head, request, answers, failed, connects>>

Stages == {"none", "line", "headers", "body", "drain", "last", "shut"}
Methods == {"GET", "POST"}
Paths == {"/", "/metrics", "/status", "/healthz", "/other"}
Lengths == {"zero", "invalid", "some", "large"}

NoRequest == [method |-> "GET", path |-> "/other", token |-> FALSE, length |-> "zero"]

StatusInit ==
    /\ listening = TRUE
    /\ stage = [c \in Clients |-> "none"]
    /\ head = [c \in Clients |-> 0]
    /\ request = [c \in Clients |-> NoRequest]
    /\ answers = [c \in Clients |-> <<>>]
    /\ failed = [c \in Clients |-> FALSE]
    /\ connects = [c \in Clients |-> 0]

-----------------------------------------------------------------------------

(* _write_response up to its drain.  In the body of try a drain that fails   *)
(* goes to an except clause; there, it ends the handler.                     *)
Write(c, answer, place) ==
    /\ answers' = [answers EXCEPT ![c] = Append(@, answer)]
    /\ stage' = [stage EXCEPT ![c] = place]

Answer(c, status) == Write(c, [status |-> status, page |-> FALSE], "drain")

(* except TimeoutError, the clause for a malformed request or a lost         *)
(* connection, and the one for everything else.  The second writes the body  *)
(* that the handler had chosen last.                                         *)
OnTimeout(c) == Write(c, [status |-> 408, page |-> FALSE], "last")
OnMalformed(c) ==
    Write(c, [status |-> 400,
              page |-> answers[c] # <<>> /\ answers[c][1].page], "last")
OnException(c) == Write(c, [status |-> 500, page |-> FALSE], "last")

(* _handle_request of StatusServer *)
HandleRequest(r) ==
    IF r.method # "GET" THEN 405 ELSE IF r.path = "/other" THEN 404 ELSE 200

(* Mutant: the token is asked for after the page *)
Route_TokenLast(c, r) ==
    LET status == HandleRequest(r)
    IN  CASE r.length = "invalid" -> Answer(c, 400)
          [] r.length = "large" -> Answer(c, 413)
          [] r.length = "some" -> stage' = [stage EXCEPT ![c] = "body"] /\ UNCHANGED answers
          [] r.length = "zero" /\ status = 200 ->
                 Write(c, [status |-> 200, page |-> TRUE], "drain")
          [] OTHER -> IF Token /\ ~r.token THEN Answer(c, 401) ELSE Answer(c, status)

(* What follows the head: the token (which cannot be compared if it is not   *)
(* ASCII), the length, the body, the page.  A page that is too large is      *)
(* replaced by an error; one of the node may also fail to be rendered.       *)
Route(c, r) ==
    LET status == HandleRequest(r)
    IN  CASE Token /\ ~r.token -> Answer(c, 401) \/ OnException(c)
          [] (Token => r.token) /\ r.length = "invalid" -> Answer(c, 400)
          [] (Token => r.token) /\ r.length = "large" -> Answer(c, 413)
          [] (Token => r.token) /\ r.length = "some" ->
                 stage' = [stage EXCEPT ![c] = "body"] /\ UNCHANGED answers
          [] OTHER ->
                 \/ Write(c, [status |-> status, page |-> status = 200], "drain")
                 \/ /\ status = 200 /\ r.path # "/healthz"
                    /\ Answer(c, 500) \/ OnMalformed(c) \/ OnException(c)

-----------------------------------------------------------------------------

Connect(c) ==
    /\ listening /\ stage[c] = "none"
    /\ connects[c] < MaxConnects
    /\ connects' = [connects EXCEPT ![c] = @ + 1]
    /\ stage' = [stage EXCEPT ![c] = "line"]
    /\ answers' = [answers EXCEPT ![c] = <<>>]
    /\ failed' = [failed EXCEPT ![c] = FALSE]
    /\ UNCHANGED <<listening, head, request>>

(* The request line.  The reader itself refuses a line that is longer than   *)
(* the limit; one that exceeds it by the line feed only is seen by the code. *)
RequestLine(c, method, path) ==
    /\ stage[c] = "line"
    /\ stage' = [stage EXCEPT ![c] = "headers"]
    /\ head' = [head EXCEPT ![c] = 1]
    /\ request' = [request EXCEPT ![c] = [NoRequest EXCEPT !.method = method, !.path = path]]
    /\ UNCHANGED <<listening, answers, failed, connects>>

BadRequestLine(c) ==
    /\ stage[c] = "line"
    /\ Answer(c, 431) \/ Answer(c, 400)
    /\ UNCHANGED <<listening, head, request, failed, connects>>

(* The client hangs up before it has sent anything. *)
NoRequestLine(c) ==
    /\ stage[c] = "line"
    /\ stage' = [stage EXCEPT ![c] = "shut"]
    /\ UNCHANGED <<listening, head, request, answers, failed, connects>>

(* What one header line makes of the request: it sets the token, the length, *)
(* or neither.  The last one of its kind counts.                             *)
Changed(r) ==
    {[r EXCEPT !.token = t] : t \in BOOLEAN} \cup {[r EXCEPT !.length = l] : l \in Lengths}

(* Mutant: every header is measured by itself *)
Header_NoSum(c, r) ==
    /\ stage[c] = "headers"
    /\ request' = [request EXCEPT ![c] = r]
    /\ UNCHANGED <<listening, stage, head, answers, failed, connects>>

(* Mutant: the budget may be exceeded by one *)
Header_OffByOne(c, r) ==
    /\ stage[c] = "headers"
    /\ head' = [head EXCEPT ![c] = @ + 1]
    /\ \/ /\ head[c] <= HeadSize
          /\ request' = [request EXCEPT ![c] = r]
          /\ UNCHANGED <<stage, answers>>
       \/ /\ head[c] > HeadSize
          /\ Answer(c, 431)
          /\ UNCHANGED request
    /\ UNCHANGED <<listening, failed, connects>>

(* One more header, which may set the token or the length; or the budget is  *)
(* spent.                                                                    *)
Header(c, r) ==
    /\ stage[c] = "headers"
    /\ head' = [head EXCEPT ![c] = @ + 1]
    /\ \/ /\ head[c] + 1 <= HeadSize
          /\ request' = [request EXCEPT ![c] = r]
          /\ UNCHANGED <<stage, answers>>
       \/ /\ head[c] + 1 > HeadSize
          /\ Answer(c, 431)
          /\ UNCHANGED request
    /\ UNCHANGED <<listening, failed, connects>>

BadHeader(c) ==
    /\ stage[c] = "headers" /\ head[c] + 1 <= HeadSize
    /\ Answer(c, 400)
    /\ UNCHANGED <<listening, head, request, failed, connects>>

(* The blank line ends the head, or the end of the stream, which costs       *)
(* nothing.                                                                  *)
EndOfHead(c) ==
    /\ stage[c] = "headers"
    /\ Route(c, request[c])
    /\ UNCHANGED <<listening, head, request, failed, connects>>

Body(c) ==
    /\ stage[c] = "body"
    /\ Answer(c, 400)
    /\ UNCHANGED <<listening, head, request, failed, connects>>

(* Mutant: a read that fails ends the handler without a word *)
ReadFails_Silent(c) ==
    /\ stage[c] \in {"line", "headers", "body"}
    /\ \/ OnTimeout(c)
       \/ stage' = [stage EXCEPT ![c] = "shut"] /\ UNCHANGED answers
    /\ UNCHANGED <<listening, head, request, failed, connects>>

(* A read times out, finds a line that is too long or the end of the stream  *)
(* in the body, or the connection is lost.                                   *)
ReadFails(c) ==
    /\ stage[c] \in {"line", "headers", "body"}
    /\ OnTimeout(c) \/ OnMalformed(c)
    /\ UNCHANGED <<listening, head, request, failed, connects>>

Drained(c) ==
    /\ stage[c] \in {"drain", "last"}
    /\ stage' = [stage EXCEPT ![c] = "shut"]
    /\ UNCHANGED <<listening, head, request, answers, failed, connects>>

(* The client does not read, or the connection is lost, while an answer of   *)
(* the body of try is drained.                                               *)
StatusDrainFails(c) ==
    /\ stage[c] = "drain"
    /\ OnTimeout(c) \/ OnMalformed(c)
    /\ failed' = [failed EXCEPT ![c] = TRUE]
    /\ UNCHANGED <<listening, head, request, connects>>

(* close() and wait_closed(): the rest is sent, or the connection is lost. *)
Shut(c) ==
    /\ stage[c] = "shut"
    /\ stage' = [stage EXCEPT ![c] = "none"]
    /\ head' = [head EXCEPT ![c] = 0]
    /\ request' = [request EXCEPT ![c] = NoRequest]
    /\ UNCHANGED <<listening, answers, failed, connects>>

(* stop: handlers that run go on. *)
Stop ==
    /\ listening
    /\ listening' = FALSE
    /\ UNCHANGED <<stage, head, request, answers, failed, connects>>

-----------------------------------------------------------------------------

StatusHandlerStep(c) ==
    \/ \E m \in Methods, p \in Paths : RequestLine(c, m, p)
    \/ BadRequestLine(c) \/ NoRequestLine(c)
    \/ \E r \in Changed(request[c]) : Header(c, r)
    \/ BadHeader(c) \/ EndOfHead(c)
    \/ Body(c) \/ ReadFails(c)
    \/ Drained(c) \/ StatusDrainFails(c)
    \/ Shut(c)

StatusNext ==
    \/ \E c \in Clients : Connect(c) \/ StatusHandlerStep(c)
    \/ Stop

StatusSpec == StatusInit /\ [][StatusNext]_statusVars

(* Every read and every drain has a timeout.  wait_closed has none, and      *)
(* nothing is assumed of a handler that is there.                            *)
StatusFairness ==
    \A c \in Clients : WF_statusVars(stage[c] # "shut" /\ StatusHandlerStep(c))

-----------------------------------------------------------------------------

StatusTypeOK ==
    /\ listening \in BOOLEAN
    /\ stage \in [Clients -> Stages]
    /\ head \in [Clients -> 0 .. HeadSize + 1]
    /\ request \in [Clients -> [method : Methods, path : Paths, token : BOOLEAN,
                                length : Lengths]]
    /\ \A c \in Clients : answers[c] \in Seq([status : 200..500, page : BOOLEAN])
    /\ failed \in [Clients -> BOOLEAN]
    /\ connects \in [Clients -> 0..MaxConnects]

(* A client is answered once: a second answer is only written behind one     *)
(* whose drain failed, it reports an error, and nobody who has sent a        *)
(* request line is left without an answer (the except clauses and the        *)
(* finally clause of _handle_client).                                        *)
AnsweredOnce ==
    \A c \in Clients :
        /\ Len(answers[c]) = 2 => failed[c] /\ answers[c][2].status \in {400, 408}
        /\ Len(answers[c]) <= 2
        /\ stage[c] = "shut" /\ head[c] > 0 => answers[c] # <<>>

(* Nothing of the node is shown, not even behind an error, unless the        *)
(* request carried the token, was a GET and had no body: the checks of       *)
(* _handle_client come in the right order.                                   *)
PageNeedsToken ==
    \A c \in Clients : stage[c] # "none" =>
        \A i \in DOMAIN answers[c] : answers[c][i].page =>
            /\ Token => request[c].token
            /\ request[c].length = "zero" /\ request[c].method = "GET"

(* Every request comes to an end, also that of a client who sends header     *)
(* after header, each in time, or who does not read the answer: the handler  *)
(* gets to writer.close().  How long wait_closed then holds it is up to the  *)
(* client (the timeouts and the sum header_bytes of _handle_client).         *)
RequestsEnd == \A c \in Clients : stage[c] # "none" ~> stage[c] \in {"shut", "none"}

=============================================================================
