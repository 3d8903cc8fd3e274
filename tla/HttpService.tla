---------------------------- MODULE HttpService ----------------------------
(***************************************************************************)
(* evpphttp::Service on one connection: Service::OnMessage and             *)
(* RequestHandler, HttpRequest (the parser's callbacks) and HttpResponse,  *)
(* over the parser of HttpParser.  The peer's bytes arrive in pieces of    *)
(* any size in PieceSizes, or all at once; a registered callback answers   *)
(* at once, later on the loop's thread, or on a thread of its own, and     *)
(* with a body of known length or in chunks.  The connection is TCPConn as *)
(* the service uses it (see TCPConn): Send and Close are done in place on  *)
(* the loop's thread, and from another thread each of them looks at or     *)
(* stores the status and posts a functor.  In mode "parser" the same bytes *)
(* go to a bare parser whose callbacks do not pause it.                    *)
(***************************************************************************)
EXTENDS HttpParser, SequencesExt, TLC

CONSTANTS
  Inputs,        \* sequences of messages [wire, want] for the service
  ParserInputs,  \* the same for the bare parser
  PieceSizes,    \* sizes of the pieces that the bytes arrive in
  Registered     \* the URL paths with a registered callback

VARIABLES
  mode,      \* "service" or "parser"
  setting,   \* how the registered callback answers each request (when), chunked,
             \* and the parser's type
  input,     \* the messages that the peer sends
  sent,      \* how many of their bytes have been read
  conn,      \* the connection: its status, buffer and context, and what was done on it
  parser,    \* mode "parser": the parser, and what its callbacks were told
  told

vars == <<mode, setting, input, sent, conn, parser, told>>

Wire == FoldLeft(LAMBDA w, x : w \o x.wire, "", input)

----------------------------------------------------------------------------
(* HttpRequest *)

NoRequest == [none |-> TRUE]

NewHttpRequest ==
  [parser |-> Parser("HTTP_REQUEST"), field_value |-> <<>>, body |-> "", field |-> "",
   value |-> "", url |-> "", pre_state |-> "s_dead", completed |-> FALSE, continued |-> FALSE]

UrlOf(hr, f) == UrlField(hr.url, ParseUrl(hr.url, TRUE).u, f)

(* MUTANT: a name that comes in pieces is overwritten by its last piece. *)
OnField_Overwrites(hr, data, state) == [hr EXCEPT !.field = data, !.pre_state = state]

OnField(hr, data, state) ==
  [hr EXCEPT !.field = IF hr.pre_state = "s_header_field" THEN @ \o data ELSE data,
             !.pre_state = state]

(* The value is stored at the end of its line only. *)
OnValue(hr, data, state) ==
  LET v == IF hr.pre_state = "s_header_value" THEN hr.value \o data ELSE data IN
  IF state = "s_header_almost_done"
    THEN [hr EXCEPT !.field_value = (hr.field :> v) @@ @, !.field = "", !.value = "",
                    !.pre_state = state]
    ELSE [hr EXCEPT !.value = v, !.pre_state = state]

OnCallback(hr, c) ==
  CASE c.on = "url" -> [hr EXCEPT !.url = @ \o c.data]
    [] c.on = "header_field" -> OnField(hr, c.data, c.state)
    [] c.on = "header_value" -> OnValue(hr, c.data, c.state)
    [] c.on = "body" -> [hr EXCEPT !.body = @ \o c.data]
    [] c.on = "message_complete" -> [hr EXCEPT !.completed = TRUE]
    [] OTHER -> hr

(* HttpRequest::Parse: [hr, buf, ok, sound]; an error retrieves nothing. *)
Parsed(hr, buf, x) ==
  LET ok == x.p.http_errno \in {"OK", "PAUSED"}
  IN [hr |-> FoldLeft(OnCallback, [hr EXCEPT !.parser = x.p], x.cb), ok |-> ok,
      buf |-> IF ok THEN SubSeq(buf, x.used + 1, Len(buf)) ELSE buf, sound |-> x.sound]

Parse(hr, buf) == Parsed(hr, buf, Execute(hr.parser, buf, TRUE))

----------------------------------------------------------------------------
(* HttpResponse *)

ToLower(s) ==
  LET f[k \in 0..Len(s)] == IF k = 0 THEN "" ELSE f[k - 1] \o Lower(SubSeq(s, k, k)) IN f[Len(s)]

ConnectionIs(hr, key) ==
  "Connection" \in DOMAIN hr.field_value /\ ToLower(hr.field_value["Connection"]) = key

NewHttpResponse(hr) ==
  LET odd == hr.parser.http_major > 9 \/ hr.parser.http_minor > 9
  IN [major |-> IF odd THEN 1 ELSE hr.parser.http_major,
      minor |-> IF odd THEN 1 ELSE hr.parser.http_minor,
      close |-> ConnectionIs(hr, "close"), keep_alive |-> ConnectionIs(hr, "keep-alive")]

(* MUTANT: the connection of HTTP/1.0 is not closed. *)
MakeHttpResponse_StaysOpen(resp, code, chunked) ==
  IF code = 400
    THEN [code |-> code, major |-> resp.major, length |-> FALSE, chunked |-> FALSE, close |-> TRUE]
    ELSE [code |-> code, major |-> resp.major, chunked |-> chunked /\ resp.major = 1,
          length |-> ~chunked /\ resp.major = 1 /\ ~resp.close /\ (resp.minor # 0 \/ resp.keep_alive),
          close |-> resp.close]

(* MakeHttpResponse: how the end of the reply can be told (a Content-Length,
   the last chunk), and whether the connection is closed after it. *)
MakeHttpResponse(resp, code, chunked) ==
  LET close == resp.close \/ (resp.minor = 0 /\ ~resp.keep_alive)
  IN CASE code = 400 -> [code |-> code, major |-> resp.major, length |-> FALSE, chunked |-> FALSE,
                         close |-> TRUE]
       [] code # 400 /\ resp.major = 1 ->
            [code |-> code, major |-> 1, length |-> ~close /\ ~chunked, chunked |-> chunked,
             close |-> close]
       [] OTHER -> [code |-> code, major |-> resp.major, length |-> FALSE, chunked |-> FALSE,
                    close |-> resp.close]

(* A reply names the request it answers by its place in handled. *)
Reply(resp, code, chunked, to) ==
  [to |-> to] @@
  IF code = 100 THEN [code |-> 100, major |-> resp.major, length |-> FALSE, chunked |-> FALSE,
                      close |-> FALSE]
  ELSE MakeHttpResponse(resp, code, chunked)

(* The Sends of SendReply; only the body of a 200 is not empty. *)
Parts(r) ==
  LET body == IF r.code # 200 THEN <<>>
              ELSE IF r.chunked THEN <<"size", "data", "crlf">> ELSE <<"data">>
      names == <<"head">> \o body \o IF r.chunked THEN <<"end">> ELSE <<>>
  IN [i \in 1..Len(names) |-> [r |-> r, part |-> names[i]]]

(* SendReply on the loop's thread: Send and Close are done in place. *)
SendReply(c, resp, code, chunked, to) ==
  LET r == Reply(resp, code, chunked, to) IN
  IF c.status # "kConnected" THEN c
  ELSE [c EXCEPT !.out = @ \o Parts(r), !.open = ~r.close,
                 !.status = IF r.close THEN "kDisconnected" ELSE @]

----------------------------------------------------------------------------
(* Service *)

Default404(c, resp, to) == SendReply(c, resp, 404, FALSE, to)

(* The registered callback, or the default one, on the last request. *)
Answer(c, resp) ==
  LET to == Len(c.handled) IN
  IF Last(c.handled).path \notin Registered THEN Default404(c, resp, to)
  ELSE IF setting.when[to] = "now" THEN SendReply(c, resp, 200, setting.chunked, to)
  ELSE [c EXCEPT !.pending = @ \cup {[resp |-> resp, to |-> to]}]

Handle(c, hr) ==
  LET req == [method |-> hr.parser.method, path |-> UrlOf(hr, "PATH"), query |-> UrlOf(hr, "QUERY"),
              headers |-> hr.field_value, body |-> hr.body]
  IN Answer([c EXCEPT !.handled = Append(@, req)], NewHttpResponse(hr))

(* RequestHandler, once it has parsed: [c, hr, ret]. *)
Respond(c, x) ==
  LET k == [c EXCEPT !.buf = x.buf, !.sound = @ /\ x.sound]
      to == Len(c.handled) + 1
      expects == "Expect" \in DOMAIN x.hr.field_value /\ ~x.hr.continued
  IN IF ~x.ok
       THEN [c |-> SendReply(k, NewHttpResponse(x.hr), 400, FALSE, to), hr |-> x.hr, ret |-> -1]
     ELSE IF x.hr.completed THEN [c |-> Handle(k, x.hr), hr |-> x.hr, ret |-> 0]
     ELSE IF expects
       THEN [c |-> SendReply(k, NewHttpResponse(x.hr), 100, FALSE, to),
             hr |-> [x.hr EXCEPT !.continued = TRUE], ret |-> 1]
     ELSE [c |-> k, hr |-> x.hr, ret |-> 1]

RequestHandler(c, hr) == Respond(c, Parse(hr, c.buf))

(* while (buf->size() > 0), and what follows the handler in it. *)
RECURSIVE NewRequests(_)
AfterRequest(x) ==
  IF x.ret < 0 THEN x.c
  ELSE IF x.ret > 0 THEN [x.c EXCEPT !.context = x.hr]
  ELSE NewRequests(x.c)
NewRequests(c) ==
  IF c.buf = "" THEN c ELSE AfterRequest(RequestHandler(c, NewHttpRequest))

(* OnMessage: the request that the last bytes left open goes on first. *)
AfterContext(x) ==
  IF x.ret # 0 THEN [x.c EXCEPT !.context = x.hr]
  ELSE NewRequests([x.c EXCEPT !.context = NoRequest])
OnMessage(c) ==
  IF c.context = NoRequest THEN NewRequests(c)
  ELSE AfterContext(RequestHandler(c, c.context))

----------------------------------------------------------------------------
(* pending: the requests that a callback has still to answer; threads: the replies
   that a thread is sending; queue: the functors it has posted; open: HandleClose has
   not run.  Histories: out, what SendInLoop took; late, a thread stored kDisconnecting
   after the connection was down; struck, a thread did so in the middle of a reply
   that the loop was sending. *)
NewConn ==
  [status |-> "kConnected", open |-> TRUE, buf |-> "", context |-> NoRequest, handled |-> <<>>,
   pending |-> {}, threads |-> {}, queue |-> <<>>, out |-> <<>>, sound |-> TRUE,
   late |-> FALSE, struck |-> FALSE]

Init ==
  /\ \/ mode = "service" /\ input \in Inputs
     \/ mode = "parser" /\ input \in ParserInputs
  /\ setting \in IF mode = "service"
                   THEN [when : [1..Len(input) -> {"now", "later", "thread"}], chunked : BOOLEAN,
                         type : {"HTTP_REQUEST"}]
                   ELSE [when : {<<>>}, chunked : {FALSE},
                         type : {"HTTP_REQUEST", "HTTP_RESPONSE", "HTTP_BOTH"}]
  /\ sent = 0
  /\ conn = NewConn
  /\ parser = Parser(setting.type)
  /\ told = <<>>

----------------------------------------------------------------------------
(* A thread that answers. *)

AnswersOn(p, where) == setting.when[p.to] = where

(* IsConnected, at the beginning of SendReply. *)
BeginReply ==
  /\ \E p \in conn.pending :
       /\ AnswersOn(p, "thread")
       /\ LET r == Reply(p.resp, 200, setting.chunked, p.to)
              s == [r |-> r, at |-> "test", left |-> Parts(r)]
          IN conn' = [conn EXCEPT !.pending = @ \ {p},
                                  !.threads = IF conn.status = "kConnected" THEN @ \cup {s}
                                              ELSE @]
  /\ UNCHANGED <<mode, setting, input, sent, parser, told>>

(* After a Send comes the next one, the Close or the end. *)
Sent(c, s) ==
  LET left == Tail(s.left)
      rest == IF left # <<>> THEN {[s EXCEPT !.at = "test", !.left = left]}
              ELSE IF s.r.close THEN {[s EXCEPT !.at = "close", !.left = <<>>]} ELSE {}
  IN [c EXCEPT !.threads = (@ \ {s}) \cup rest]

(* TCPConn::Send on another thread: the test of the status, and the post. *)
SendTest ==
  /\ \E s \in conn.threads :
       /\ s.at = "test"
       /\ conn' = IF conn.status # "kConnected" THEN Sent(conn, s)
                  ELSE [conn EXCEPT !.threads = (@ \ {s}) \cup {[s EXCEPT !.at = "post"]}]
  /\ UNCHANGED <<mode, setting, input, sent, parser, told>>

SendPost ==
  /\ \E s \in conn.threads :
       /\ s.at = "post"
       /\ conn' = Sent([conn EXCEPT !.queue = Append(@, Head(s.left))], s)
  /\ UNCHANGED <<mode, setting, input, sent, parser, told>>

(* TCPConn::Close on another thread: the store, whatever the status is, and the post. *)
Stored(c, s) ==
  [c EXCEPT !.status = "kDisconnecting", !.late = @ \/ ~c.open,
            !.threads = (@ \ {s}) \cup {[s EXCEPT !.at = "queue"]}]

CloseStore ==
  /\ \E s \in conn.threads : s.at = "close" /\ conn' = Stored(conn, s)
  /\ UNCHANGED <<mode, setting, input, sent, parser, told>>

ClosePost ==
  /\ \E s \in conn.threads :
       /\ s.at = "queue"
       /\ conn' = [conn EXCEPT !.threads = @ \ {s},
                               !.queue = Append(@, [r |-> s.r, part |-> "close"])]
  /\ UNCHANGED <<mode, setting, input, sent, parser, told>>

----------------------------------------------------------------------------
(* The loop. *)

Down(c) == [c EXCEPT !.status = "kDisconnected", !.open = FALSE]

(* What sending in place from c leads to, when all goes well to d: a Send finds the
   connection broken; or a thread stores kDisconnecting before the next Send.  The
   Sends after it do nothing, except the one of a chunk's size, which does not look at
   the status; a reply that had been begun and is to close the connection does. *)
InPlace(c, d) ==
  LET new == Len(c.out)..(Len(d.out) - 1)
      Cut(n) == [d EXCEPT !.out = SubSeq(@, 1, n)]
      Hit(n) == LET r == d.out[n + 1].r
                    size == SelectSeq(SubSeq(d.out, n + 1, Len(d.out)),
                                      LAMBDA x : x.r = r /\ x.part = "size")
                IN [Cut(n) EXCEPT !.out = @ \o size, !.open = ~r.close, !.struck = TRUE]
      Before(n) == [Cut(n) EXCEPT !.open = TRUE]
      storing == {s \in c.threads : s.at = "close"}
      Closed(e) == IF e.open THEN e ELSE [e EXCEPT !.status = "kDisconnected"]
  IN {d} \cup {Down(Cut(n)) : n \in new}
     \cup {Closed(Stored(Hit(n), s)) : n \in new, s \in storing}
     \cup {Stored(Before(n), s) : n \in {m \in new : m = Len(c.out) \/ d.out[m].r # d.out[m + 1].r},
                                 s \in storing}

Pieces == {n \in PieceSizes \cup {Len(Wire) - sent} : n \in 1 .. Len(Wire) - sent}

(* The connection reads n more bytes and calls OnMessage. *)
Receive ==
  /\ mode = "service"
  /\ conn.open
  /\ \E n \in Pieces :
       /\ sent' = sent + n
       /\ \E d \in {OnMessage([conn EXCEPT !.buf = @ \o SubSeq(Wire, sent + 1, sent + n)])} :
            conn' \in InPlace(conn, d)
  /\ UNCHANGED <<mode, setting, input, parser, told>>

(* A callback that kept its HTTPSendResponseCallback answers on the loop's thread. *)
AnswerLater ==
  /\ \E p \in conn.pending :
       /\ AnswersOn(p, "later")
       /\ conn' \in InPlace(conn, SendReply([conn EXCEPT !.pending = @ \ {p}], p.resp, 200,
                                            setting.chunked, p.to))
  /\ UNCHANGED <<mode, setting, input, sent, parser, told>>

(* A functor that a thread posted: SendInLoop, or HandleClose. *)
RunPosted ==
  /\ conn.queue # <<>>
  /\ LET c == [conn EXCEPT !.queue = Tail(@)] IN
       conn' = IF conn.status = "kDisconnected" THEN c
               ELSE IF Head(conn.queue).part = "close" THEN Down(c)
               ELSE [c EXCEPT !.out = Append(@, Head(conn.queue))]
  /\ UNCHANGED <<mode, setting, input, sent, parser, told>>

(* The peer closes the connection, or it breaks.  Nothing frees the context. *)
ConnDown ==
  /\ mode = "service"
  /\ conn.open
  /\ conn' = Down(conn)
  /\ UNCHANGED <<mode, setting, input, sent, parser, told>>

(* What a caller makes of the callbacks: a text told in pieces is one text. *)
Merged(cbs) ==
  FoldLeft(LAMBDA s, c :
             IF s # <<>> /\ Last(s).on = c.on /\ c.on \in Marks
               THEN [s EXCEPT ![Len(s)].data = @ \o c.data]
               ELSE Append(s, [on |-> c.on, data |-> c.data]),
           <<>>, cbs)

(* After an upgrade the rest of the bytes is not HTTP. *)
Upgraded == parser.upgrade /\ parser.state \in {"s_pre_start_req", "s_pre_start_res"}

(* A bare parser takes n more bytes. *)
ParsePiece ==
  /\ mode = "parser"
  /\ parser.http_errno = "OK" /\ ~Upgraded
  /\ \E n \in Pieces :
       \E x \in {Execute(parser, SubSeq(Wire, sent + 1, sent + n), FALSE)} :
         /\ sent' = sent + x.used
         /\ parser' = x.p
         /\ told' = Merged(told \o x.cb)
         /\ conn' = [conn EXCEPT !.sound = @ /\ x.sound]
  /\ UNCHANGED <<mode, setting, input>>

(* The end of the connection: http_parser_execute with no bytes; it is counted
   as one byte more. *)
ParseEof ==
  /\ mode = "parser"
  /\ sent = Len(Wire) /\ parser.http_errno = "OK" /\ ~Upgraded
  /\ \E x \in {Execute(parser, "", FALSE)} :
       /\ told' = Merged(told \o x.cb)
       /\ parser' = x.p
  /\ sent' = sent + 1
  /\ UNCHANGED <<mode, setting, input, conn>>

Next ==
  \/ Receive \/ AnswerLater \/ RunPosted \/ ConnDown \/ ParsePiece \/ ParseEof
  \/ BeginReply \/ SendTest \/ SendPost \/ CloseStore \/ ClosePost

Spec == Init /\ [][Next]_vars

----------------------------------------------------------------------------
(* Properties *)

(* The messages of the input whose last byte has been read. *)
EndOf(k) == FoldLeft(LAMBDA n, x : n + Len(x.wire), 0, SubSeq(input, 1, k))
Arrived == {k \in 1..Len(input) : EndOf(k) <= sent}

(* The first message of the input that is not to be accepted. *)
FirstBad == Min({k \in 1..Len(input) : input[k].want = NoRequest} \cup {Len(input) + 1})

(* Whatever the pieces in which the bytes arrive, the callbacks are given
   exactly the well-formed requests that have arrived whole, in order, each
   once, with the method, path, query, headers and body that were sent; none
   after a malformed one.  (Service::OnMessage, RequestHandler, HttpRequest's
   callbacks, http_parser_execute.) *)
RequestsAsSent ==
  mode = "service" /\ (\A k \in 1..Len(input) : input[k].size = "normal") =>
    /\ Len(conn.handled) = Cardinality({k \in Arrived : k < FirstBad})
    /\ \A k \in 1..Len(conn.handled) : conn.handled[k] = input[k].want

(* What the peer can make of the replies.  It gets of a request's final reply,
   after its 100 Continue if it was sent one, the beginning; all of it as long
   as the connection lasts.  A reply that the loop's thread sends is not mixed
   with another, and when it announces the close nothing follows it; replies
   that threads send may be mixed with others, part by part, and others may
   follow one that announces the close.  A final reply of HTTP/1.x ends by its
   length, by its last chunk or with the connection.  Where callbacks answer
   at once the final replies come in the order of the requests, the malformed
   one's 400 last.  Excepted is what follows a Close of a thread that came
   after the connection was down, or in the middle of a reply of the loop's.
   (HttpResponse::SendReply, MakeHttpResponse, Service::RequestHandler.) *)
OnLoop(r) == r.code # 200 \/ setting.when[r.to] # "thread"
Final(k) == SelectSeq(conn.out, LAMBDA x : x.r.to = k /\ x.r.code # 100)
RepliesMakeSense ==
  LET out == conn.out
      busy == {p.to : p \in conn.pending} \cup {s.r.to : s \in conn.threads}
              \cup {x.r.to : x \in ToSet(conn.queue)}
  IN
  /\ ~conn.late /\ ~conn.struck =>
       /\ \A i, j \in 1..Len(out) : i < j =>
            /\ OnLoop(out[i].r) /\ out[i].r.close => out[j].r = out[i].r
            /\ OnLoop(out[i].r) /\ out[i].r = out[j].r => out[i + 1].r = out[i].r
            /\ out[i].r.to = out[j].r.to => out[j].r.code # 100
            /\ ToSet(setting.when) = {"now"} => out[i].r.to <= out[j].r.to
       /\ \A k \in {x.r.to : x \in ToSet(out)} :
            Final(k) # <<>> => IsPrefix(Final(k), Parts(Head(Final(k)).r))
  /\ conn.status = "kConnected" =>
       \A k \in (1..Len(conn.handled)) \ busy :
         Final(k) # <<>> /\ Final(k) = Parts(Head(Final(k)).r)
  /\ \A i \in 1..Len(out) :
       LET r == out[i].r IN
       /\ r.code # 100 /\ r.major = 1 => r.close \/ (r.length # r.chunked)
       /\ r.code = 400 => r.to = FirstBad \/ input[r.to].size = "long"

(* However its input is cut, the parser makes the callbacks, and reaches the
   state and the error, that it would on the whole input at once: the marks
   are reopened, the fast-forward loops and the byte-by-byte path agree.  No
   input has a bare CR in the value of a header, for which it does not hold.
   (http_parser_execute.) *)
PiecesAgree ==
  mode = "parser" =>
    LET whole == Execute(Parser(setting.type), Wire, FALSE)
        sofar == Execute(Parser(setting.type), SubSeq(Wire, 1, sent), FALSE)
    IN /\ parser.http_errno \notin {"OK", "INVALID_EOF_STATE"} =>
            whole.p.http_errno = parser.http_errno /\ whole.used = sent
       /\ parser.http_errno = "OK" /\ sent \in 1..Len(Wire) =>
            /\ told = Merged(sofar.cb)
            /\ [parser EXCEPT !.nread = 0] = [sofar.p EXCEPT !.nread = 0]

(* The parser's limits and assertions: no length it accepts has wrapped, a
   header that is still open is never longer than HTTP_MAX_HEADER_SIZE, and
   no assertion of http_parser_execute fails: at most one mark is open, no body
   of length 0 is read, a chunk only in a chunked message.
   (http_parser_execute: content_length, nread, the asserts.) *)
ParserBounds ==
  LET p == IF mode = "parser" THEN parser
           ELSE IF conn.context = NoRequest THEN Parser("HTTP_REQUEST") ELSE conn.context.parser
      begun == EndOf(Len(conn.handled))
  IN /\ conn.sound
     /\ p.content_length \in -1 .. INT64_MAX
     /\ p.http_errno = "OK" => p.nread <= HTTP_MAX_HEADER_SIZE
     /\ mode = "service" /\ conn.context # NoRequest /\ p.http_errno = "OK"
          /\ PARSING_HEADER(p.state) /\ p.flags \cap {"F_CHUNKED"} = {}
        => sent - begun <= HTTP_MAX_HEADER_SIZE
=============================================================================
