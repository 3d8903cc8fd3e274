---------------------------- MODULE HttpParser ----------------------------
(***************************************************************************)
(* http_parser_execute of evpp/evpphttp/http_parser_cpp.cc: the push       *)
(* parser of requests and responses, as an operator Execute on a parser    *)
(* and one buffer of bytes.  The settings' callbacks are collected in the  *)
(* order they are made; what they do is the caller's (HttpService).  The   *)
(* only callback that acts on the parser is on_message_complete, which     *)
(* pauses it when the caller says so (HttpRequest::OnMessageEnd).          *)
(***************************************************************************)
EXTENDS HttpUrl, FiniteSetsExt

CONSTANTS
  INT64_MAX,            \* the largest content_length, scaled down
  HTTP_MAX_HEADER_SIZE  \* 80KB in the code, scaled down

Marks == {"header_field", "header_value", "url", "reason", "body"}

(* struct http_parser after http_parser_init(t).  It leaves header_state, index,
   content_length, the version and status_code uninitialised: no branch reads
   them before they are set, and their values here stand for any. *)
Parser(t) ==
  [type |-> t,
   state |-> CASE t = "HTTP_REQUEST" -> "s_pre_start_req"
               [] t = "HTTP_RESPONSE" -> "s_pre_start_res"
               [] OTHER -> "s_pre_start_req_or_res",
   header_state |-> "h_general", index |-> 0, nread |-> 0, content_length |-> -1,
   flags |-> {}, http_major |-> 1, http_minor |-> 1, status_code |-> 0, method |-> "DELETE",
   http_errno |-> "OK", upgrade |-> FALSE]

(* The states up to s_headers_done count towards the header's size. *)
PARSING_HEADER(s) ==
  s \notin {"s_chunk_data", "s_chunk_data_almost_done", "s_chunk_data_done",
            "s_body_identity", "s_body_identity_eof", "s_message_done"}

----------------------------------------------------------------------------
(***************************************************************************)
(* The locals of one call: m.p the parser, m.i the position of p in m.buf  *)
(* (from 1), the marks (0: null), start = data_or_header_data_start, and   *)
(* once m.done the number of bytes m.used that the call returns.  m.cb are *)
(* the callbacks made, m.sound whether every assertion passed held.        *)
(***************************************************************************)

At(m, i) == SubSeq(m.buf, i, i)
To(m, s) == [m EXCEPT !.p.state = s]
Head_(m, h) == [m EXCEPT !.p.header_state = h]

RETURN(m, n) == [m EXCEPT !.done = TRUE, !.used = n]

(* SET_ERRNO(e); goto error *)
Fail(m, e) == [RETURN(m, m.i - 1) EXCEPT !.p.http_errno = e]

MARK(m, on) == IF m.mark[on] = 0 THEN [m EXCEPT !.mark[on] = m.i] ELSE m

Assert_(m, holds) == [m EXCEPT !.sound = @ /\ holds]

Made(m, on, data) ==
  [m EXCEPT !.cb = Append(@, [on |-> on, data |-> data, state |-> m.p.state])]

(* CALLBACK_NOTIFY; n is what is returned when the callback pauses. *)
CALLBACK_NOTIFY(m, on, n) ==
  LET c == Assert_(Made(m, on, ""), m.p.http_errno = "OK")
  IN IF on = "message_complete" /\ m.pauses
       THEN [RETURN(c, n) EXCEPT !.p.http_errno = "PAUSED"]
       ELSE c

(* CALLBACK_DATA of the bytes from the mark up to position last. *)
CALLBACK_DATA(m, on, last) ==
  IF m.mark[on] = 0 THEN m
  ELSE [Made(m, on, SubSeq(m.buf, m.mark[on], last)) EXCEPT !.mark[on] = 0]

CALLBACK_SPACE(m, on) == Made(m, on, " ")

NEW_MESSAGE(m) == IF m.p.type = "HTTP_REQUEST" THEN "s_pre_start_req" ELSE "s_pre_start_res"

MessageComplete(m) == CALLBACK_NOTIFY(To(m, NEW_MESSAGE(m)), "message_complete", m.i)

(* The case of the current state on the byte at m.i. *)
RECURSIVE Byte(_)

(* goto reexecute_byte *)
Reexecute(m) == IF m.done THEN m ELSE Byte(m)

(* A number one digit longer, refused beyond 999. *)
Number(m, f, c, err) ==
  IF c \notin IsNum \/ 10 * m.p[f] + DigitValue[c] > 999
    THEN Fail(m, err)
    ELSE [m EXCEPT !.p[f] = 10 * @ + DigitValue[c]]

FirstDigit(m, f, c, s, err) ==
  IF c \in IsNum THEN [To(m, s) EXCEPT !.p[f] = DigitValue[c]] ELSE Fail(m, err)

----------------------------------------------------------------------------
(* The first bytes of a message *)

Fresh(m) == [m EXCEPT !.p.flags = {}, !.p.content_length = -1]

PreStart(m, c, s) ==
  IF c \in {"\r", "\n"} THEN m
  ELSE Reexecute(CALLBACK_NOTIFY(To(m, s), "message_begin", m.i - 1))

ReqOrResStart(m, c) ==
  CASE m.p.state = "s_pre_start_req_or_res" -> PreStart(m, c, "s_start_req_or_res")
    [] m.p.state = "s_start_req_or_res" /\ c = "H" -> To(Fresh(m), "s_res_or_resp_H")
    [] m.p.state = "s_start_req_or_res" /\ c # "H" ->
         Reexecute([To(Fresh(m), "s_start_req") EXCEPT !.p.type = "HTTP_REQUEST"])
    [] m.p.state = "s_res_or_resp_H" /\ c = "T" ->
         [To(m, "s_res_HT") EXCEPT !.p.type = "HTTP_RESPONSE"]
    [] m.p.state = "s_res_or_resp_H" /\ c = "E" ->
         [To(m, "s_req_method") EXCEPT !.p.type = "HTTP_REQUEST", !.p.method = "HEAD",
                                       !.p.index = 2]
    [] m.p.state = "s_pre_start_res" -> PreStart(m, c, "s_start_res")
    [] m.p.state = "s_start_res" /\ c = "H" -> To(Fresh(m), "s_res_H")
    [] OTHER -> Fail(m, "INVALID_CONSTANT")

ResVersion(m, c) ==
  CASE m.p.state = "s_res_H" -> To(m, "s_res_HT")
    [] m.p.state = "s_res_HT" -> To(m, "s_res_HTT")
    [] m.p.state = "s_res_HTT" -> To(m, "s_res_HTTP")
    [] m.p.state = "s_res_HTTP" -> To(m, "s_res_first_http_major")
    [] m.p.state = "s_res_first_http_major" ->
         FirstDigit(m, "http_major", c, "s_res_http_major", "INVALID_VERSION")
    [] m.p.state = "s_res_http_major" ->
         IF c = "." THEN To(m, "s_res_first_http_minor")
         ELSE Number(m, "http_major", c, "INVALID_VERSION")
    [] m.p.state = "s_res_first_http_minor" ->
         FirstDigit(m, "http_minor", c, "s_res_http_minor", "INVALID_VERSION")
    [] m.p.state = "s_res_http_minor" ->
         IF c = " " THEN To(m, "s_res_first_status_code")
         ELSE Number(m, "http_minor", c, "INVALID_VERSION")

ResStatus(m, c) ==
  CASE m.p.state = "s_res_first_status_code" ->
         IF c = " " THEN m ELSE FirstDigit(m, "status_code", c, "s_res_status_code", "INVALID_STATUS")
    [] m.p.state = "s_res_status_code" ->
         (CASE c = " " -> To(m, "s_res_status")
            [] c = "\r" -> To(m, "s_res_line_almost_done")
            [] c = "\n" -> To(m, "s_header_field_start")
            [] OTHER -> Number(m, "status_code", c, "INVALID_STATUS"))
    [] m.p.state = "s_res_status" ->
         LET k == MARK(m, "reason") IN
         (CASE c = "\r" -> CALLBACK_DATA(To(k, "s_res_line_almost_done"), "reason", m.i - 1)
            [] c = "\n" -> CALLBACK_DATA(To(k, "s_header_field_start"), "reason", m.i - 1)
            [] OTHER -> k)
    [] m.p.state = "s_res_line_almost_done" -> To(m, "s_header_field_start")

----------------------------------------------------------------------------
(* The request line *)

(* method_strings *)
Methods ==
  {"DELETE", "GET", "HEAD", "POST", "PUT", "CONNECT", "OPTIONS", "TRACE", "COPY", "LOCK",
   "MKCOL", "MOVE", "PROPFIND", "PROPPATCH", "UNLOCK", "REPORT", "MKACTIVITY", "CHECKOUT",
   "MERGE", "M-SEARCH", "NOTIFY", "SUBSCRIBE", "UNSUBSCRIBE", "PATCH"}

(* The method a first letter is taken for. *)
FirstMethod ==
  [C |-> "CONNECT", D |-> "DELETE", G |-> "GET", H |-> "HEAD", L |-> "LOCK", M |-> "MKCOL",
   N |-> "NOTIFY", O |-> "OPTIONS", P |-> "POST", R |-> "REPORT", S |-> "SUBSCRIBE",
   T |-> "TRACE", U |-> "UNLOCK"]

StartReq(m, c) ==
  IF m.p.state = "s_pre_start_req" THEN PreStart(m, c, "s_start_req")
  ELSE IF c \in DOMAIN FirstMethod
    THEN [To(Fresh(m), "s_req_method") EXCEPT !.p.method = FirstMethod[c], !.p.index = 1]
    ELSE Fail(Fresh(m), "INVALID_METHOD")

(* The method that <<method, index, byte>> turns out to be instead. *)
OtherMethod ==
  {<<"CONNECT", 1, "H", "CHECKOUT">>, <<"CONNECT", 2, "P", "COPY">>,
   <<"MKCOL", 1, "O", "MOVE">>, <<"MKCOL", 1, "E", "MERGE">>, <<"MKCOL", 1, "-", "M-SEARCH">>,
   <<"MKCOL", 2, "A", "MKACTIVITY">>, <<"POST", 1, "R", "PROPFIND">>, <<"POST", 1, "U", "PUT">>,
   <<"POST", 1, "A", "PATCH">>, <<"UNLOCK", 2, "S", "UNSUBSCRIBE">>,
   <<"PROPFIND", 4, "P", "PROPPATCH">>}

(* The errors of CONNECT, MKCOL and POST leave the errno to the label. *)
ReqMethod(m, c) ==
  LET next == [m EXCEPT !.p.index = @ + 1]
      expected == SubSeq(m.p.method, m.p.index + 1, m.p.index + 1)
      others == {o \in OtherMethod : <<o[1], o[2], o[3]>> = <<m.p.method, m.p.index, c>>}
  IN CASE c = " " /\ m.p.index = Len(m.p.method) -> To(next, "s_req_spaces_before_url")
       [] c = expected /\ m.p.index < Len(m.p.method) -> next
       [] others # {} -> [next EXCEPT !.p.method = (CHOOSE o \in others : TRUE)[4]]
       [] OTHER -> Fail(m, IF m.p.method \in {"CONNECT", "MKCOL"} \/ <<m.p.method, m.p.index>> = <<"POST", 1>>
                             THEN "UNKNOWN" ELSE "INVALID_METHOD")

(* The end of the URL, in every state after the host; a URL that ends its
   line is a request of HTTP/0.9. *)
UrlEnd(m, c, err) ==
  LET http09 == [m EXCEPT !.p.http_major = 0, !.p.http_minor = 9] IN
  CASE c = " " -> CALLBACK_DATA(To(m, "s_req_http_start"), "url", m.i - 1)
    [] c = "\r" -> CALLBACK_DATA(To(http09, "s_req_line_almost_done"), "url", m.i - 1)
    [] c = "\n" -> CALLBACK_DATA(To(http09, "s_header_field_start"), "url", m.i - 1)
    [] OTHER -> Fail(m, err)

UrlStart(m, c) ==
  LET k == MARK(m, "url") IN
  CASE c = " " -> m
    [] c # " " /\ m.p.method = "CONNECT" -> Reexecute(To(k, "s_req_host_start"))
    [] c \in {"/", "*"} /\ m.p.method # "CONNECT" -> To(k, "s_req_path")
    [] c \in IsAlpha /\ m.p.method # "CONNECT" -> To(k, "s_req_schema")
    [] OTHER -> Fail(m, "INVALID_URL")

ReqHost(m, c) ==
  LET s == m.p.state IN
  CASE s = "s_req_schema" /\ c \in IsAlpha -> m
    [] s = "s_req_schema" /\ c = ":" -> To(m, "s_req_schema_slash")
    [] s = "s_req_schema_slash" -> To(m, "s_req_schema_slash_slash")
    [] s = "s_req_schema_slash_slash" -> To(m, "s_req_host_start")
    [] s = "s_req_host_start" /\ c = "[" -> To(m, "s_req_host_ipv6")
    [] s = "s_req_host_start" /\ c \in IsAlphaNum -> To(m, "s_req_host")
    [] s = "s_req_host" /\ c \in IsHostChar -> m
    [] s = "s_req_host" /\ c \notin IsHostChar -> Reexecute(To(m, "s_req_host_done"))
    [] s = "s_req_host_ipv6" /\ c \in DOMAIN Unhex \cup {":"} -> m
    [] s = "s_req_host_ipv6" /\ c = "]" -> To(m, "s_req_host_done")
    [] s = "s_req_host_done" /\ c = ":" -> To(m, "s_req_port")
    [] s = "s_req_port" /\ c \in IsNum -> m
    [] s \in {"s_req_host_done", "s_req_port"} /\ c = "/" -> To(m, "s_req_path")
    [] s \in {"s_req_host_done", "s_req_port"} /\ c = "?" -> To(m, "s_req_query_string_start")
    [] s \in {"s_req_host_done", "s_req_port"} /\ c = " " -> UrlEnd(m, c, "")
    [] OTHER -> Fail(m, CASE s = "s_req_schema" -> "INVALID_URL"
                          [] s = "s_req_port" -> "INVALID_PORT"
                          [] OTHER -> "INVALID_HOST")

ReqPath(m, c) ==
  CASE c \in IsUrlChar -> m
    [] c = "?" -> To(m, "s_req_query_string_start")
    [] c = "#" -> To(m, "s_req_fragment_start")
    [] OTHER -> UrlEnd(m, c, "INVALID_PATH")

ReqQuery(m, c) ==
  CASE c \in IsUrlChar -> To(m, "s_req_query_string")
    [] c = "?" -> m
    [] c = "#" -> To(m, "s_req_fragment_start")
    [] OTHER -> UrlEnd(m, c, "INVALID_QUERY_STRING")

ReqFragment(m, c) ==
  CASE c \in IsUrlChar \cup {"?"} -> To(m, "s_req_fragment")
    [] c = "#" -> m
    [] OTHER -> UrlEnd(m, c, "INVALID_FRAGMENT")

ReqVersion(m, c) ==
  LET s == m.p.state IN
  CASE s = "s_req_http_start" /\ c = "H" -> To(m, "s_req_http_H")
    [] s = "s_req_http_start" /\ c = " " -> m
    [] s = "s_req_http_start" /\ c \notin {"H", " "} -> Fail(m, "INVALID_CONSTANT")
    [] s = "s_req_http_H" -> To(m, "s_req_http_HT")
    [] s = "s_req_http_HT" -> To(m, "s_req_http_HTT")
    [] s = "s_req_http_HTT" -> To(m, "s_req_http_HTTP")
    [] s = "s_req_http_HTTP" -> To(m, "s_req_first_http_major")
    [] s = "s_req_first_http_major" ->
         FirstDigit(m, "http_major", c, "s_req_http_major", "INVALID_VERSION")
    [] s = "s_req_http_major" ->
         IF c = "." THEN To(m, "s_req_first_http_minor")
         ELSE Number(m, "http_major", c, "INVALID_VERSION")
    [] s = "s_req_first_http_minor" ->
         FirstDigit(m, "http_minor", c, "s_req_http_minor", "INVALID_VERSION")
    [] s = "s_req_http_minor" ->
         (CASE c = "\r" -> To(m, "s_req_line_almost_done")
            [] c = "\n" -> To(m, "s_header_field_start")
            [] OTHER -> Number(m, "http_minor", c, "INVALID_VERSION"))
    [] s = "s_req_line_almost_done" ->
         IF c = "\n" THEN To(m, "s_header_field_start") ELSE Fail(m, "LF_EXPECTED")

----------------------------------------------------------------------------
(* The header *)

(* The headers that the parser itself understands: the state in which a name
   is compared with each, and the state once it is matched. *)
Special ==
  [h_matching_content_length |-> [name |-> "content-length", found |-> "h_content_length"],
   h_matching_transfer_encoding |-> [name |-> "transfer-encoding", found |-> "h_transfer_encoding"],
   h_matching_upgrade |-> [name |-> "upgrade", found |-> "h_upgrade"],
   h_matching_transfer_encoding_chunked |->
     [name |-> "chunked", found |-> "h_transfer_encoding_chunked"]]

MatchingName == DOMAIN Special \ {"h_matching_transfer_encoding_chunked"}

(* One more byte compared with the name. *)
Matching(m, c) ==
  LET t == Special[m.p.header_state]
      n == [m EXCEPT !.p.index = @ + 1]
      i == n.p.index + 1
  IN IF i > Len(t.name) \/ Lower(c) # SubSeq(t.name, i, i) THEN Head_(n, "h_general")
     ELSE IF i = Len(t.name) THEN Head_(n, t.found)
     ELSE n

(* fast-forwarding: as many bytes are skipped as are left for the longer or
   the shorter run, or up to the first one that stops it; m.i is then the last
   byte read and .stop whether that byte has yet to be handled.  stopping are
   the positions of the bytes that stop it. *)
FastForward(m, long, short, stopping) ==
  LET left == Len(m.buf) - m.i
      n == IF left >= long THEN long ELSE IF left >= short THEN short ELSE 0
      stops == stopping \cap (m.i + 1 .. m.i + n)
  IN [m |-> [m EXCEPT !.i = IF stops = {} THEN m.i + n ELSE Min(stops)], stop |-> stops # {}]

HeaderFieldStart(m, c) ==
  LET k == [MARK(To(m, "s_header_field"), "header_field") EXCEPT !.p.index = 0] IN
  CASE c = "\r" -> To(m, "s_headers_almost_done")
    [] c = "\n" -> Reexecute(To(m, "s_headers_almost_done"))
    [] c \notin IsToken \cup {"\r", "\n"} -> Fail(m, "INVALID_HEADER_TOKEN")
    [] Lower(c) = "c" -> Head_(k, "h_matching_content_length")
    [] Lower(c) = "t" -> Head_(k, "h_matching_transfer_encoding")
    [] Lower(c) = "u" -> Head_(k, "h_matching_upgrade")
    [] OTHER -> Head_(k, "h_general")

(* notatoken; the test for a space before the colon never holds, a space being
   no token. *)
HeaderFieldEnd(m) ==
  IF At(m, m.i) = ":"
    THEN CALLBACK_DATA(To(m, "s_header_value_start"), "header_field", m.i - 1)
    ELSE Fail(m, "INVALID_HEADER_TOKEN")

HeaderField(m, c) ==
  LET f == FastForward(m, 8, 3, {j \in m.i .. Len(m.buf) : At(m, j) \notin IsToken})
      h == m.p.header_state
  IN CASE c \notin IsToken -> HeaderFieldEnd(m)
       [] c \in IsToken /\ h = "h_general" -> IF f.stop THEN HeaderFieldEnd(f.m) ELSE f.m
       [] c \in IsToken /\ h \in MatchingName -> Matching(m, c)
       [] c \in IsToken /\ h \in {"h_content_length", "h_transfer_encoding", "h_upgrade"} ->
            Head_(m, "h_general")
       [] OTHER -> Assert_(m, FALSE)

HeaderValueStart(m, c) ==
  LET k == [MARK(To(m, "s_header_value"), "header_value") EXCEPT !.p.index = 0]
      h == m.p.header_state
      empty == c \in {"\r", "\n"}
  IN CASE c \in {" ", "\t"} -> m
       [] empty /\ h = "h_content_length" -> Fail(k, "INVALID_CONTENT_LENGTH")
       [] empty /\ h = "h_transfer_encoding" -> Fail(k, "INVALID_TRANSFER_ENCODING")
       [] empty /\ h = "h_upgrade" -> Fail(k, "INVALID_UPGRADE")
       [] c = "\r" /\ h \notin {"h_content_length", "h_transfer_encoding", "h_upgrade"} ->
            CALLBACK_DATA(Head_(To(k, "s_header_almost_done"), "h_general"), "header_value", m.i - 1)
       [] c = "\n" /\ h \notin {"h_content_length", "h_transfer_encoding", "h_upgrade"} ->
            CALLBACK_DATA(To(k, "s_header_field_start"), "header_value", m.i - 1)
       [] c \notin {" ", "\t", "\r", "\n"} ->
            (CASE h = "h_upgrade" -> [Head_(k, "h_general") EXCEPT !.p.flags = @ \cup {"F_UPGRADE"}]
               [] h = "h_transfer_encoding" ->
                    Head_(k, IF Lower(c) = "c" THEN "h_matching_transfer_encoding_chunked"
                             ELSE "h_general")
               [] h = "h_content_length" ->
                    IF c \in IsNum THEN [k EXCEPT !.p.content_length = DigitValue[c]]
                    ELSE Fail(k, "INVALID_CONTENT_LENGTH")
               [] OTHER -> Head_(k, IF c = "\"" THEN "h_general_and_quote" ELSE "h_general"))

(* MUTANT: the length may overflow. *)
ContentLength_Unbounded(m, c) ==
  CASE c = " " -> m
    [] c \notin IsNum \cup {" "} -> Fail(m, "INVALID_CONTENT_LENGTH")
    [] OTHER -> [m EXCEPT !.p.content_length = 10 * @ + DigitValue[c]]

(* One digit more of Content-Length, refused before it can pass INT64_MAX. *)
ContentLength(m, c) ==
  CASE c = " " -> m
    [] c \notin IsNum \cup {" "} -> Fail(m, "INVALID_CONTENT_LENGTH")
    [] OTHER -> IF m.p.content_length > (INT64_MAX - 10) \div 10
                  THEN Fail(m, "HUGE_CONTENT_LENGTH")
                  ELSE [m EXCEPT !.p.content_length = 10 * @ + DigitValue[c]]

(* s_header_value at the byte m.i, which is reached again (cr_or_lf_or_qt)
   from where a fast-forward stops. *)
RECURSIVE HeaderValue(_)
HeaderValue(m) ==
  LET c == At(m, m.i)
      h == m.p.header_state
      q == Head_(m, IF c = "\"" THEN "h_general_and_quote" ELSE "h_general")
      f == FastForward(q, 11, 4,
             {j \in m.i .. Len(m.buf) : \/ At(m, j) \in {"\r", "\n", "\"", "\\"}
                                        \/ ~IsHeaderChar(At(m, j))})
  IN CASE h = "h_general_and_quote_and_escape" -> Head_(m, "h_general_and_quote")
       [] h # "h_general_and_quote_and_escape" /\ c = "\r" ->
            CALLBACK_DATA(To(m, "s_header_almost_done"), "header_value", m.i - 1)
       [] h # "h_general_and_quote_and_escape" /\ c = "\n" ->
            Reexecute(CALLBACK_DATA(To(m, "s_header_almost_done"), "header_value", m.i - 1))
       [] h # "h_general_and_quote_and_escape" /\ ~IsHeaderChar(c) ->
            Fail(m, "INVALID_HEADER_TOKEN")
       [] OTHER ->
            (CASE h = "h_general" -> IF f.stop THEN HeaderValue(f.m) ELSE f.m
               [] h = "h_general_and_quote" ->
                    Head_(m, CASE c = "\"" -> "h_general"
                               [] c = "\\" -> "h_general_and_quote_and_escape"
                               [] OTHER -> h)
               [] h = "h_transfer_encoding" -> Fail(m, "INVALID_HEADER_TOKEN")
               [] h = "h_content_length" -> ContentLength(m, c)
               [] h = "h_matching_transfer_encoding_chunked" -> Matching(m, c)
               [] h = "h_transfer_encoding_chunked" ->
                    IF c = " " THEN m ELSE Head_(m, "h_general")
               [] OTHER -> Head_(m, "h_general"))

(* The line's end, after CR, and the byte that follows the line. *)
HeaderAlmostDone(m, c) ==
  LET k == IF m.p.header_state = "h_transfer_encoding_chunked"
             THEN [m EXCEPT !.p.flags = @ \cup {"F_CHUNKED"}] ELSE m
  IN IF c = "\n" THEN To(k, "s_header_value_lws")
     ELSE CALLBACK_SPACE(To(k, "s_header_value"), "header_value")

HeaderValueLws(m, c) ==
  IF c \in {" ", "\t"}
    THEN CALLBACK_SPACE(To(m, "s_header_value_start"), "header_value")
    ELSE Reexecute(To(m, "s_header_field_start"))

(* on_headers_complete returns 0 in this program: F_SKIPBODY is never set. *)
HeadersAlmostDone(m, c) ==
  LET up == "F_UPGRADE" \in m.p.flags \/ m.p.method = "CONNECT" IN
  CASE c # "\n" -> Fail(m, "STRICT")
    [] c = "\n" /\ "F_TRAILING" \in m.p.flags ->
         Reexecute(CALLBACK_NOTIFY(To(m, "s_message_done"), "chunk_complete", m.i - 1))
    [] OTHER ->
         Reexecute(Made([To(m, "s_headers_done") EXCEPT !.p.upgrade = up], "headers_complete", ""))

HeadersDone(m) ==
  LET k == [m EXCEPT !.p.nread = 0, !.start = m.i]
      chunked == "F_CHUNKED" \in m.p.flags
      hasBody == chunked \/ m.p.content_length > 0
      sc == m.p.status_code
      bodiless == m.p.type = "HTTP_REQUEST" \/ sc \in 100..199 \cup {204, 304}
  IN IF m.p.upgrade /\ (m.p.method = "CONNECT" \/ ~hasBody) THEN RETURN(MessageComplete(k), m.i)
     ELSE IF chunked THEN To(k, "s_chunk_size_start")
     ELSE IF m.p.content_length > 0 THEN To(k, "s_body_identity")
     ELSE IF m.p.content_length = 0 \/ bodiless THEN MessageComplete(k)
     ELSE To(k, "s_body_identity_eof")

----------------------------------------------------------------------------
(* The body *)

(* to_read bytes of the buffer are body; m.i is then the last of them. *)
ReadBody(m) ==
  LET to_read == Min({m.p.content_length, Len(m.buf) - m.i + 1})
      k == Assert_(MARK(m, "body"), m.p.content_length > 0)
  IN [k EXCEPT !.p.content_length = @ - to_read, !.i = @ + to_read - 1]

BodyIdentity(m) ==
  LET k == ReadBody(m) IN
  IF k.p.content_length > 0 THEN k
  ELSE Reexecute(CALLBACK_DATA(To(k, "s_message_done"), "body", k.i))

BodyIdentityEof(m) == [MARK(m, "body") EXCEPT !.i = Len(m.buf)]

MessageDone(m) ==
  LET k == MessageComplete([m EXCEPT !.p.nread = 0, !.start = m.i]) IN
  IF ~k.done /\ m.p.upgrade THEN RETURN(k, m.i) ELSE k

(* One hexadecimal digit more, refused before it can pass INT64_MAX. *)
ChunkSize(m, c) ==
  CASE c = "\r" -> To(m, "s_chunk_size_almost_done")
    [] c \in {";", " "} -> To(m, "s_chunk_parameters")
    [] c \notin DOMAIN Unhex \cup {"\r", ";", " "} -> Fail(m, "INVALID_CHUNK_SIZE")
    [] OTHER -> IF m.p.content_length > (INT64_MAX - Unhex[c]) \div 16
                  THEN Fail(m, "HUGE_CHUNK_SIZE")
                  ELSE [m EXCEPT !.p.content_length = 16 * @ + Unhex[c]]

Chunk(n, c) ==
  LET s == n.p.state
      m == Assert_(n, "F_CHUNKED" \in n.p.flags)
      data == ReadBody(m)
  IN CASE s = "s_chunk_size_start" ->
            IF c \in DOMAIN Unhex THEN [To(m, "s_chunk_size") EXCEPT !.p.content_length = Unhex[c]]
            ELSE Fail(m, "INVALID_CHUNK_SIZE")
       [] s = "s_chunk_size" -> ChunkSize(m, c)
       [] s = "s_chunk_parameters" -> IF c = "\r" THEN To(m, "s_chunk_size_almost_done") ELSE m
       [] s = "s_chunk_size_almost_done" ->
            CALLBACK_NOTIFY(IF m.p.content_length = 0
                              THEN [To(m, "s_header_field_start") EXCEPT !.p.flags = @ \cup {"F_TRAILING"}]
                              ELSE To(m, "s_chunk_data"), "chunk_header", m.i)
       [] s = "s_chunk_data" ->
            IF data.p.content_length = 0 THEN To(data, "s_chunk_data_almost_done") ELSE data
       [] s = "s_chunk_data_almost_done" ->
            CALLBACK_DATA(To(Assert_(m, m.p.content_length = 0), "s_chunk_data_done"), "body", m.i - 1)
       [] s = "s_chunk_data_done" ->
            CALLBACK_NOTIFY([To(m, "s_chunk_size_start") EXCEPT !.p.nread = 0, !.start = m.i],
                            "chunk_complete", m.i)

----------------------------------------------------------------------------
(* switch (state) *)
Byte(m) ==
  LET s == m.p.state
      c == At(m, m.i)
  IN CASE s \in {"s_pre_start_req_or_res", "s_start_req_or_res", "s_res_or_resp_H",
                 "s_pre_start_res", "s_start_res"} -> ReqOrResStart(m, c)
       [] s \in {"s_res_H", "s_res_HT", "s_res_HTT", "s_res_HTTP", "s_res_first_http_major",
                 "s_res_http_major", "s_res_first_http_minor", "s_res_http_minor"} ->
            ResVersion(m, c)
       [] s \in {"s_res_first_status_code", "s_res_status_code", "s_res_status",
                 "s_res_line_almost_done"} -> ResStatus(m, c)
       [] s \in {"s_pre_start_req", "s_start_req"} -> StartReq(m, c)
       [] s = "s_req_method" -> ReqMethod(m, c)
       [] s = "s_req_spaces_before_url" -> UrlStart(m, c)
       [] s \in {"s_req_schema", "s_req_schema_slash", "s_req_schema_slash_slash",
                 "s_req_host_start", "s_req_host", "s_req_host_ipv6", "s_req_host_done",
                 "s_req_port"} -> ReqHost(m, c)
       [] s = "s_req_path" -> ReqPath(m, c)
       [] s \in {"s_req_query_string_start", "s_req_query_string"} -> ReqQuery(m, c)
       [] s \in {"s_req_fragment_start", "s_req_fragment"} -> ReqFragment(m, c)
       [] s \in {"s_req_http_start", "s_req_http_H", "s_req_http_HT", "s_req_http_HTT",
                 "s_req_http_HTTP", "s_req_first_http_major", "s_req_http_major",
                 "s_req_first_http_minor", "s_req_http_minor", "s_req_line_almost_done"} ->
            ReqVersion(m, c)
       [] s = "s_header_field_start" -> HeaderFieldStart(m, c)
       [] s = "s_header_field" -> HeaderField(m, c)
       [] s = "s_header_value_start" -> HeaderValueStart(m, c)
       [] s = "s_header_value" -> HeaderValue(m)
       [] s = "s_header_almost_done" -> HeaderAlmostDone(m, c)
       [] s = "s_header_value_lws" -> HeaderValueLws(m, c)
       [] s = "s_headers_almost_done" -> HeadersAlmostDone(m, c)
       [] s = "s_headers_done" -> HeadersDone(m)
       [] s = "s_body_identity" -> BodyIdentity(m)
       [] s = "s_body_identity_eof" -> BodyIdentityEof(m)
       [] s = "s_message_done" -> MessageDone(m)
       [] s \in {"s_chunk_size_start", "s_chunk_size", "s_chunk_parameters",
                 "s_chunk_size_almost_done", "s_chunk_data", "s_chunk_data_almost_done",
                 "s_chunk_data_done"} -> Chunk(m, c)
       [] OTHER -> Fail(Assert_(m, FALSE), "INVALID_INTERNAL_STATE")

(* MUTANT: the mark of a header's value is not reopened in a new buffer. *)
OpenMark_NoValue(s) ==
  CASE s = "s_header_field" -> "header_field"
    [] s \in {"s_req_path", "s_req_schema", "s_req_schema_slash", "s_req_schema_slash_slash",
              "s_req_port", "s_req_query_string_start", "s_req_query_string", "s_req_host_start",
              "s_req_host", "s_req_host_ipv6", "s_req_host_done", "s_req_fragment_start",
              "s_req_fragment"} -> "url"
    [] s = "s_res_status" -> "reason"
    [] OTHER -> "none"

(* The mark that a call starts with: the text that the last one left open. *)
OpenMark(s) ==
  CASE s = "s_header_field" -> "header_field"
    [] s = "s_header_value" -> "header_value"
    [] s \in {"s_req_path", "s_req_schema", "s_req_schema_slash", "s_req_schema_slash_slash",
              "s_req_port", "s_req_query_string_start", "s_req_query_string", "s_req_host_start",
              "s_req_host", "s_req_host_ipv6", "s_req_host_done", "s_req_fragment_start",
              "s_req_fragment"} -> "url"
    [] s = "s_res_status" -> "reason"
    [] OTHER -> "none"

(* Out of bytes, when the loop has not returned: the header's size is checked, and what the marks still hold
   goes to the callbacks. *)
EndOfBuffer(m) ==
  LET n == m.p.nread + m.i - m.start
      k == IF PARSING_HEADER(m.p.state) THEN [m EXCEPT !.p.nread = n] ELSE m
      a == Assert_(k, Cardinality({on \in Marks : m.mark[on] # 0}) <= 1)
      Rest(x, on) == CALLBACK_DATA(x, on, Len(m.buf))
  IN IF m.done THEN m
     ELSE IF PARSING_HEADER(m.p.state) /\ n > HTTP_MAX_HEADER_SIZE
       THEN Fail(k, "HEADER_OVERFLOW")
       ELSE RETURN(Rest(Rest(Rest(Rest(Rest(a, "header_field"), "header_value"), "url"),
                             "reason"), "body"), Len(m.buf))

Advance(m) == IF m.done THEN m ELSE [m EXCEPT !.i = @ + 1]

(* for (p = data; p != data + len; p++): n rounds of it, halved so that TLC's
   recursion stays shallow. *)
RECURSIVE Loop(_, _)
Loop(m, n) ==
  IF m.done \/ m.i > Len(m.buf) \/ n = 0 THEN m
  ELSE IF n = 1 THEN Advance(Byte(m))
  ELSE Loop(Loop(m, n \div 2), n - n \div 2)

(* http_parser_execute(p, settings, buf, Len(buf)), where pauses says whether
   the settings' on_message_complete pauses the parser. *)
Execute(p, buf, pauses) ==
  LET m == [p |-> p, buf |-> buf, pauses |-> pauses, i |-> 1, start |-> 1, cb |-> <<>>,
            sound |-> TRUE, done |-> FALSE, used |-> 0,
            mark |-> [on \in Marks |-> IF on = OpenMark(p.state) THEN 1 ELSE 0]]
  IN CASE p.http_errno # "OK" -> RETURN(m, 0)
       [] p.http_errno = "OK" /\ buf = "" ->
            (CASE p.state = "s_body_identity_eof" ->
                    RETURN(CALLBACK_NOTIFY(m, "message_complete", 0), 0)
               [] p.state \in {"s_pre_start_req_or_res", "s_pre_start_res", "s_pre_start_req"} ->
                    RETURN(m, 0)
               [] OTHER -> [RETURN(m, 1) EXCEPT !.p.http_errno = "INVALID_EOF_STATE"])
       [] OTHER -> EndOfBuffer(Loop(m, Len(buf)))
=============================================================================
