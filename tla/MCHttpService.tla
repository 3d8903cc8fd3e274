--------------------------- MODULE MCHttpService ---------------------------
(* The messages of the instance, and what a callback should be given for each:
   NoRequest for a malformed one. *)
EXTENDS HttpService

Good(wire, method, path, query, headers, body) ==
  [wire |-> wire, size |-> "normal",
   want |-> [method |-> method, path |-> path, query |-> query, headers |-> headers, body |-> body]]

Bad(wire) == [wire |-> wire, size |-> "normal", want |-> NoRequest]

NoHeaders == <<>>

Get == Good("GET /p?q=1#f HTTP/1.1\r\nKey:  \"a\\\"b\" longer value\r\n\r\n", "GET", "/p", "q=1",
            "Key" :> "\"a\\\"b\" longer value", "")
Post == Good("POST /p HTTP/1.1\r\nContent-Length: 12\r\n\r\nGET / HTTP\r\n", "POST", "/p", "",
             "Content-Length" :> "12", "GET / HTTP\r\n")
Chunked == Good("PUT /p HTTP/1.1\nTransfer-Encoding:Chunked\n\nA;x\r\n0123456789\r\n01\r\na\r\n0\r\nT: v\r\n\r\n",
                "PUT", "/p", "", ("Transfer-Encoding" :> "Chunked") @@ ("T" :> "v"), "0123456789a")
Expecting == Good("POST /p HTTP/1.1\r\nExpect: x\r\nContent-Length: 1\r\n\r\na", "POST", "/p", "",
                  ("Expect" :> "x") @@ ("Content-Length" :> "1"), "a")
Closing == Good("\r\nGET /none HTTP/1.1\r\nConnection: Close\r\n\r\n", "GET", "/none", "",
                "Connection" :> "Close", "")
Old == Good("GET /p HTTP/1.0\n\n", "GET", "/p", "", NoHeaders, "")
OldKept == Good("M-SEARCH /p HTTP/1.0\nConnection: keep-alive\nEmpty-Field:\r\n\n", "M-SEARCH", "/p", "",
                ("Connection" :> "keep-alive") @@ ("Empty-Field" :> ""), "")
Oldest == Good("GET /p\r\n\r\n", "GET", "/p", "", NoHeaders, "")
Connect == Good("CONNECT h:80 HTTP/1.1\r\n\r\n", "CONNECT", "", "", NoHeaders, "")

AnyMethod == {Good(m \o " /p HTTP/1.1\n\n", m, "/p", "", NoHeaders, "") : m \in Methods \ {"CONNECT"}}

BadMethod == Bad("GOT /p HTTP/1.1\r\n\r\n")
BadHeader == Bad("GET /p HTTP/1.1\r\nKey : v\r\n\r\n")
BadLength == Bad("PUT /p HTTP/1.1\r\nContent-Length: 1x\r\n\r\n")
HugeLength == Bad("PUT /p HTTP/1.1\r\nContent-Length: 257\r\n\r\n")
HugeChunk == Bad("PUT /p HTTP/1.1\r\nTransfer-Encoding: chunked\r\n\r\n101\r\n")
Long == [Good("GET /a HTTP/1.1\r\nA-Header-And-Its-Name: which is as long as its value is, and on\r\n\r\n",
              "GET", "/", "", NoHeaders, "") EXCEPT !.size = "long"]

Goods == {Get, Post, Chunked, Expecting, Closing, Old, OldKept, Oldest, Connect}
Bads == {BadMethod, BadHeader, BadLength, HugeLength, HugeChunk}

MCInputs ==
  {<<x>> : x \in Goods \cup AnyMethod \cup Bads \cup {Long}} \cup
  {<<x, y>> : x \in {Post, Chunked, Expecting, Closing, Old}, y \in {Oldest, OldKept, BadMethod}}

Raw(wire) == <<[wire |-> wire, size |-> "normal", want |-> NoRequest]>>

MCParserInputs ==
  {<<x>> : x \in Goods \cup Bads} \cup {<<Post, Chunked>>} \cup
  {Raw("HTTP/1.1 200 All right\r\nA: 1\r\n\r\nuntil the end"),
   Raw("HTTP/1.1 204\nB:2\n\nHTTP/1.0 404 x\r\nContent-Length: 2\r\n\r\nab"),
   Raw("GET http://u.h:80/p?a?b#c#d HTTP/1.1\r\nFolded: one\r\n\ttwo\r\n\r\n"),
   Raw("GET http://[::1]?x HTTP/1.1\r\nUpgrade: t\r\nContentLength: 3\r\n\r\n\r\nraw"),
   Raw("POST / HTTP/1.1\r\nUpgrade: t\r\nContent-Length: 3\r\n\r\nabcraw"),
   Raw("HEAD * HTTP/1.1\r\nQ: \"open\\\r\n\\\"\r\nTransfer-Encoding: chunke\r\n\r\n"),
   Raw("MKACTIVITY /a\tb HTTP/11.12\r\nBad: control \f\r\n\r\n")}

MCRegistered == {"/p"}
=============================================================================
