------------------------------ MODULE HttpUrl ------------------------------
(***************************************************************************)
(* The byte classes of evpp/evpphttp/http_parser_cpp.cc and its URL parser *)
(* (http_parser_parse_url), as HttpRequest::OnHeaderComplete uses it.      *)
(*                                                                         *)
(* A byte is a string of length one, a buffer a string.  The bytes that a  *)
(* TLA+ string cannot hold (NUL, other controls, back quote, 0x80..0xFF)   *)
(* are left out; "\f" stands for the controls IS_HEADER_CHAR refuses.      *)
(***************************************************************************)
EXTENDS Integers, Sequences, FiniteSets

Chars(s) == {SubSeq(s, i, i) : i \in 1..Len(s)}

Uppers == "ABCDEFGHIJKLMNOPQRSTUVWXYZ"
Lowers == "abcdefghijklmnopqrstuvwxyz"
Digits == "0123456789"

IsAlpha == Chars(Uppers) \cup Chars(Lowers)
IsNum == Chars(Digits)
IsAlphaNum == IsAlpha \cup IsNum

(* ch - '0' *)
DigitValue == [c \in IsNum |-> CHOOSE d \in 0..9 : SubSeq(Digits, d + 1, d + 1) = c]

(* LOWER: only letters are ever compared with its result. *)
Lower(c) ==
  IF c \in Chars(Uppers)
    THEN LET i == CHOOSE i \in 1..26 : SubSeq(Uppers, i, i) = c IN SubSeq(Lowers, i, i)
    ELSE c

(* The bytes whose entry of tokens[] is not zero; the entry is Lower(c). *)
IsToken == IsAlphaNum \cup Chars("!#$%&'*+-.^_|~")

(* unhex[]: defined on the bytes whose entry is not -1. *)
Unhex ==
  [c \in IsNum \cup Chars("abcdefABCDEF") |->
     IF c \in IsNum THEN DigitValue[c]
     ELSE 10 + (CHOOSE i \in 0..5 : SubSeq(Lowers, i + 1, i + 1) = Lower(c))]

IsUserinfoChar == IsAlphaNum \cup Chars("-_.!~*'()%;:&=+$,")
IsHostChar == IsAlphaNum \cup Chars(".-_")

(* normal_url_char[] of the build with HTTP_PARSER_STRICT 0. *)
IsUrlChar == IsAlphaNum \cup Chars("\t\f!\"$%&'()*+,-./:;<=>@[\\]^_{|}~")

(* IS_HEADER_CHAR refuses only controls. *)
IsHeaderChar(c) == c # "\f"

----------------------------------------------------------------------------

(* parse_url_char: the state after byte c, "s_dead" for a byte not allowed. *)
ParseUrlChar(s, c) ==
  CASE c \in {" ", "\r", "\n"} -> "s_dead"
    [] s = "s_req_spaces_before_url" /\ c \in {"/", "*"} -> "s_req_path"
    [] s \in {"s_req_spaces_before_url", "s_req_schema"} /\ c \in IsAlpha -> "s_req_schema"
    [] s = "s_req_schema" /\ c = ":" -> "s_req_schema_slash"
    [] s = "s_req_schema_slash" /\ c = "/" -> "s_req_schema_slash_slash"
    [] s = "s_req_schema_slash_slash" /\ c = "/" -> "s_req_server_start"
    [] s \in {"s_req_server_with_at", "s_req_server_start", "s_req_server"} ->
         (CASE c = "/" -> "s_req_path"
            [] c = "?" -> "s_req_query_string_start"
            [] c = "@" -> IF s = "s_req_server_with_at" THEN "s_dead" ELSE "s_req_server_with_at"
            [] c \in IsUserinfoChar \cup {"[", "]"} -> "s_req_server"
            [] OTHER -> "s_dead")
    [] s = "s_req_path" /\ c \in IsUrlChar -> s
    [] s = "s_req_path" /\ c = "?" -> "s_req_query_string_start"
    [] s \in {"s_req_query_string_start", "s_req_query_string"} /\ c \in IsUrlChar \cup {"?"} ->
         "s_req_query_string"
    [] s \in {"s_req_path", "s_req_query_string_start", "s_req_query_string"} /\ c = "#" ->
         "s_req_fragment_start"
    [] s \in {"s_req_fragment_start", "s_req_fragment"} /\ c \in IsUrlChar \cup {"?"} ->
         "s_req_fragment"
    [] s \in {"s_req_fragment_start", "s_req_fragment"} /\ c = "#" -> s
    [] OTHER -> "s_dead"

(* http_parse_host_char *)
ParseHostChar(s, c) ==
  CASE s \in {"s_http_userinfo", "s_http_userinfo_start"} /\ c = "@" -> "s_http_host_start"
    [] s \in {"s_http_userinfo", "s_http_userinfo_start"} /\ c \in IsUserinfoChar -> "s_http_userinfo"
    [] s = "s_http_host_start" /\ c = "[" -> "s_http_host_v6_start"
    [] s \in {"s_http_host_start", "s_http_host"} /\ c \in IsHostChar -> "s_http_host"
    [] s \in {"s_http_host", "s_http_host_v6_end"} /\ c = ":" -> "s_http_host_port_start"
    [] s = "s_http_host_v6" /\ c = "]" -> "s_http_host_v6_end"
    [] s \in {"s_http_host_v6", "s_http_host_v6_start"} /\ c \in DOMAIN Unhex \cup {":", "."} ->
         "s_http_host_v6"
    [] s \in {"s_http_host_port", "s_http_host_port_start"} /\ c \in IsNum -> "s_http_host_port"
    [] OTHER -> "s_http_host_dead"

(* field_data[f] is a record of an offset (from 0) and a length. *)
UrlFields == {"SCHEMA", "HOST", "PORT", "PATH", "QUERY", "FRAGMENT", "USERINFO"}

(* A field grows by the byte at offset o, or starts there. *)
Grow(u, f, o, goeson) ==
  IF goeson
    THEN [u EXCEPT !.len[f] = @ + 1]
    ELSE [u EXCEPT !.off[f] = o, !.len[f] = 1, !.set = @ \cup {f}]

(* http_parse_host on the bytes of UF_HOST: [u, rc]. *)
ParseHost(url, u, found_at) ==
  LET off == u.off["HOST"]
      fieldOf == [s_http_host |-> "HOST", s_http_host_v6 |-> "HOST",
                  s_http_host_port |-> "PORT", s_http_userinfo |-> "USERINFO"]
      step[k \in 0..u.len["HOST"]] ==
        IF k = 0
          THEN [s |-> IF found_at THEN "s_http_userinfo_start" ELSE "s_http_host_start",
                u |-> [u EXCEPT !.len["HOST"] = 0]]
          ELSE LET old == step[k - 1]
                   s == ParseHostChar(old.s, SubSeq(url, off + k, off + k))
               IN [s |-> s,
                   u |-> IF s \in DOMAIN fieldOf
                           THEN Grow(old.u, fieldOf[s], off + k - 1, s = old.s)
                           ELSE old.u]
      last == step[u.len["HOST"]]
  IN [u |-> last.u,
      rc |-> IF last.s \in {"s_http_host_dead", "s_http_host_start", "s_http_host_v6_start",
                            "s_http_host_v6", "s_http_host_port_start", "s_http_userinfo",
                            "s_http_userinfo_start"}
               THEN 1 ELSE 0]

(* strtoul of a string of digits, as far as 2^16 *)
PortValue(digits) ==
  LET v[k \in 0..Len(digits)] ==
        IF k = 0 THEN 0
        ELSE IF v[k - 1] > 65535 THEN v[k - 1]
        ELSE 10 * v[k - 1] + DigitValue[SubSeq(digits, k, k)]
  IN v[Len(digits)]

(* url_path, url_query, url_fragment, url_userinfo of HttpRequest *)
UrlField(url, u, f) ==
  IF f \in u.set THEN SubSeq(url, u.off[f] + 1, u.off[f] + u.len[f]) ELSE ""

(* The field that a state of the URL parser works on; the other states are
   delimiters. *)
FieldOf ==
  [s_req_schema |-> "SCHEMA", s_req_server_with_at |-> "HOST", s_req_server |-> "HOST",
   s_req_path |-> "PATH", s_req_query_string |-> "QUERY", s_req_fragment |-> "FRAGMENT"]

(* The URL read up to its k-th byte, which made the state s. *)
Scanned(was, s, k) ==
  IF s \notin DOMAIN FieldOf THEN [was EXCEPT !.s = s]
  ELSE [s |-> s, old |-> FieldOf[s], at |-> was.at \/ s = "s_req_server_with_at",
        u |-> Grow(was.u, FieldOf[s], k - 1, FieldOf[s] = was.old)]

Scan(url, is_connect) ==
  LET empty == [off |-> [f \in UrlFields |-> 0], len |-> [f \in UrlFields |-> 0],
                set |-> {}]
      step[k \in 0..Len(url)] ==
        IF k = 0
          THEN [s |-> IF is_connect THEN "s_req_server_start" ELSE "s_req_spaces_before_url",
                old |-> "MAX", at |-> FALSE, u |-> empty]
          ELSE Scanned(step[k - 1], ParseUrlChar(step[k - 1].s, SubSeq(url, k, k)), k)
  IN step[Len(url)]

WithHost(url, end) ==
  IF end.s # "s_dead" /\ end.u.set \cap {"SCHEMA", "HOST"} # {}
    THEN ParseHost(url, end.u, end.at)
    ELSE [u |-> end.u, rc |-> IF end.s = "s_dead" THEN 1 ELSE 0]

Checked(url, is_connect, x) ==
  IF \/ is_connect /\ x.u.set # {"HOST", "PORT"}
     \/ "PORT" \in x.u.set /\ PortValue(UrlField(url, x.u, "PORT")) > 65535
    THEN [x EXCEPT !.rc = 1]
    ELSE x

(* http_parser_parse_url(url, is_connect): [u, rc].  When it stops at a dead
   byte, u keeps what was found before it. *)
ParseUrl(url, is_connect) == Checked(url, is_connect, WithHost(url, Scan(url, is_connect)))
=============================================================================
