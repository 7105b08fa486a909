----------------------------- MODULE HttpRequest -----------------------------
(***************************************************************************)
(* http::network::HttpRequest of hw6: what its constructor makes of the      *)
(* text of a request.  A text is a sequence of character codes; a word that  *)
(* parsing does not look into is one code above 255.                         *)
(*                                                                           *)
(* A string_view that searches in vain gets npos, the largest number, to     *)
(* which the source adds the length of what it did not find: position 0 does *)
(* the same here.                                                            *)
(***************************************************************************)
EXTENDS Integers, Sequences

LF == 10     CR == 13     SP == 32     Percent == 37    Amp == 38    Dot == 46
Slash == 47  Colon == 58  Equals == 61  Question == 63
GET == 300   POST == 301  PUT == 302   HTTP == 303

CRLF == <<CR, LF>>

-----------------------------------------------------------------------------
(* string_view's find, substr and remove_prefix. *)
Find(s, what) ==
  LET at == {i \in 1..Len(s) - Len(what) + 1 : SubSeq(s, i, i + Len(what) - 1) = what}
  IN  IF at = {} THEN 0 ELSE CHOOSE i \in at : \A j \in at : i <= j
StartsWith(s, what) == SubSeq(s, 1, Len(what)) = what
Before(s, p) == IF p = 0 THEN s ELSE SubSeq(s, 1, p - 1)
RemovePrefix(s, n) == SubSeq(s, n + 1, Len(s))
From(s, p) == IF p = 0 THEN <<>> ELSE SubSeq(s, p, Len(s))

HexDigits == 48..57 \cup 65..70 \cup 97..102
HexValue(c) == IF c <= 57 THEN c - 48 ELSE IF c <= 70 THEN c - 55 ELSE c - 87

(* stoul: as many digits as there are, not the two of the escape; as a char    *)
(* the number is its last two.  More than sixteen are out of range.  That it   *)
(* also takes blanks, a sign and 0x is left out: none of them follows a %.     *)
Digits(s) ==
  LET n == CHOOSE n \in 0..Len(s) : (\A i \in 1..n : s[i] \in HexDigits)
                                      /\ (n < Len(s) => s[n + 1] \notin HexDigits)
  IN  SubSeq(s, 1, n)
ToChar(ds) ==
  HexValue(ds[Len(ds)]) + (IF Len(ds) = 1 THEN 0 ELSE 16 * HexValue(ds[Len(ds) - 1]))

(* unescape of origin, which memory continues.  What stands before an escape   *)
(* is dropped; a 0 is found again and again; digits that are missing, or fewer *)
(* than two at the end, are an exception or a read beyond the text.            *)
Unescape(origin, memory) ==
  LET from[i \in 1..Len(origin) + 1] ==
        LET p == Find(SubSeq(origin, i, Len(origin)), <<Percent>>) + i - 1
            digits == Digits(RemovePrefix(origin \o memory, p))
        IN  IF p = i - 1 THEN [how |-> "text", text |-> SubSeq(origin, i, Len(origin))]
            ELSE IF Len(digits) \notin 1..16 THEN [how |-> "throws", text |-> <<>>]
            ELSE IF ToChar(digits) = 0 THEN [how |-> "hangs", text |-> <<>>]
            ELSE IF p + 2 > Len(origin) THEN [how |-> "throws", text |-> <<>>]
            ELSE [from[p + 3] EXCEPT !.text = <<ToChar(digits)>> \o @]
  IN  from[1]

-----------------------------------------------------------------------------
(* emplace, before those of the entries that follow: of one name the first stays. *)
Emplaced(name, value, later) ==
  [n \in DOMAIN later \cup {name} |-> IF n = name THEN value ELSE later[n]]

(* One turn of parse_query_string after another; names and values are          *)
(* unescaped once more.  The last parameter has no & after it.                 *)
QueryParams(query) ==
  LET from[i \in 1..Len(query) + 1] ==
        LET q == SubSeq(query, i, Len(query))
            n == Find(q, <<Equals>>)
            r == RemovePrefix(q, n)
            v == Find(r, <<Amp>>)
            name == Unescape(Before(q, n), From(q, n))
            value == Unescape(Before(r, v), From(r, v))
            rest == from[i + n + v]
        IN  IF n = 0 \/ v = 0 THEN [how |-> "text", params |-> <<>>]
            ELSE IF name.how # "text" THEN [how |-> name.how, params |-> <<>>]
            ELSE IF value.how # "text" THEN [how |-> value.how, params |-> <<>>]
            ELSE [rest EXCEPT !.params = Emplaced(name.text, value.text, @)]
  IN  from[1]

(* The headers, up to a line that is empty or has no colon, and where they end. *)
Headers(s) ==
  LET from[i \in 1..Len(s) + 1] ==
        LET h == SubSeq(s, i, Len(s))
            n == Find(h, <<Colon>>)
            r == RemovePrefix(h, n)
            blanks == CHOOSE k \in 0..Len(r) : (\A j \in 1..k : r[j] = SP)
                                                 /\ (k < Len(r) => r[k + 1] # SP)
            value == RemovePrefix(r, blanks)
            v == Find(value, CRLF)
            rest == from[i + n + blanks + v + 1]
        IN  IF Find(h, CRLF) = 0 \/ StartsWith(h, CRLF) \/ n = 0
            THEN [headers |-> <<>>, next |-> i]
            ELSE [rest EXCEPT !.headers = Emplaced(Before(h, n), Before(value, v), @)]
  IN  from[1]

(* A slip: the query string stays in the path. *)
KeepQuery(path, q) == path

PathOnly(path, q) == Before(path, q)

Version(s) == Before(s, Find(s, CRLF))

(* The body ends at the first line break, and the empty line after the headers *)
(* is one.                                                                     *)
Body(s) == Before(s, Find(s, CRLF))

(* The constructor: method, path and parameters, version, headers and body,    *)
(* each from what the one before has left.                                     *)
Parse(request_sv) ==
  LET m == Find(request_sv, <<SP, Slash>>)
      afterMethod == RemovePrefix(request_sv, m)
      p == Find(afterMethod, <<SP, HTTP>>)
      path == Unescape(Before(afterMethod, p), From(afterMethod, p))
      q == Find(path.text, <<Question>>)
      query == QueryParams(From(path.text, q))
      afterPath == RemovePrefix(afterMethod, p)
      v == Find(afterPath, CRLF)
      afterVersion == RemovePrefix(afterPath, v + 1)
      fields == Headers(afterVersion)
      left == SubSeq(afterVersion, fields.next, Len(afterVersion))
  IN  [how |-> IF path.how = "text" THEN query.how ELSE path.how,
       method |-> Before(request_sv, m),
       path |-> PathOnly(path.text, q),
       query_params |-> query.params,
       version |-> Version(afterPath),
       headers |-> fields.headers,
       body |-> Body(left)]
=============================================================================
