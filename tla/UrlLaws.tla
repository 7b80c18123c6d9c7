------------------------------- MODULE UrlLaws -------------------------------
(***************************************************************************)
(* The canonicalization laws of src/urlnorm: one identity for every        *)
(* spelling of a page.                                                     *)
(*                                                                         *)
(* A URL is its scheme, host, port, path and query. Paths and queries are  *)
(* sequences of the cells that the laws tell apart: a literal octet, an    *)
(* escaped one, "jsessionid=" as one cell. The state starts from a URL,    *)
(* and the crawler meets it again and again in other spellings.            *)
(***************************************************************************)
EXTENDS Integers, SequencesExt

CONSTANTS
  Urls,          \* the URLs of different pages, where they are first discovered
  MaxSpellings   \* bound: how many times a spelling changes

VARIABLES
  first,   \* the URL the page was discovered at
  url,     \* the spelling met now
  spelled  \* the spellings met so far

urlVars == <<first, url, spelled>>

-----------------------------------------------------------------------------
(* Cells. "b" is a byte no class allows; "%" is a percent sign that does   *)
(* not open an escape.                                                     *)

Octet == {".", "_", "u", "q", "/", "%", "b"}
Escape(octet) == "%" \o octet
Escaped(c) == c \in {Escape(o) : o \in Octet}
Decoded(c) == CHOOSE o \in Octet : Escape(o) = c
isUnreserved == {".", "_", "u", "q", "s", "U"}
isPathByte == isUnreserved \cup {"/", ";", "=", "jsessionid=", "+"}
isQueryByte == isPathByte \cup {"?"}

\* Each cell in its canonical form: unreserved octets literal, the rest escaped.
Reencoded(c, allowed) ==
  IF Escaped(c) THEN IF Decoded(c) \in isUnreserved THEN Decoded(c) ELSE c
  ELSE IF c \in allowed THEN c ELSE Escape(c)

reencode(s, allowed) == [i \in DOMAIN s |-> Reencoded(s[i], allowed)]

-----------------------------------------------------------------------------
(* Law 1: scheme, host and port.                                           *)

Lower(c) == CASE c = "U" -> "u" [] c = "HTTP" -> "http" [] OTHER -> c

\* idna.Lookup.ToASCII: an ASCII name is itself, another becomes its punycode, and a
\* label with a colon, such as Hostname leaves of a bracketed IPv6 address, is an error.
ToASCII(label) == IF label = "uni" THEN "xn--uni" ELSE label
FailsToASCII(host) == "::1" \in ToSet(host)

\* A host is its labels; trailing dots leave empty labels behind.
RECURSIVE TrimDots(_)
TrimDots(host) == IF host # <<>> /\ Last(host) = "" THEN TrimDots(Front(host)) ELSE host
validDNSLength(host) == "" \notin ToSet(host) /\ "long" \notin ToSet(host)

\* A host of digits and dots alone; Hostname has taken the brackets off any other literal.
isIPLiteral(host) == ToSet(host) \subseteq {"1", ""}

LowerHost(host) == [i \in DOMAIN TrimDots(host) |-> Lower(TrimDots(host)[i])]

\* ErrHost: no host, or a name that is no name. An IP literal is taken as it is.
RejectedHost(host) ==
  \/ host = <<>>
  \/ ~isIPLiteral(host) /\ (FailsToASCII(host) \/ ~validDNSLength(host))

CanonicalHost(host) ==
  IF isIPLiteral(host) THEN host ELSE [i \in DOMAIN host |-> ToASCII(host[i])]
DefaultPort(scheme) == IF scheme = "http" THEN 80 ELSE 443
CanonicalPort(scheme, port) == IF port = DefaultPort(scheme) THEN 0 ELSE port

-----------------------------------------------------------------------------
(* Law 2, and law 4 in the path.                                           *)

\* The first cell from i on that ends a matrix segment.
RECURSIVE SegmentEnd(_, _)
SegmentEnd(path, i) ==
  IF i > Len(path) \/ path[i] \in {"/", ";"} THEN i ELSE SegmentEnd(path, i + 1)

RECURSIVE stripSessionSegments(_)
stripSessionSegments(path) ==
  LET at == {i \in 1 .. Len(path) - 1 : path[i] = ";" /\ path[i + 1] = "jsessionid="}
      i  == CHOOSE k \in at : \A j \in at : k <= j
  IN IF at = {} THEN path
     ELSE stripSessionSegments(SubSeq(path, 1, i - 1)
                               \o SubSeq(path, SegmentEnd(path, i + 2), Len(path)))

RECURSIVE collapseSlashes(_)
collapseSlashes(path) ==
  LET rest == collapseSlashes(Tail(path))
  IN IF path = <<>> THEN path
     ELSE IF path[1] = "/" /\ Len(path) > 1 /\ path[2] = "/" THEN rest
     ELSE <<path[1]>> \o rest

\* strings.Split at the slashes.
Segments(path) ==
  FoldLeft(LAMBDA segs, c : IF c = "/" THEN Append(segs, <<>>)
                            ELSE [segs EXCEPT ![Len(segs)] = Append(@, c)],
           << <<>> >>, path)

JoinSegments(segs) ==
  IF segs = <<>> THEN <<>>
  ELSE FoldLeft(LAMBDA path, seg : path \o <<"/">> \o seg, Head(segs), Tail(segs))

Dot == <<".">>
DotDot == <<".", ".">>

Resolve(out, seg) ==
  IF seg = Dot THEN out
  ELSE IF seg = DotDot THEN IF out = <<>> THEN out ELSE Front(out)
  ELSE Append(out, seg)

removeDotSegments(path) ==
  LET segs   == Segments(path)
      joined == JoinSegments(FoldLeft(Resolve, <<>>, segs))
      rooted == IF joined # <<>> /\ joined[1] = "/" THEN joined ELSE <<"/">> \o joined
  IN IF Last(segs) \in {Dot, DotDot} /\ Last(rooted) # "/" /\ Len(segs) > 1
     THEN Append(rooted, "/") ELSE rooted


CanonicalPath(path) ==
  removeDotSegments(collapseSlashes(stripSessionSegments(
    reencode(IF path = <<>> THEN <<"/">> ELSE path, isPathByte))))

-----------------------------------------------------------------------------
(* Law 3, and law 4 in the query. A query is its parts, a part its cells;  *)
(* the first "=" ends its key. u_ stands for the tracking prefixes, s for  *)
(* a session id's name.                                                    *)

\* strings.Cut at the first "=".
ParamKey(part) ==
  LET eq == SelectInSeq(part, LAMBDA c : c = "=")
  IN IF eq = 0 THEN part ELSE SubSeq(part, 1, eq - 1)

\* url.QueryUnescape fails on a percent sign that opens no escape.
Unescapes(key) == "%" \notin ToSet(key)
Unescaped(key) == [i \in DOMAIN key |-> IF Escaped(key[i]) THEN Decoded(key[i]) ELSE key[i]]

strippedParam(key) == key = <<"s">> \/ IsPrefix(<<"u", "_">>, key)

Dropped(part) ==
  LET key == IF Unescapes(ParamKey(part)) THEN Unescaped(ParamKey(part)) ELSE ParamKey(part)
  IN strippedParam([i \in DOMAIN key |-> Lower(key[i])])

canonicalQuery(query) ==
  LET kept == SelectSeq(query, LAMBDA part : part # <<>> /\ ~Dropped(part))
  IN [i \in DOMAIN kept |-> reencode(kept[i], isQueryByte)]

-----------------------------------------------------------------------------
Rejected == [scheme |-> "rejected"]

Canonicalize(u) ==
  LET scheme == Lower(u.scheme)
      host   == LowerHost(u.host)
  IN IF scheme \notin {"http", "https"} \/ RejectedHost(host) THEN Rejected
     ELSE [scheme |-> scheme, host |-> CanonicalHost(host),
           port |-> CanonicalPort(scheme, u.port),
           path |-> CanonicalPath(u.path), query |-> canonicalQuery(u.query)]

-----------------------------------------------------------------------------
(* The spellings a site and its visitors produce of one page.              *)

InitUrl == first \in Urls /\ url = first /\ spelled = 0

\* s with the cells t put in behind the first i.
Inserted(s, i, t) == SubSeq(s, 1, i) \o t \o SubSeq(s, i + 1, Len(s))

Slashes == {i \in DOMAIN url.path : url.path[i] = "/"}

Respell(u) == url' = u /\ spelled < MaxSpellings /\ spelled' = spelled + 1 /\ UNCHANGED first

\* The root's slash is left out; or behind any slash another one, a dot segment, or a
\* segment and its way back.
PathTwin ==
  \/ url.path = <<"/">> /\ Respell([url EXCEPT !.path = <<>>])
  \/ \E i \in Slashes : \E t \in { <<"/">>, <<".", "/">>, <<Escape("."), "/">>,
                                   <<"q", "/", ".", ".", "/">>,
                                   <<"q", "/", Escape("."), ".", "/">> } :
       Respell([url EXCEPT !.path = Inserted(@, i, t)])

\* A server appends its session id to a segment, in front of a slash or at the end.
SessionTwin ==
  /\ url.path # <<>>
  /\ \E i \in {k - 1 : k \in Slashes \ {1}} \cup {Len(url.path)} :
       Respell([url EXCEPT !.path = Inserted(@, i, <<";", "jsessionid=", "q">>)])

\* An octet that needs no escape is escaped, in the path or in a parameter.
EscapeTwin ==
  \/ \E i \in DOMAIN url.path :
       /\ url.path[i] \in {".", "q", "u"}
       /\ Respell([url EXCEPT !.path[i] = Escape(@)])
  \/ \E k \in DOMAIN url.query : \E i \in DOMAIN url.query[k] :
       /\ url.query[k][i] \in {"_", "q", "u"}
       /\ Unescapes(ParamKey(url.query[k]))
       /\ Respell([url EXCEPT !.query[k][i] = Escape(@)])

\* A campaign or a session adds its parameter anywhere in the query; a separator
\* too many leaves an empty part.
ParamTwin ==
  \E k \in 0 .. Len(url.query) :
    \E part \in { <<>>, <<"s">>, <<"s", "=", "q">>, <<"U", "_", "q", "=">>,
                   <<"u", Escape("_"), "=", "q", "=", "q">> } :
      Respell([url EXCEPT !.query = Inserted(@, k, <<part>>)])

\* Another spelling of the authority.
HostTwin ==
  \/ Respell([url EXCEPT !.scheme = IF @ = "http" THEN "HTTP" ELSE @,
                         !.host = [i \in DOMAIN @ |-> IF @[i] = "u" THEN "U" ELSE @[i]]])
  \/ Respell([url EXCEPT !.host = Append(@, "")])
  \/ Lower(url.scheme) = "http" /\ url.port = 0 /\ Respell([url EXCEPT !.port = 80])

NextUrl == PathTwin \/ SessionTwin \/ EscapeTwin \/ ParamTwin \/ HostTwin

-----------------------------------------------------------------------------

\* What FuzzCanonicalize asserts of every URL: the canonical form is a fixed point.
Idempotent ==
  LET canon == Canonicalize(url)
  IN canon # Rejected => Canonicalize(canon) = canon
=============================================================================
