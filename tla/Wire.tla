-------------------------------- MODULE Wire --------------------------------
(***************************************************************************)
(* The frames and bodies of src/wire: what one end of a connection appends *)
(* and the other end reads, over a stream that may be cut or damaged.      *)
(*                                                                         *)
(* The stream is a sequence of bytes 0 .. Byte - 1. A fixed field of       *)
(* several bytes is little endian and as wide as the constants say, u64    *)
(* like u32. A decode error is Bad.                                        *)
(***************************************************************************)
EXTENDS Integers, SequencesExt

CONSTANTS
  Byte,                   \* the values of a byte; two bytes are the widest field
  MaxFrame,               \* bound of a declared frame length
  maxTermLen, maxQueryTerms, maxShards, maxResultEntries, maxSnipDocs,
  Bodies,                 \* Bodies[kind]: the messages sent, per kind
  MaxSends                \* bound: frames sent on a connection

ASSUME WireAssumption == Byte \in Nat \ {0, 1}

VARIABLES
  sent,    \* the frames appended to the connection: [kind, reqid, msg]
  pipe,    \* the bytes that reach the reader
  fate     \* what happened to them: "whole", "cut" or "damaged"

wireVars == <<sent, pipe, fate>>

Bad == [bad |-> TRUE]
OpNot == 2

-----------------------------------------------------------------------------
(* Fields. A width is 1 for u8 and 2 for the wider ones.                   *)

Wide == 2
frameOverhead == 1 + Wide

LE(n, w) == IF w = 1 THEN <<n>> ELSE <<n % Byte, n \div Byte>>
Value(s, at, w) == IF w = 1 THEN s[at + 1] ELSE s[at + 1] + (Byte * s[at + 2])
Limit(w) == IF w = 1 THEN Byte ELSE Byte * Byte

Bytes(s, at, n) == SubSeq(s, at + 1, at + n)

\* A length-prefixed field, and a list of n items: Item(at) reads one at at, and gives
\* where it ends and what it is.
Prefixed(f, w) == LE(Len(f), w) \o f

ReadPrefixed(s, at, w) ==
  IF Len(s) < at + w \/ Len(s) < at + w + Value(s, at, w) THEN Bad
  ELSE [end |-> at + w + Value(s, at, w), val |-> Bytes(s, at + w, Value(s, at, w))]

ReadList(n, start, Item(_)) ==
  LET upto[i \in 0 .. n] ==
        LET done == IF i = 0 THEN [end |-> start, val |-> <<>>] ELSE upto[i - 1]
            next == IF i = 0 \/ done = Bad THEN Bad ELSE Item(done.end)
        IN IF i = 0 THEN done
           ELSE IF done = Bad \/ next = Bad THEN Bad
           ELSE [end |-> next.end, val |-> Append(done.val, next.val)]
  IN upto[n]

Concat(seqs) == FlattenSeq(seqs)

-----------------------------------------------------------------------------
(* HELLO: version, node id, the peer's limits.                             *)

HelloValid(h) == h.version # 0 /\ h.maxInflight # 0 /\ h.maxFrame # 0

AppendHello(h) ==
  IF ~HelloValid(h) THEN Bad
  ELSE LE(h.version, Wide) \o LE(h.nodeID, Wide) \o LE(h.maxInflight, Wide) \o LE(h.maxFrame, Wide)

ParseHello(s) ==
  LET h == [version |-> Value(s, 0, Wide), nodeID |-> Value(s, Wide, Wide),
            maxInflight |-> Value(s, 2 * Wide, Wide), maxFrame |-> Value(s, 3 * Wide, Wide)]
  IN IF Len(s) # 4 * Wide THEN Bad ELSE IF HelloValid(h) THEN h ELSE Bad

-----------------------------------------------------------------------------
(* QUERY: the plan of a query for a node. Tier and algorithm are left out, *)
(* two bytes that no check looks at.                                       *)

TermValid(t) == Len(t) \in 1 .. maxTermLen

QueryValid(q) ==
  /\ q.k # 0 /\ q.candidates >= q.k
  /\ Len(q.shards) \in 1 .. maxShards
  /\ Len(q.terms) \in 1 .. maxQueryTerms
  /\ \A i \in DOMAIN q.terms : TermValid(q.terms[i].term) /\ q.terms[i].op <= OpNot

AppendQuery(q) ==
  IF ~QueryValid(q) THEN Bad
  ELSE LE(q.budget, Wide) \o LE(q.k, Wide) \o LE(q.candidates, Wide)
       \o LE(Len(q.shards), Wide) \o Concat([i \in DOMAIN q.shards |-> LE(q.shards[i], Wide)])
       \o LE(Len(q.terms), 1)
       \o Concat([i \in DOMAIN q.terms |-> Prefixed(q.terms[i].term, 1)
                                           \o LE(q.terms[i].dfHint, Wide) \o LE(q.terms[i].op, 1)])

ReadQueryTerm(s, at) ==
  LET term == ReadPrefixed(s, at, 1)
  IN IF term = Bad \/ Len(s) < term.end + Wide + 1 THEN Bad
     ELSE [end |-> term.end + Wide + 1,
           val |-> [term |-> term.val, dfHint |-> Value(s, term.end, Wide), op |-> Value(s, term.end + Wide, 1)]]

ParseQuery(s) ==
  LET nshards == Value(s, 3 * Wide, Wide)
      pos     == 4 * Wide + Wide * nshards
      terms   == ReadList(Value(s, pos, 1), pos + 1, LAMBDA at : ReadQueryTerm(s, at))
      q       == [budget |-> Value(s, 0, Wide), k |-> Value(s, Wide, Wide), candidates |-> Value(s, 2 * Wide, Wide),
                  shards |-> [i \in 1 .. nshards |-> Value(s, 4 * Wide + Wide * (i - 1), Wide)],
                  terms |-> terms.val]
  IN IF Len(s) < 4 * Wide + 1 \/ Len(s) < pos + 1 THEN Bad
     ELSE IF terms = Bad \/ terms.end # Len(s) THEN Bad
     ELSE IF QueryValid(q) THEN q ELSE Bad

-----------------------------------------------------------------------------
(* QRESULT: a shard's hits and its statistics.                             *)

AppendQResult(r) ==
  IF Len(r.entries) > maxResultEntries \/ Len(r.stats) >= Limit(Wide) THEN Bad
  ELSE LE(r.degrade, 1) \o LE(Len(r.entries), Wide)
       \o Concat([i \in DOMAIN r.entries |-> LE(r.entries[i].docid, Wide) \o LE(r.entries[i].score, Wide)
                                             \o LE(r.entries[i].flags, 1)])
       \o Prefixed(r.stats, Wide)

EntrySize == 2 * Wide + 1

ParseQResult(s) ==
  LET n   == Value(s, 1, Wide)
      pos == 1 + Wide + EntrySize * n
      Entry_(i) == 1 + Wide + EntrySize * (i - 1)
  IN IF Len(s) < 1 + Wide \/ n > maxResultEntries \/ Len(s) < pos + Wide THEN Bad
     ELSE IF Len(s) # pos + Wide + Value(s, pos, Wide) THEN Bad
     ELSE [degrade |-> Value(s, 0, 1),
           entries |-> [i \in 1 .. n |-> [docid |-> Value(s, Entry_(i), Wide),
                                          score |-> Value(s, Entry_(i) + Wide, Wide),
                                          flags |-> Value(s, Entry_(i) + 2 * Wide, 1)]],
           stats |-> Bytes(s, pos + Wide, Len(s) - pos - Wide)]

-----------------------------------------------------------------------------
(* SNIP and its answer.                                                    *)

SnipValid(p) ==
  /\ Len(p.terms) \in 1 .. maxQueryTerms /\ \A i \in DOMAIN p.terms : TermValid(p.terms[i])
  /\ Len(p.docids) \in 1 .. maxSnipDocs

AppendSnip(p) ==
  IF ~SnipValid(p) THEN Bad
  ELSE LE(p.budget, Wide) \o LE(Len(p.terms), 1) \o Concat([i \in DOMAIN p.terms |-> Prefixed(p.terms[i], 1)])
       \o LE(Len(p.docids), Wide) \o Concat([i \in DOMAIN p.docids |-> LE(p.docids[i], Wide)])

ParseSnip(s) ==
  LET terms == ReadList(Value(s, Wide, 1), Wide + 1, LAMBDA at : ReadPrefixed(s, at, 1))
      n     == Value(s, terms.end, Wide)
      p     == [budget |-> Value(s, 0, Wide), terms |-> terms.val,
                docids |-> [i \in 1 .. n |-> Value(s, terms.end + Wide * i, Wide)]]
  IN IF Len(s) < Wide + 1 THEN Bad
     ELSE IF terms = Bad \/ Len(s) < terms.end + Wide THEN Bad
     ELSE IF Len(s) # terms.end + Wide + (Wide * n) THEN Bad
     ELSE IF SnipValid(p) THEN p ELSE Bad

AppendSnipResult(r) ==
  IF ~(/\ Len(r.records) \in 1 .. maxSnipDocs
       /\ \A i \in DOMAIN r.records :
            r.records[i].url # <<>> /\ \A f \in {"url", "title", "snippet"} : Len(r.records[i][f]) < Limit(Wide))
  THEN Bad
  ELSE LE(Len(r.records), Wide)
       \o Concat([i \in DOMAIN r.records |->
                    LE(r.records[i].docid, Wide) \o Prefixed(r.records[i].url, Wide)
                    \o Prefixed(r.records[i].title, Wide) \o Prefixed(r.records[i].snippet, Wide)])

ReadSnippetRecord(s, at) ==
  LET fields == ReadList(3, at + Wide, LAMBDA a : ReadPrefixed(s, a, Wide))
  IN IF Len(s) < at + Wide THEN Bad
     ELSE IF fields = Bad THEN Bad
     ELSE IF fields.val[1] = <<>> THEN Bad
     ELSE [end |-> fields.end, val |-> [docid |-> Value(s, at, Wide), url |-> fields.val[1],
                                        title |-> fields.val[2], snippet |-> fields.val[3]]]

ParseSnipResult(s) ==
  LET n       == Value(s, 0, Wide)
      records == ReadList(n, Wide, LAMBDA at : ReadSnippetRecord(s, at))
  IN IF Len(s) < Wide THEN Bad
     ELSE IF n \notin 1 .. maxSnipDocs THEN Bad
     ELSE IF records = Bad \/ records.end # Len(s) THEN Bad
     ELSE [records |-> records.val]

-----------------------------------------------------------------------------
(* Frames.                                                                 *)

KindHello == 1
KindPing == 2
KindQuery == 3
KindQResult == 4
KindSnip == 5
KindSnipResult == 6
KindBusy == 7
KindCancel == 8

EncodeBody(kind, msg) ==
  CASE kind = KindHello -> AppendHello(msg) [] kind = KindQuery -> AppendQuery(msg)
    [] kind = KindQResult -> AppendQResult(msg) [] kind = KindSnip -> AppendSnip(msg)
    [] kind = KindSnipResult -> AppendSnipResult(msg) [] OTHER -> <<>>

\* Mutant: bytes behind a body that has none are let through.
DecodeBodyLoose(kind, body) ==
  CASE kind = KindHello -> ParseHello(body) [] kind = KindQuery -> ParseQuery(body)
    [] kind = KindQResult -> ParseQResult(body) [] kind = KindSnip -> ParseSnip(body)
    [] kind = KindSnipResult -> ParseSnipResult(body)
    [] kind \in {KindPing, KindBusy, KindCancel} -> [nothing |-> TRUE]
    [] OTHER -> Bad

DecodeBody(kind, body) ==
  CASE kind = KindHello -> ParseHello(body) [] kind = KindQuery -> ParseQuery(body)
    [] kind = KindQResult -> ParseQResult(body) [] kind = KindSnip -> ParseSnip(body)
    [] kind = KindSnipResult -> ParseSnipResult(body)
    [] kind \in {KindPing, KindBusy, KindCancel} -> IF body = <<>> THEN [nothing |-> TRUE] ELSE Bad
    [] OTHER -> Bad

AppendFrame(kind, reqid, body) ==
  IF Len(body) > MaxFrame - frameOverhead THEN Bad
  ELSE LE(frameOverhead + Len(body), Wide) \o LE(kind, 1) \o LE(reqid, Wide) \o body

\* The frame in front of s and the bytes it takes; ReadFull fails when they end early.
ParseFrame(s) ==
  LET l == Value(s, 0, Wide)
  IN IF Len(s) < Wide THEN Bad
     ELSE IF l < frameOverhead \/ l > MaxFrame \/ Len(s) < Wide + l THEN Bad
     ELSE [end |-> Wide + l, kind |-> Value(s, Wide, 1), reqid |-> Value(s, Wide + 1, Wide),
           body |-> Bytes(s, Wide + frameOverhead, l - frameOverhead)]

\* FrameReader.Next until it fails: the frames, and whether the end came between two.
ReadFrames(s) ==
  LET From[at \in 0 .. Len(s)] ==
        LET f == ParseFrame(Bytes(s, at, Len(s) - at))
        IN IF at = Len(s) \/ f = Bad THEN [frames |-> <<>>, clean |-> at = Len(s)]
           ELSE LET rest == From[at + f.end] IN [rest EXCEPT !.frames = <<f>> \o @]
  IN From[0]

-----------------------------------------------------------------------------
InitWire == sent = <<>> /\ pipe = <<>> /\ fate = "whole"

Send(kind, reqid) ==
  \E msg \in Bodies[kind] :
    LET body == EncodeBody(kind, msg)
        frame == AppendFrame(kind, reqid, body)
    IN /\ fate = "whole" /\ Len(sent) < MaxSends
       /\ body # Bad /\ frame # Bad
       /\ sent' = Append(sent, [kind |-> kind, reqid |-> reqid, msg |-> msg])
       /\ pipe' = pipe \o frame
       /\ UNCHANGED fate

\* The connection dies and the rest of the stream with it.
CutPipe ==
  /\ fate = "whole"
  /\ \E n \in 0 .. Len(pipe) - 1 : pipe' = SubSeq(pipe, 1, n)
  /\ fate' = "cut" /\ UNCHANGED sent

\* A byte arrives as another one.
Damage ==
  /\ fate = "whole"
  /\ \E i \in DOMAIN pipe : \E b \in 0 .. Byte - 1 : b # pipe[i] /\ pipe' = [pipe EXCEPT ![i] = b]
  /\ fate' = "damaged" /\ UNCHANGED sent

NextWire == (\E kind \in DOMAIN Bodies : Send(kind, Len(sent))) \/ CutPipe \/ Damage

-----------------------------------------------------------------------------
\* The reader of a connection gets the frames that were sent, in order, as far as the
\* stream reaches, and takes a stream that was cut inside a frame for broken; whatever
\* it decodes, out of a damaged stream too, has that byte sequence as its only encoding.
OneEncoding ==
  LET read == ReadFrames(pipe)
      Frame(i) == AppendFrame(sent[i].kind, sent[i].reqid, EncodeBody(sent[i].kind, sent[i].msg))
      Msg(f) == DecodeBody(f.kind, f.body)
  IN /\ fate # "damaged" =>
          /\ IsPrefix([i \in DOMAIN read.frames |-> [kind |-> read.frames[i].kind, reqid |-> read.frames[i].reqid,
                                                     msg |-> Msg(read.frames[i])]], sent)
          /\ read.clean <=> \E n \in 0 .. Len(sent) : pipe = Concat([i \in 1 .. n |-> Frame(i)])
     /\ \A i \in DOMAIN read.frames :
          LET f == read.frames[i]
          IN Msg(f) # Bad => EncodeBody(f.kind, Msg(f)) = f.body
=============================================================================
