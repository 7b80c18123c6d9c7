-------------------------- MODULE ComponentProofs --------------------------
(***************************************************************************)
(* The components that share no state, as MCComponents explores them: the  *)
(* import, the choice of a manifest, the multipart upload, the read        *)
(* planner, the documents of a shard and the hot file, each with its own   *)
(* inductive invariant.                                                    *)
(***************************************************************************)
EXTENDS SegmentImport, PartUpload, ReadPlanner, Manifests, HotDocs, HotFile, Lemmas, FiniteSetTheorems

-----------------------------------------------------------------------------
(***************************************************************************)
(* The import. Every life of it writes the same segments, so whatever PUT  *)
(* lands late, and however often the command is repeated, a key has one    *)
(* content.                                                                *)
(*                                                                         *)
(* Reads(f)[n] is what an importer holds after n records of the feed f,    *)
(* with every full segment sealed; Segments(f) are the segments it will    *)
(* have sealed in the end. The invariant says that the bucket, the chain   *)
(* and the running life agree with them.                                   *)
(***************************************************************************)

\* An importer that has read nothing.
Blank == [open |-> [p \in HomePartition |-> <<>>], raw |-> [p \in HomePartition |-> 0],
          seen |-> [p \in HomePartition |-> {}], seq |-> [p \in HomePartition |-> 0], segs |-> {}]

\* Whether store makes a row of the record.
New(t, rec) == Accepted(rec) /\ Pair(rec) \notin t.seen[Home[rec.host]]

\* The row and the bytes that rec makes of its partition's open segment.
Grown(t, rec) == Append(t.open[Home[rec.host]], Pair(rec))
Bytes(t, rec) == t.raw[Home[rec.host]] + rec.bytes
Full(t, rec) == Len(Grown(t, rec)) >= SegRows \/ Bytes(t, rec) >= SegBytes

\* The segment that p seals next, with these rows.
SegmentOf(t, p, rows) == [key |-> <<p, t.seq[p] + 1>>, rows |-> rows]

\* What an importer holds after a new row: its partition grown, or its segment sealed.
Kept(t, rec) ==
  LET p == Home[rec.host] IN
  [open |-> [t.open EXCEPT ![p] = IF Full(t, rec) THEN <<>> ELSE Grown(t, rec)],
   raw |-> [t.raw EXCEPT ![p] = IF Full(t, rec) THEN 0 ELSE Bytes(t, rec)],
   seen |-> [t.seen EXCEPT ![p] = @ \cup {Pair(rec)}],
   seq |-> [t.seq EXCEPT ![p] = IF Full(t, rec) THEN @ + 1 ELSE @],
   segs |-> t.segs \cup (IF Full(t, rec) THEN {SegmentOf(t, p, Grown(t, rec))} ELSE {})]

After(t, rec) == IF New(t, rec) THEN Kept(t, rec) ELSE t

\* What an importer holds after n records of f, every full segment sealed and committed.
Reads(f) == LET T[n \in 0 .. Len(f)] == IF n = 0 THEN Blank ELSE After(T[n - 1], f[n]) IN T

-----------------------------------------------------------------------------
(* What a reading t of the first n records of f is like.                   *)

\* No row twice in a segment; no row in both of two.
Distinct(rows) == \A i, j \in DOMAIN rows : rows[i] = rows[j] => i = j
Apart(a, b) == ToSet(a) \cap ToSet(b) = {}

\* Row x is a page of partition p among the first n records.
PageOf(f, n, p, x) == \E i \in 1 .. n : Accepted(f[i]) /\ Home[f[i].host] = p /\ Pair(f[i]) = x

\* A reading is a record of functions over the partitions.
Shaped(t) ==
  /\ t.open = [p \in HomePartition |-> t.open[p]] /\ t.raw = [p \in HomePartition |-> t.raw[p]]
  /\ t.seen = [p \in HomePartition |-> t.seen[p]] /\ t.seq \in [HomePartition -> Nat]

\* The open segment of p: rows seen, each once, and no bytes without a row.
OpenRows(t, p) ==
  /\ IsSeq(t.open[p]) /\ Distinct(t.open[p]) /\ ToSet(t.open[p]) \subseteq t.seen[p]
  /\ t.open[p] = <<>> => t.raw[p] = 0

\* A sealed segment: a number of its partition already used, rows seen and no longer open.
Sealed(t, g) ==
  /\ \E p \in HomePartition : \E s \in 1 .. t.seq[p] :
       g.key = <<p, s>> /\ ToSet(g.rows) \subseteq t.seen[p] /\ Apart(g.rows, t.open[p])
  /\ IsSeq(g.rows) /\ Distinct(g.rows)

\* Row x of partition p is open or sealed.
Holds(t, p, x) == x \in ToSet(t.open[p]) \/ \E g \in t.segs : g.key[1] = p /\ x \in ToSet(g.rows)

\* A partition has seen exactly its pages among the n records and holds each of them; its
\* segments are numbered without a gap, and no two share a key or a row.
Good(f, n, t) ==
  /\ Shaped(t)
  /\ \A p \in HomePartition : /\ OpenRows(t, p)
                              /\ \A x : x \in t.seen[p] <=> PageOf(f, n, p, x)
                              /\ \A x \in t.seen[p] : Holds(t, p, x)
                              /\ \A s \in 1 .. t.seq[p] : \E g \in t.segs : g.key = <<p, s>>
  /\ \A g \in t.segs : Sealed(t, g)
  /\ \A g, h \in t.segs : g # h => g.key # h.key /\ Apart(g.rows, h.rows)

-----------------------------------------------------------------------------
(* The invariant.                                                          *)

\* What Flush seals of a reading.
Left(t) == {SegmentOf(t, p, t.open[p]) : p \in {q \in HomePartition : t.open[q] # <<>>}}

\* Every segment that a whole import of f seals.
Segments(f) == Reads(f)[Len(f)].segs \cup Left(Reads(f)[Len(f)])

\* The segment of p is being uploaded or committed.
Sealing(p) == doing \in {"put", "append"} /\ p = sealing

\* The reading where the running life is.
Here == Reads(feed)[nread]

\* A partition of the running life: as it was read, or with its full segment under way, or
\* flushing, or flushed.
AsRead(p) == open[p] = Here.open[p] /\ raw[p] = Here.raw[p] /\ seq[p] = Here.seq[p]
Filled(p) == /\ Sealing(p) /\ seq[p] = Here.seq[p] /\ Here.open[p] = <<>> /\ Here.raw[p] = 0
             /\ \E g \in Here.segs : g.key = <<p, seq[p]>> /\ g.rows = open[p]
Flushing(p) == /\ Sealing(p) /\ nread = Len(feed) /\ seq[p] = Here.seq[p] + 1
               /\ open[p] = Here.open[p] /\ open[p] # <<>>
Flushed(p) == /\ doing # "reading" /\ ~Sealing(p) /\ nread = Len(feed)
              /\ seq[p] = Here.seq[p] + 1 /\ open[p] = <<>> /\ Here.open[p] # <<>>

\* Partition p of the running life: where its reading is, and every number it has used live,
\* except the one under way.
Line(p) ==
  /\ seen[p] = Here.seen[p]
  /\ (AsRead(p) /\ ~Sealing(p)) \/ Filled(p) \/ Flushing(p) \/ Flushed(p)
  /\ \A s \in 1 .. seq[p] : <<p, s>> \in Live \/ (Sealing(p) /\ s = seq[p])

\* The running life.
Life == /\ nread \in 0 .. Len(feed)
        /\ open = [p \in HomePartition |-> open[p]] /\ raw = [p \in HomePartition |-> raw[p]]
        /\ seen = [p \in HomePartition |-> seen[p]] /\ seq = [p \in HomePartition |-> seq[p]]
        /\ doing # "down" => \A p \in HomePartition : Line(p)
        /\ doing \in {"put", "append"} => sealing \in HomePartition
        /\ doing = "append" => Segment \in DOMAIN objects
        /\ doing \in {"flushing", "done"} => nread = Len(feed)
        /\ doing = "done" => \A p \in HomePartition : open[p] = <<>>
        /\ doing \in {"down", "reading", "put", "append", "flushing", "done"}

\* These rows under this key are a segment of the feed.
IsSegment(k, rows) == \E g \in Segments(feed) : g.key = k /\ g.rows = rows

\* The bucket holds segments of the feed, and what lands late is one.
Bucket == /\ \A k \in DOMAIN objects : IsSegment(k, objects[k])
          /\ \A put \in late : IsSegment(put.key, put.rows)

\* The chain names objects that are there, by their length, numbered without a gap.
Ledger == /\ IsSeq(commits)
          /\ \A i \in DOMAIN commits :
               Key(commits[i]) \in DOMAIN objects /\ commits[i].rows = Len(objects[Key(commits[i])])
          /\ \A k \in Live : k[2] > 1 => <<k[1], k[2] - 1>> \in Live

\* The inductive invariant.
ImportInv == feed \in Feeds /\ Life /\ Bucket /\ Ledger

-----------------------------------------------------------------------------
(* The reading.                                                            *)

\* The reading is defined for every feed, record by record.
LEMMA ReadsAre ==
  ASSUME NEW f, Len(f) \in Nat
  PROVE  /\ Reads(f)[0] = Blank
         /\ \A n \in 1 .. Len(f) : Reads(f)[n] = After(Reads(f)[n - 1], f[n])
<1> DEFINE Run(n, T) == T = [m \in 0 .. n |-> IF m = 0 THEN Blank ELSE After(T[m - 1], f[m])]
           S == {n \in Nat : \E T : Run(n, T)}
<1>1. 0 \in S
  <2>1. Run(0, [m \in 0 .. 0 |-> Blank])
    OBVIOUS
  <2> QED BY <2>1
<1>2. ASSUME NEW n \in Nat, n \in S PROVE n + 1 \in S
  <2>1. PICK T : Run(n, T)
    BY <1>2
  <2> DEFINE U == [m \in 0 .. n + 1 |-> IF m <= n THEN T[m] ELSE After(T[n], f[n + 1])]
  <2>2. \A m \in 0 .. n : T[m] = IF m = 0 THEN Blank ELSE After(T[m - 1], f[m])
    BY <2>1
  <2>3. ASSUME NEW m \in 0 .. n + 1
        PROVE  U[m] = IF m = 0 THEN Blank ELSE After(U[m - 1], f[m])
    <3>1. CASE m <= n
      <4>1. U[m] = T[m] /\ m \in 0 .. n /\ (m # 0 => U[m - 1] = T[m - 1])
        BY <3>1
      <4> HIDE DEF U
      <4> QED BY <2>2, <4>1
    <3>2. CASE m = n + 1
      <4>1. U[m] = After(T[n], f[n + 1]) /\ U[m - 1] = T[n] /\ m # 0
        BY <3>2
      <4> HIDE DEF U
      <4> QED BY <3>2, <4>1
    <3> QED BY <3>1, <3>2
  <2>4. U = [m \in 0 .. n + 1 |-> U[m]]
    OBVIOUS
  <2> HIDE DEF U
  <2>5. [m \in 0 .. n + 1 |-> U[m]] = [m \in 0 .. n + 1 |-> IF m = 0 THEN Blank ELSE After(U[m - 1], f[m])]
    BY <2>3
  <2>6. Run(n + 1, U)
    BY <2>4, <2>5
  <2> HIDE DEF Run
  <2> QED BY <2>6
<1>3. \E T : Run(Len(f), T)
  <2> HIDE DEF Run
  <2>1. Nat \subseteq S
    <3> HIDE DEF S
    <3> QED BY <1>1, <1>2, NatRise
  <2> QED BY <2>1
<1>4. Run(Len(f), Reads(f))
  BY <1>3 DEF Reads
<1> QED BY <1>4

\* One more row: the rows of the open segment behind it.
LEMMA GrownRows ==
  ASSUME NEW t, NEW rec, NEW p, p = Home[rec.host], OpenRows(t, p), Pair(rec) \notin t.seen[p]
  PROVE  /\ IsSeq(Grown(t, rec)) /\ Distinct(Grown(t, rec)) /\ Grown(t, rec) # <<>>
         /\ ToSet(Grown(t, rec)) = ToSet(t.open[p]) \cup {Pair(rec)}
<1> DEFINE o == t.open[p]
           x == Pair(rec)
           g == Append(o, x)
<1>1. IsSeq(o) /\ Distinct(o) /\ x \notin ToSet(o)
  BY DEF OpenRows
<1>2. Grown(t, rec) = g
  BY DEF Grown
<1> HIDE DEF o, x
<1>3. /\ IsSeq(g) /\ Len(g) = Len(o) + 1 /\ g[Len(o) + 1] = x /\ \A i \in 1 .. Len(o) : g[i] = o[i]
  BY <1>1, AppendParts
<1>4. /\ Len(o) \in Nat /\ DOMAIN o = 1 .. Len(o) /\ Len(g) \in Nat /\ DOMAIN g = 1 .. Len(g)
      /\ (g = <<>> <=> Len(g) = 0)
  BY <1>1, <1>3, SeqParts
<1> HIDE DEF g
<1>5. \A i \in 1 .. Len(o) : o[i] # x
  BY <1>1, <1>4 DEF ToSet
<1>6. Distinct(g)
  <2> SUFFICES ASSUME NEW i \in DOMAIN g, NEW j \in DOMAIN g, g[i] = g[j] PROVE i = j
    BY DEF Distinct
  <2>1. \A k \in DOMAIN g : k = Len(o) + 1 \/ k \in 1 .. Len(o)
    BY <1>3, <1>4
  <2>2. CASE i \in 1 .. Len(o) /\ j \in 1 .. Len(o)
    BY <1>1, <1>3, <1>4, <2>2 DEF Distinct
  <2> QED BY <1>3, <1>5, <2>1, <2>2
<1>7. ToSet(g) = ToSet(o) \cup {x}
  <2>1. \A k : k \in DOMAIN g <=> k = Len(o) + 1 \/ k \in DOMAIN o
    BY <1>3, <1>4
  <2> QED BY <1>3, <1>4, <2>1 DEF ToSet
<1> QED BY <1>2, <1>3, <1>4, <1>6, <1>7 DEF o, x

\* A page lies in one partition: its URL names its host.
LEMMA OneHome ==
  ASSUME NEW f \in Feeds, NEW n \in 0 .. Len(f), NEW t, Good(f, n, t)
  PROVE  /\ Len(f) \in Nat
         /\ HomePartition \subseteq Nat
         /\ \A i \in 1 .. Len(f) : Home[f[i].host] \in HomePartition
         /\ \A p, q \in HomePartition : p # q => t.seen[p] \cap t.seen[q] = {}
         /\ \A i \in 1 .. Len(f) : Pair(f[i]) \notin t.seen[Home[f[i].host]] =>
              \A p \in HomePartition : Pair(f[i]) \notin t.seen[p]
<1>1. Len(f) \in Nat /\ DOMAIN f = 1 .. Len(f)
  BY ImportAssumption, SeqParts DEF IsSeq
<1>2. \A i \in 1 .. Len(f) : f[i].host \in DOMAIN Home /\ Home[f[i].host] \in HomePartition
  BY <1>1, ImportAssumption DEF HomePartition
<1>3. HomePartition \subseteq Nat
  BY ImportAssumption DEF HomePartition
<1>4. \A i, j \in 1 .. Len(f) : Pair(f[i]) = Pair(f[j]) => Home[f[i].host] = Home[f[j].host]
  <2>1. \A i, j \in 1 .. Len(f) : Pair(f[i]) = Pair(f[j]) => f[i].url = f[j].url
    BY DEF Pair
  <2>2. \A i, j \in DOMAIN f : f[i].url = f[j].url => f[i].host = f[j].host
    BY ImportAssumption
  <2> QED BY <1>1, <2>1, <2>2
<1>5. \A p \in HomePartition : \A x \in t.seen[p] : PageOf(f, n, p, x)
  BY DEF Good
<1>6. \A p \in HomePartition : \A x : PageOf(f, n, p, x) => \E i \in 1 .. Len(f) : Home[f[i].host] = p /\ Pair(f[i]) = x
  BY <1>1 DEF PageOf
<1> QED BY <1>1, <1>2, <1>3, <1>4, <1>5, <1>6

\* What one new row changes of a reading.
LEMMA KeptParts ==
  ASSUME NEW t, NEW rec, Shaped(t), NEW p \in HomePartition, p = Home[rec.host]
  PROVE  LET u == Kept(t, rec) IN
         /\ Shaped(u)
         /\ \A q \in HomePartition : q # p => /\ u.open[q] = t.open[q] /\ u.raw[q] = t.raw[q]
                                              /\ u.seen[q] = t.seen[q] /\ u.seq[q] = t.seq[q]
         /\ u.seen[p] = t.seen[p] \cup {Pair(rec)}
         /\ Full(t, rec) => /\ u.open[p] = <<>> /\ u.raw[p] = 0 /\ u.seq[p] = t.seq[p] + 1
                            /\ u.segs = t.segs \cup {SegmentOf(t, p, Grown(t, rec))}
         /\ ~Full(t, rec) => /\ u.open[p] = Grown(t, rec) /\ u.raw[p] = Bytes(t, rec)
                             /\ u.seq[p] = t.seq[p] /\ u.segs = t.segs
<1> DEFINE u == Kept(t, rec)
           F == Full(t, rec)
           G == Grown(t, rec)
<1> HIDE DEF F, G
<1>1. /\ u.open = [t.open EXCEPT ![p] = IF F THEN <<>> ELSE G]
      /\ u.raw = [t.raw EXCEPT ![p] = IF F THEN 0 ELSE Bytes(t, rec)]
      /\ u.seen = [t.seen EXCEPT ![p] = @ \cup {Pair(rec)}]
      /\ u.seq = [t.seq EXCEPT ![p] = IF F THEN @ + 1 ELSE @]
      /\ u.segs = t.segs \cup (IF F THEN {SegmentOf(t, p, G)} ELSE {})
  BY DEF Kept, F, G
<1> HIDE DEF u
<1>2. /\ t.open = [q \in HomePartition |-> t.open[q]] /\ t.raw = [q \in HomePartition |-> t.raw[q]]
      /\ t.seen = [q \in HomePartition |-> t.seen[q]] /\ t.seq \in [HomePartition -> Nat]
  BY DEF Shaped
<1>3. u.open = [q \in HomePartition |-> u.open[q]] /\ u.open[p] = (IF F THEN <<>> ELSE G)
      /\ \A q \in HomePartition : q # p => u.open[q] = t.open[q]
  BY <1>1, <1>2
<1>4. u.raw = [q \in HomePartition |-> u.raw[q]] /\ u.raw[p] = (IF F THEN 0 ELSE Bytes(t, rec))
      /\ \A q \in HomePartition : q # p => u.raw[q] = t.raw[q]
  BY <1>1, <1>2
<1>5. u.seen = [q \in HomePartition |-> u.seen[q]] /\ u.seen[p] = t.seen[p] \cup {Pair(rec)}
      /\ \A q \in HomePartition : q # p => u.seen[q] = t.seen[q]
  BY <1>1, <1>2
<1>6. u.seq \in [HomePartition -> Nat] /\ u.seq[p] = (IF F THEN t.seq[p] + 1 ELSE t.seq[p])
      /\ \A q \in HomePartition : q # p => u.seq[q] = t.seq[q]
  BY <1>1, <1>2
<1>7. Shaped(u)
  BY <1>3, <1>4, <1>5, <1>6 DEF Shaped
<1> QED BY <1>1, <1>3, <1>4, <1>5, <1>6, <1>7 DEF u, F, G

\* A reading with nothing read.
LEMMA GoodStart == ASSUME NEW f PROVE Good(f, 0, Blank)
<1> DEFINE t == Blank
<1>1. /\ \A p \in HomePartition : t.open[p] = <<>> /\ t.raw[p] = 0 /\ t.seen[p] = {} /\ t.seq[p] = 0
      /\ t.segs = {} /\ Shaped(t)
  BY DEF Blank, Shaped
<1> HIDE DEF t
<1>2. IsSeq(<<>>) /\ Distinct(<<>>) /\ ToSet(<<>>) = {}
  BY DEF IsSeq, Distinct, ToSet
<1>3. \A p \in HomePartition : OpenRows(t, p)
  BY <1>1, <1>2 DEF OpenRows
<1>4. \A p, x : ~PageOf(f, 0, p, x)
  BY DEF PageOf
<1>5. Good(f, 0, t)
  BY <1>1, <1>3, <1>4 DEF Good
<1> QED BY <1>5 DEF t

\* One more record read.
LEMMA GoodStep ==
  ASSUME NEW f \in Feeds, NEW n \in Nat, n + 1 <= Len(f), NEW t, Good(f, n, t)
  PROVE  Good(f, n + 1, After(t, f[n + 1]))
<1> DEFINE rec == f[n + 1]
           x == Pair(rec)
           p == Home[rec.host]
           u == After(t, rec)
<1>0. p = Home[rec.host] /\ x = Pair(rec)
  OBVIOUS
<1>1. /\ Len(f) \in Nat /\ n \in 0 .. Len(f) /\ n + 1 \in 1 .. Len(f) /\ HomePartition \subseteq Nat
      /\ p \in HomePartition
  BY OneHome, ImportAssumption, SeqParts DEF IsSeq
<1>2. /\ \A q, r \in HomePartition : q # r => t.seen[q] \cap t.seen[r] = {}
      /\ x \notin t.seen[p] => \A q \in HomePartition : x \notin t.seen[q]
  BY <1>1, OneHome
<1>3. \A q : \A y : PageOf(f, n + 1, q, y) <=> PageOf(f, n, q, y) \/ (Accepted(rec) /\ p = q /\ y = x)
  <2>1. \A i : i \in 1 .. n + 1 <=> i \in 1 .. n \/ i = n + 1
    BY <1>1
  <2> QED BY <2>1 DEF PageOf
<1>4. /\ Shaped(t)
      /\ \A q \in HomePartition : /\ OpenRows(t, q)
                                  /\ \A y : y \in t.seen[q] <=> PageOf(f, n, q, y)
                                  /\ \A y \in t.seen[q] : Holds(t, q, y)
                                  /\ \A s \in 1 .. t.seq[q] : \E g \in t.segs : g.key = <<q, s>>
      /\ \A g \in t.segs : Sealed(t, g)
      /\ \A g, h \in t.segs : g # h => g.key # h.key /\ Apart(g.rows, h.rows)
  BY DEF Good
<1> HIDE DEF x, p, rec
<1>5. CASE ~New(t, rec)
  <2>1. u = t
    BY <1>5 DEF After
  <2>2. Accepted(rec) => x \in t.seen[p]
    BY <1>5 DEF New, x, p
  <2>3. \A q \in HomePartition : \A y : y \in t.seen[q] <=> PageOf(f, n + 1, q, y)
    BY <1>1, <1>3, <1>4, <2>2
  <2>4. Good(f, n + 1, t)
    BY <1>4, <2>3 DEF Good
  <2> QED BY <2>1, <2>4 DEF rec
<1>6. CASE New(t, rec)
  <2> DEFINE G == Grown(t, rec)
             F == Full(t, rec)
             new == SegmentOf(t, p, G)
  <2>1. Accepted(rec) /\ x \notin t.seen[p] /\ u = Kept(t, rec)
    BY <1>6 DEF New, After, x, p
  <2>2. \A q \in HomePartition : x \notin t.seen[q]
    BY <1>2, <2>1
  <2> HIDE DEF u
  <2>3. /\ Shaped(u)
        /\ \A q \in HomePartition : q # p => /\ u.open[q] = t.open[q] /\ u.raw[q] = t.raw[q]
                                             /\ u.seen[q] = t.seen[q] /\ u.seq[q] = t.seq[q]
        /\ u.seen[p] = t.seen[p] \cup {x}
        /\ F => u.open[p] = <<>> /\ u.raw[p] = 0 /\ u.seq[p] = t.seq[p] + 1 /\ u.segs = t.segs \cup {new}
        /\ ~F => u.open[p] = G /\ u.seq[p] = t.seq[p] /\ u.segs = t.segs
    <3>1. Shaped(t) /\ p \in HomePartition /\ p = Home[rec.host]
      BY <1>0, <1>1, <1>4
    <3> HIDE DEF F, G, new
    <3>2. LET v == Kept(t, rec) IN
          /\ Shaped(v)
          /\ \A q \in HomePartition : q # p => /\ v.open[q] = t.open[q] /\ v.raw[q] = t.raw[q]
                                               /\ v.seen[q] = t.seen[q] /\ v.seq[q] = t.seq[q]
          /\ v.seen[p] = t.seen[p] \cup {Pair(rec)}
          /\ Full(t, rec) => /\ v.open[p] = <<>> /\ v.raw[p] = 0 /\ v.seq[p] = t.seq[p] + 1
                             /\ v.segs = t.segs \cup {SegmentOf(t, p, Grown(t, rec))}
          /\ ~Full(t, rec) => /\ v.open[p] = Grown(t, rec) /\ v.raw[p] = Bytes(t, rec)
                              /\ v.seq[p] = t.seq[p] /\ v.segs = t.segs
      BY <3>1, KeptParts
    <3>3. u = Kept(t, rec) /\ Pair(rec) = x
      BY <1>0, <2>1
    <3>4. (F <=> Full(t, rec)) /\ G = Grown(t, rec) /\ new = SegmentOf(t, p, G)
      BY DEF F, G, new
    <3> QED BY <3>2, <3>3, <3>4
  <2>4. IsSeq(G) /\ Distinct(G) /\ G # <<>> /\ ToSet(G) = ToSet(t.open[p]) \cup {x}
    BY <1>1, <1>4, <2>1, GrownRows DEF x, p
  <2>5. /\ \A q \in HomePartition : t.seq[q] \in Nat /\ u.seq[q] \in Nat /\ u.seq[q] >= t.seq[q]
        /\ new.key = <<p, t.seq[p] + 1>> /\ new.rows = G
    <3>1. new.key = <<p, t.seq[p] + 1>> /\ new.rows = G
      BY DEF SegmentOf
    <3>2. \A q \in HomePartition : t.seq[q] \in Nat /\ u.seq[q] \in Nat
      BY <1>4, <2>3 DEF Shaped
    <3> HIDE DEF F, G, new
    <3>3. \A q \in HomePartition : u.seq[q] = t.seq[q] \/ (q = p /\ F /\ u.seq[q] = t.seq[q] + 1)
      BY <2>3
    <3> QED BY <3>1, <3>2, <3>3
  <2> HIDE DEF G, F, new
  <2>6. IsSeq(<<>>) /\ Distinct(<<>>) /\ ToSet(<<>>) = {}
    BY DEF IsSeq, Distinct, ToSet
  <2>7. \A q \in HomePartition : OpenRows(u, q)
    <3> SUFFICES ASSUME NEW q \in HomePartition PROVE OpenRows(u, q)
      OBVIOUS
    <3>1. CASE q # p
      BY <1>4, <2>3, <3>1 DEF OpenRows
    <3>2. CASE q = p
      <4>1. ToSet(t.open[p]) \subseteq t.seen[p]
        BY <1>1, <1>4 DEF OpenRows
      <4>2. CASE F
        BY <2>3, <2>6, <3>2, <4>2 DEF OpenRows
      <4>3. CASE ~F
        BY <2>3, <2>4, <3>2, <4>1, <4>3 DEF OpenRows
      <4> QED BY <4>2, <4>3
    <3> QED BY <3>1, <3>2
  <2>8. \A q \in HomePartition : \A y : y \in u.seen[q] <=> PageOf(f, n + 1, q, y)
    <3> SUFFICES ASSUME NEW q \in HomePartition, NEW y PROVE y \in u.seen[q] <=> PageOf(f, n + 1, q, y)
      OBVIOUS
    <3>1. y \in u.seen[q] <=> y \in t.seen[q] \/ (p = q /\ y = x)
      BY <2>3
    <3> QED BY <1>3, <1>4, <2>1, <3>1
  <2>9. t.segs \subseteq u.segs
    BY <2>3
  <2>10. \A q \in HomePartition : \A y \in u.seen[q] : Holds(u, q, y)
    <3> SUFFICES ASSUME NEW q \in HomePartition, NEW y \in u.seen[q] PROVE Holds(u, q, y)
      OBVIOUS
    <3>1. CASE q # p
      <4>1. Holds(t, q, y) /\ u.open[q] = t.open[q]
        BY <1>4, <2>3, <3>1
      <4> QED BY <2>9, <4>1 DEF Holds
    <3>2. CASE q = p
      <4>1. y = x \/ Holds(t, p, y)
        BY <1>4, <2>3, <3>2
      <4>2. y \in ToSet(G) \/ \E g \in t.segs : g.key[1] = p /\ y \in ToSet(g.rows)
        BY <2>4, <4>1 DEF Holds
      <4>3. CASE F
        <5>1. new \in u.segs /\ new.key[1] = p
          BY <2>3, <2>5, <4>3
        <5> QED BY <2>5, <2>9, <3>2, <4>2, <5>1 DEF Holds
      <4>4. CASE ~F
        BY <2>3, <3>2, <4>2, <4>4 DEF Holds
      <4> QED BY <4>3, <4>4
    <3> QED BY <3>1, <3>2
  <2>11. \A q \in HomePartition : \A s \in 1 .. u.seq[q] : \E g \in u.segs : g.key = <<q, s>>
    <3> SUFFICES ASSUME NEW q \in HomePartition, NEW s \in 1 .. u.seq[q]
                 PROVE  \E g \in u.segs : g.key = <<q, s>>
      OBVIOUS
    <3>1. s \in 1 .. t.seq[q] \/ (F /\ q = p /\ s = t.seq[p] + 1)
      <4>1. t.seq[q] \in Nat /\ (u.seq[q] = t.seq[q] \/ (q = p /\ F /\ u.seq[q] = t.seq[q] + 1))
        BY <2>3, <2>5
      <4>2. CASE u.seq[q] = t.seq[q]
        BY <4>1, <4>2
      <4>3. CASE q = p /\ F /\ u.seq[q] = t.seq[q] + 1
        BY <4>1, <4>3
      <4> QED BY <4>1, <4>2, <4>3
    <3>2. CASE s \in 1 .. t.seq[q]
      BY <1>4, <2>9, <3>2
    <3> QED BY <2>3, <2>5, <3>1, <3>2
  <2>12. \A g \in t.segs : Sealed(u, g) /\ Apart(g.rows, G) /\ g.key # new.key
    <3> SUFFICES ASSUME NEW g \in t.segs PROVE Sealed(u, g) /\ Apart(g.rows, G) /\ g.key # new.key
      OBVIOUS
    <3>1. PICK q \in HomePartition : \E s \in 1 .. t.seq[q] :
            g.key = <<q, s>> /\ ToSet(g.rows) \subseteq t.seen[q] /\ Apart(g.rows, t.open[q])
      BY <1>4 DEF Sealed
    <3>2. PICK s \in 1 .. t.seq[q] : g.key = <<q, s>>
      BY <3>1
    <3>3. ToSet(g.rows) \subseteq t.seen[q] /\ Apart(g.rows, t.open[q])
      BY <3>1
    <3>4. ToSet(t.open[p]) \subseteq t.seen[p]
      BY <1>1, <1>4 DEF OpenRows
    <3>5. ToSet(g.rows) \cap ToSet(G) = {}
      <4>1. ToSet(g.rows) \cap ToSet(t.open[p]) = {}
        BY <1>1, <1>2, <3>3, <3>4 DEF Apart
      <4> QED BY <2>2, <2>4, <3>3, <4>1
    <3>6. g.key # new.key
      BY <1>1, <2>5, <3>2
    <3>7. Apart(g.rows, u.open[q])
      BY <2>3, <2>6, <3>3, <3>5 DEF Apart
    <3>8. s \in 1 .. u.seq[q] /\ ToSet(g.rows) \subseteq u.seen[q]
      BY <2>3, <2>5, <3>2, <3>3
    <3>9. Sealed(u, g)
      BY <1>4, <3>2, <3>7, <3>8 DEF Sealed
    <3> QED BY <3>5, <3>6, <3>9 DEF Apart
  <2>13. F => Sealed(u, new)
    <3> HAVE F
    <3>1. new.key = <<p, u.seq[p]>> /\ u.seq[p] \in 1 .. u.seq[p]
      BY <1>1, <2>3, <2>5
    <3>2. ToSet(t.open[p]) \subseteq t.seen[p]
      BY <1>1, <1>4 DEF OpenRows
    <3>3. ToSet(new.rows) \subseteq u.seen[p] /\ Apart(new.rows, u.open[p])
      BY <2>3, <2>4, <2>5, <2>6, <3>2 DEF Apart
    <3> QED BY <1>1, <2>4, <2>5, <3>1, <3>3 DEF Sealed
  <2>14. \A g, h \in u.segs : g # h => g.key # h.key /\ Apart(g.rows, h.rows)
    <3>1. \A g \in u.segs : g \in t.segs \/ g = new
      BY <2>3
    <3>2. \A g \in t.segs : g.key # new.key /\ Apart(g.rows, new.rows) /\ Apart(new.rows, g.rows)
      BY <2>5, <2>12 DEF Apart
    <3> QED BY <1>4, <3>1, <3>2
  <2>15. \A g \in u.segs : Sealed(u, g)
    BY <2>3, <2>12, <2>13
  <2> HIDE DEF Good
  <2>16. Good(f, n + 1, u)
    BY <2>3, <2>7, <2>8, <2>10, <2>11, <2>14, <2>15 DEF Good
  <2> QED BY <2>16 DEF u, rec
<1> QED BY <1>5, <1>6

\* Every reading is good, and it loses no segment.
LEMMA AllGood ==
  ASSUME NEW f \in Feeds
  PROVE  /\ Len(f) \in Nat
         /\ \A n \in 0 .. Len(f) : /\ Good(f, n, Reads(f)[n])
                                   /\ Reads(f)[n].segs \subseteq Reads(f)[Len(f)].segs
<1> DEFINE L == Len(f)
           T == Reads(f)
<1>1. L \in Nat
  BY ImportAssumption, SeqParts DEF IsSeq
<1>2. T[0] = Blank /\ \A n \in 1 .. L : T[n] = After(T[n - 1], f[n])
  BY <1>1, ReadsAre
<1> HIDE DEF T
<1>3. ASSUME NEW n \in Nat, n + 1 <= L PROVE T[n + 1] = After(T[n], f[n + 1])
  <2>1. n + 1 \in 1 .. L /\ (n + 1) - 1 = n
    BY <1>1, <1>3
  <2> QED BY <1>2, <2>1
<1>4. \A n \in Nat : n <= L => Good(f, n, T[n])
  <2> DEFINE S == {n \in Nat : n <= L => Good(f, n, T[n])}
  <2>1. 0 \in S
    BY <1>2, GoodStart
  <2>2. ASSUME NEW n \in Nat, n \in S PROVE n + 1 \in S
    <3>1. SUFFICES ASSUME n + 1 <= L PROVE Good(f, n + 1, T[n + 1])
      BY <1>1
    <3>2. Good(f, n, T[n])
      BY <1>1, <2>2, <3>1
    <3> QED BY <1>3, <3>1, <3>2, GoodStep
  <2> HIDE DEF S
  <2>3. Nat \subseteq S
    BY <2>1, <2>2, NatRise
  <2> QED BY <2>3 DEF S
<1>5. ASSUME NEW t, NEW rec PROVE t.segs \subseteq After(t, rec).segs
  BY DEF After, Kept
<1>6. \A d \in Nat : d <= L => T[L - d].segs \subseteq T[L].segs
  <2> DEFINE S == {d \in Nat : d <= L => T[L - d].segs \subseteq T[L].segs}
  <2>1. 0 \in S
    BY <1>1
  <2>2. ASSUME NEW d \in Nat, d \in S PROVE d + 1 \in S
    <3>1. SUFFICES ASSUME d + 1 <= L PROVE T[L - (d + 1)].segs \subseteq T[L].segs
      BY <1>1
    <3>2. T[L - d].segs \subseteq T[L].segs
      BY <1>1, <2>2, <3>1
    <3> DEFINE m == L - (d + 1)
    <3>3. m \in Nat /\ m + 1 <= L /\ m + 1 = L - d
      BY <1>1, <3>1
    <3> HIDE DEF m
    <3>4. T[m + 1] = After(T[m], f[m + 1])
      BY <1>3, <3>3
    <3>5. T[m].segs \subseteq T[m + 1].segs
      BY <1>5, <3>4
    <3>6. T[m].segs \subseteq T[L].segs
      BY <3>2, <3>3, <3>5
    <3> QED BY <3>6 DEF m
  <2> HIDE DEF S
  <2>3. Nat \subseteq S
    BY <2>1, <2>2, NatRise
  <2> QED BY <2>3 DEF S
<1>7. ASSUME NEW n \in 0 .. L PROVE Good(f, n, T[n]) /\ T[n].segs \subseteq T[L].segs
  <2>1. n \in Nat /\ L - n \in Nat /\ L - n <= L /\ L - (L - n) = n /\ n <= L
    BY <1>1
  <2> QED BY <1>4, <1>6, <2>1
<1> QED BY <1>1, <1>7 DEF T

\* The segments of a feed: numbered without gaps, without a row twice, and all its pages.
LEMMA SegmentsAre ==
  ASSUME NEW f \in Feeds, NEW t, t = Reads(f)[Len(f)]
  PROVE  /\ \A g \in Segments(f) :
              /\ IsSeq(g.rows) /\ Distinct(g.rows)
              /\ \E p \in HomePartition : \E s \in Nat :
                   /\ g.key = <<p, s>> /\ \A x \in ToSet(g.rows) : PageOf(f, Len(f), p, x)
                   /\ s \in 1 .. t.seq[p] \/ (s = t.seq[p] + 1 /\ t.open[p] # <<>>)
         /\ \A g, h \in Segments(f) : g # h => g.key # h.key /\ Apart(g.rows, h.rows)
         /\ \A p \in HomePartition : \A x : PageOf(f, Len(f), p, x) =>
              \E g \in Segments(f) : x \in ToSet(g.rows)
<1> DEFINE L == Len(f)
<1>1. L \in Nat /\ L \in 0 .. L /\ Good(f, L, t)
  BY AllGood
<1>2. /\ Shaped(t)
      /\ \A q \in HomePartition : /\ OpenRows(t, q)
                                  /\ \A y : y \in t.seen[q] <=> PageOf(f, L, q, y)
                                  /\ \A y \in t.seen[q] : Holds(t, q, y)
      /\ \A g \in t.segs : Sealed(t, g)
      /\ \A g, h \in t.segs : g # h => g.key # h.key /\ Apart(g.rows, h.rows)
  BY <1>1 DEF Good
<1>3. HomePartition \subseteq Nat /\ \A p, q \in HomePartition : p # q => t.seen[p] \cap t.seen[q] = {}
  BY <1>1, OneHome
<1>4. \A p \in HomePartition : t.seq[p] \in Nat
  BY <1>2 DEF Shaped
<1>5. Segments(f) = t.segs \cup Left(t)
  BY DEF Segments
<1>6. ASSUME NEW g \in Left(t)
      PROVE  \E p \in HomePartition : t.open[p] # <<>> /\ g.key = <<p, t.seq[p] + 1>> /\ g.rows = t.open[p]
  BY <1>6 DEF Left, SegmentOf
<1>7. ASSUME NEW g \in Segments(f)
      PROVE  /\ IsSeq(g.rows) /\ Distinct(g.rows)
             /\ \E p \in HomePartition : \E s \in Nat :
                  /\ g.key = <<p, s>> /\ \A x \in ToSet(g.rows) : PageOf(f, L, p, x)
                  /\ s \in 1 .. t.seq[p] \/ (s = t.seq[p] + 1 /\ t.open[p] # <<>>)
  <2>1. CASE g \in t.segs
    <3>1. IsSeq(g.rows) /\ Distinct(g.rows)
      BY <1>2, <2>1 DEF Sealed
    <3>2. PICK p \in HomePartition : \E s \in 1 .. t.seq[p] : g.key = <<p, s>> /\ ToSet(g.rows) \subseteq t.seen[p]
      BY <1>2, <2>1 DEF Sealed
    <3>3. PICK s \in 1 .. t.seq[p] : g.key = <<p, s>> /\ ToSet(g.rows) \subseteq t.seen[p]
      BY <3>2
    <3>4. s \in Nat /\ \A x \in ToSet(g.rows) : PageOf(f, L, p, x)
      BY <1>2, <1>4, <3>3
    <3> QED BY <3>1, <3>3, <3>4
  <2>2. CASE g \in Left(t)
    <3>1. PICK p \in HomePartition : t.open[p] # <<>> /\ g.key = <<p, t.seq[p] + 1>> /\ g.rows = t.open[p]
      BY <1>6, <2>2
    <3>2. IsSeq(g.rows) /\ Distinct(g.rows) /\ ToSet(g.rows) \subseteq t.seen[p]
      BY <1>2, <3>1 DEF OpenRows
    <3>3. \A x \in ToSet(g.rows) : PageOf(f, L, p, x)
      BY <1>2, <3>2
    <3>4. t.seq[p] + 1 \in Nat
      BY <1>4
    <3> QED BY <3>1, <3>2, <3>3, <3>4
  <2> QED BY <1>5, <2>1, <2>2
<1>8. ASSUME NEW g \in t.segs, NEW h \in Left(t) PROVE g.key # h.key /\ Apart(g.rows, h.rows)
  <2>1. PICK q \in HomePartition : h.key = <<q, t.seq[q] + 1>> /\ h.rows = t.open[q]
    BY <1>6
  <2>2. PICK p \in HomePartition : \E s \in 1 .. t.seq[p] :
          g.key = <<p, s>> /\ ToSet(g.rows) \subseteq t.seen[p] /\ Apart(g.rows, t.open[p])
    BY <1>2 DEF Sealed
  <2>3. PICK s \in 1 .. t.seq[p] : g.key = <<p, s>> /\ ToSet(g.rows) \subseteq t.seen[p] /\ Apart(g.rows, t.open[p])
    BY <2>2
  <2>4. g.key # h.key
    BY <1>4, <2>1, <2>3
  <2>5. ToSet(t.open[q]) \subseteq t.seen[q]
    BY <1>2 DEF OpenRows
  <2>6. ToSet(g.rows) \cap ToSet(t.open[q]) = {}
    BY <1>3, <2>3, <2>5 DEF Apart
  <2> QED BY <2>1, <2>4, <2>6 DEF Apart
<1>9. ASSUME NEW g \in Left(t), NEW h \in Left(t), g # h PROVE g.key # h.key /\ Apart(g.rows, h.rows)
  <2>1. PICK p \in HomePartition : g = SegmentOf(t, p, t.open[p])
    BY DEF Left
  <2>2. PICK q \in HomePartition : h = SegmentOf(t, q, t.open[q])
    BY DEF Left
  <2>3. p # q
    BY <1>9, <2>1, <2>2
  <2>4. ToSet(t.open[p]) \cap ToSet(t.open[q]) = {}
    BY <1>2, <1>3, <2>3 DEF OpenRows
  <2>5. /\ g.key = <<p, t.seq[p] + 1>> /\ g.rows = t.open[p]
        /\ h.key = <<q, t.seq[q] + 1>> /\ h.rows = t.open[q]
    BY <2>1, <2>2 DEF SegmentOf
  <2>6. g.key # h.key
    BY <2>3, <2>5
  <2> QED BY <2>4, <2>5, <2>6 DEF Apart
<1>10. \A g, h \in Segments(f) : g # h => g.key # h.key /\ Apart(g.rows, h.rows)
  <2>1. \A g \in t.segs : \A h \in Left(t) : h.key # g.key /\ Apart(h.rows, g.rows)
    BY <1>8 DEF Apart
  <2> QED BY <1>2, <1>5, <1>8, <1>9, <2>1
<1>11. ASSUME NEW p \in HomePartition, NEW x, PageOf(f, L, p, x) PROVE \E g \in Segments(f) : x \in ToSet(g.rows)
  <2>1. Holds(t, p, x)
    BY <1>2, <1>11
  <2>2. CASE x \in ToSet(t.open[p])
    <3>1. t.open[p] # <<>>
      BY <2>2 DEF ToSet
    <3>2. SegmentOf(t, p, t.open[p]) \in Segments(f) /\ SegmentOf(t, p, t.open[p]).rows = t.open[p]
      BY <1>5, <3>1 DEF Left, SegmentOf
    <3> QED BY <2>2, <3>2
  <2> QED BY <1>5, <2>1, <2>2 DEF Holds
<1> QED BY <1>7, <1>10, <1>11

-----------------------------------------------------------------------------
(* The steps.                                                              *)

\* A key has one content.
LEMMA OneContent ==
  ASSUME feed \in Feeds, NEW k, NEW a, NEW b, IsSegment(k, a), IsSegment(k, b)
  PROVE  a = b
<1>1. \A g, h \in Segments(feed) : g # h => g.key # h.key
  BY SegmentsAre
<1> QED BY <1>1 DEF IsSegment

\* A PUT of a segment leaves what is there as it was.
LEMMA PutKeeps ==
  ASSUME feed \in Feeds, \A k \in DOMAIN objects : IsSegment(k, objects[k]),
         NEW key, NEW rows, IsSegment(key, rows)
  PROVE  LET o == PutObject(key, rows) IN
         /\ key \in DOMAIN o /\ \A k \in DOMAIN o : IsSegment(k, o[k])
         /\ \A k \in DOMAIN objects : k \in DOMAIN o /\ o[k] = objects[k]
<1> DEFINE o == PutObject(key, rows)
<1>1. DOMAIN o = DOMAIN objects \cup {key} /\ o[key] = rows /\ \A k \in DOMAIN objects \ {key} : o[k] = objects[k]
  BY DEF PutObject
<1> HIDE DEF o
<1>2. key \in DOMAIN objects => objects[key] = rows
  BY OneContent
<1>3. \A k \in DOMAIN o : IsSegment(k, o[k])
  BY <1>1
<1>4. \A k \in DOMAIN objects : k \in DOMAIN o /\ o[k] = objects[k]
  BY <1>1, <1>2
<1> QED BY <1>1, <1>3, <1>4 DEF o

\* The segment under way is one of the feed's.
LEMMA UnderWay ==
  ASSUME feed \in Feeds, Life, doing \in {"put", "append"}
  PROVE  /\ sealing \in HomePartition /\ IsSegment(Segment, open[sealing])
         /\ Filled(sealing) \/ Flushing(sealing)
<1> DEFINE p == sealing
<1>1. /\ p \in HomePartition /\ Line(p) /\ Sealing(p) /\ nread \in 0 .. Len(feed)
      /\ (AsRead(p) /\ ~Sealing(p)) \/ Filled(p) \/ Flushing(p) \/ Flushed(p)
  BY DEF Life, Line, Sealing
<1>2. Filled(p) \/ Flushing(p)
  BY <1>1 DEF Flushed
<1>3. CASE Filled(p)
  <2>1. Here.segs \subseteq Reads(feed)[Len(feed)].segs
    BY <1>1, AllGood DEF Here
  <2>2. \E g \in Here.segs : g.key = <<p, seq[p]>> /\ g.rows = open[p]
    BY <1>3 DEF Filled
  <2>3. IsSegment(<<p, seq[p]>>, open[p])
    BY <2>1, <2>2 DEF IsSegment, Segments
  <2> QED BY <1>1, <1>2, <2>3 DEF Segment
<1>4. CASE Flushing(p)
  <2> DEFINE t == Reads(feed)[Len(feed)]
  <2>1. t.open[p] # <<>> /\ open[p] = t.open[p] /\ seq[p] = t.seq[p] + 1
    BY <1>4 DEF Flushing, Here
  <2>2. SegmentOf(t, p, t.open[p]) \in Segments(feed)
    BY <1>1, <2>1 DEF Segments, Left
  <2>3. SegmentOf(t, p, t.open[p]).key = <<p, seq[p]>> /\ SegmentOf(t, p, t.open[p]).rows = open[p]
    BY <2>1 DEF SegmentOf
  <2>4. IsSegment(<<p, seq[p]>>, open[p])
    BY <2>2, <2>3 DEF IsSegment
  <2> QED BY <1>1, <1>2, <2>4 DEF Segment
<1> QED BY <1>2, <1>3, <1>4

\* The bucket: objects stay, and every one is a segment of the feed.
LEMMA BucketStep ==
  ASSUME ImportInv, [ImportNext]_importVars
  PROVE  /\ feed' = feed /\ Bucket'
         /\ \A k \in DOMAIN objects : k \in DOMAIN objects' /\ objects'[k] = objects[k]
<1>1. feed \in Feeds /\ Life /\ Bucket
  BY DEF ImportInv
<1>2. ASSUME UNCHANGED <<feed, late, objects>> PROVE Bucket'
  BY <1>1, <1>2 DEF Bucket, IsSegment
<1>3. CASE Start \/ Die \/ Store \/ Flush \/ AppendCommit \/ UNCHANGED importVars
  <2>1. UNCHANGED <<feed, late, objects>>
    BY <1>3 DEF Start, Die, Store, Flush, AppendCommit, importVars
  <2> QED BY <1>2, <2>1
<1>4. CASE PutSegment
  <2> DEFINE o == PutObject(Segment, open[sealing])
  <2>1. IsSegment(Segment, open[sealing])
    BY <1>1, <1>4, UnderWay DEF PutSegment
  <2>2. /\ \A k \in DOMAIN o : IsSegment(k, o[k])
        /\ \A k \in DOMAIN objects : k \in DOMAIN o /\ o[k] = objects[k]
    BY <1>1, <2>1, PutKeeps DEF Bucket
  <2>3. feed' = feed /\ (objects' = objects \/ objects' = o)
        /\ (late' = late \/ late' = late \cup {[key |-> Segment, rows |-> open[sealing]]})
    BY <1>4 DEF PutSegment
  <2> HIDE DEF o
  <2>4. \A k \in DOMAIN objects' : IsSegment(k, objects'[k])
    BY <1>1, <2>2, <2>3 DEF Bucket
  <2>5. \A put \in late' : IsSegment(put.key, put.rows)
    BY <1>1, <2>1, <2>3 DEF Bucket
  <2>6. Bucket'
    BY <2>3, <2>4, <2>5 DEF Bucket, IsSegment
  <2> QED BY <2>2, <2>3, <2>6
<1>5. ASSUME NEW put \in late, LateLands(put)
      PROVE  /\ feed' = feed /\ Bucket'
             /\ \A k \in DOMAIN objects : k \in DOMAIN objects' /\ objects'[k] = objects[k]
  <2> DEFINE o == PutObject(put.key, put.rows)
  <2>1. IsSegment(put.key, put.rows)
    BY <1>1 DEF Bucket
  <2>2. /\ \A k \in DOMAIN o : IsSegment(k, o[k])
        /\ \A k \in DOMAIN objects : k \in DOMAIN o /\ o[k] = objects[k]
    BY <1>1, <2>1, PutKeeps DEF Bucket
  <2>3. feed' = feed /\ objects' = o /\ late' \subseteq late
    BY <1>5 DEF LateLands
  <2> HIDE DEF o
  <2>4. Bucket'
    BY <1>1, <2>2, <2>3 DEF Bucket, IsSegment
  <2> QED BY <2>2, <2>3, <2>4
<1> QED BY <1>3, <1>4, <1>5 DEF ImportNext

\* A step that moves nothing of the running life but its phase.
LEMMA LifeKept ==
  ASSUME Life, UNCHANGED <<feed, nread, open, raw, seen, seq, sealing>>,
         Live \subseteq Live', DOMAIN objects \subseteq DOMAIN objects',
         \/ doing' = doing \/ doing' = "down"
         \/ doing = "put" /\ doing' = "append" /\ Segment \in DOMAIN objects'
  PROVE  Life'
<1>1. Segment' = Segment /\ Here' = Here
  BY DEF Segment, Here
<1>2. CASE doing' = "down"
  BY <1>2 DEF Life
<1>3. CASE doing' # "down"
  <2>1. doing # "down" /\ (doing' # doing => doing = "put" /\ doing' = "append")
    BY <1>3
  <2>2. \A p : Sealing(p)' <=> Sealing(p)
    BY <2>1 DEF Sealing
  <2>3. ASSUME NEW p \in HomePartition PROVE Line(p)'
    <3>1. Line(p)
      BY <2>1 DEF Life
    <3>2. (\A s \in 1 .. seq[p] : <<p, s>> \in Live \/ (Sealing(p) /\ s = seq[p]))'
      BY <2>2, <3>1 DEF Line
    <3>3. /\ AsRead(p)' <=> AsRead(p)
          /\ Filled(p)' <=> Filled(p)
          /\ Flushing(p)' <=> Flushing(p)
          /\ Flushed(p)' <=> Flushed(p)
      <4>1. AsRead(p)' <=> AsRead(p)
        BY <1>1 DEF AsRead
      <4>2. Filled(p)' <=> Filled(p)
        BY <1>1, <2>2 DEF Filled
      <4>3. Flushing(p)' <=> Flushing(p)
        BY <1>1, <2>2 DEF Flushing
      <4>4. Flushed(p)' <=> Flushed(p)
        BY <1>1, <2>1, <2>2 DEF Flushed
      <4> QED BY <4>1, <4>2, <4>3, <4>4
    <3> QED BY <1>1, <2>2, <3>1, <3>2, <3>3 DEF Line
  <2> QED BY <1>1, <2>1, <2>3 DEF Life
<1> QED BY <1>2, <1>3

\* A new life has read nothing.
LEMMA StartLife ==
  ASSUME feed \in Feeds, Start
  PROVE  Life'
<1>1. /\ nread' = 0 /\ doing' = "reading" /\ feed' = feed
      /\ open' = [p \in HomePartition |-> <<>>] /\ raw' = [p \in HomePartition |-> 0]
      /\ seen' = [p \in HomePartition |-> {}] /\ seq' = [p \in HomePartition |-> 0]
  BY DEF Start, Fresh
<1>2. Len(feed) \in Nat /\ Reads(feed)[0] = Blank
  BY AllGood, ReadsAre
<1>3. Here' = Blank
  BY <1>1, <1>2 DEF Here
<1>4. ASSUME NEW p \in HomePartition PROVE Line(p)'
  <2>1. AsRead(p)' /\ seen'[p] = Here'.seen[p] /\ seq'[p] = 0
    BY <1>1, <1>3 DEF AsRead, Blank
  <2>2. ~Sealing(p)'
    BY <1>1 DEF Sealing
  <2> QED BY <2>1, <2>2 DEF Line
<1> QED BY <1>1, <1>2, <1>4 DEF Life

\* The importer is where it has read to: nothing under way, nothing flushed.
LEMMA ReadingLines ==
  ASSUME Life, doing = "reading", NEW p \in HomePartition
  PROVE  /\ AsRead(p) /\ seen[p] = Here.seen[p]
         /\ \A s \in 1 .. seq[p] : <<p, s>> \in Live
<1>1. Line(p) /\ ~Sealing(p)
  BY DEF Life, Sealing
<1> QED BY <1>1 DEF Line, Filled, Flushing, Flushed

\* A record is read.
LEMMA StoreLife ==
  ASSUME feed \in Feeds, Life, Store
  PROVE  Life'
<1> DEFINE rec == feed[nread + 1]
           t == Here
           u == After(t, rec)
           p == Home[rec.host]
<1>1. /\ doing = "reading" /\ nread < Len(feed) /\ nread' = nread + 1
      /\ UNCHANGED <<feed, lives, late, objects, commits>>
  BY DEF Store
<1>2. /\ Len(feed) \in Nat /\ nread \in 0 .. Len(feed) /\ nread + 1 \in 1 .. Len(feed)
      /\ nread + 1 \in 0 .. Len(feed) /\ (nread + 1) - 1 = nread
  BY <1>1, AllGood DEF Life
<1>3. Here' = u
  <2>1. Reads(feed)[nread + 1] = After(Reads(feed)[(nread + 1) - 1], feed[nread + 1])
    BY <1>2, ReadsAre
  <2> QED BY <1>1, <1>2, <2>1 DEF Here
<1>4. /\ Good(feed, nread, t) /\ Shaped(t) /\ p \in HomePartition /\ rec = feed[nread + 1]
      /\ p = Home[rec.host]
  <2>1. Good(feed, nread, t)
    BY <1>2, AllGood DEF Here
  <2>2. Shaped(t)
    BY <2>1 DEF Good
  <2>3. Home[feed[nread + 1].host] \in HomePartition
    BY <1>2, <2>1, OneHome
  <2> QED BY <2>1, <2>2, <2>3
<1>5. \A q \in HomePartition : /\ open[q] = t.open[q] /\ raw[q] = t.raw[q] /\ seq[q] = t.seq[q]
                               /\ seen[q] = t.seen[q] /\ \A s \in 1 .. seq[q] : <<q, s>> \in Live
  BY <1>1, ReadingLines DEF AsRead
<1>6. /\ open = [q \in HomePartition |-> open[q]] /\ raw = [q \in HomePartition |-> raw[q]]
      /\ seen = [q \in HomePartition |-> seen[q]] /\ seq = [q \in HomePartition |-> seq[q]]
  BY DEF Life
<1>7. Live' = Live
  BY <1>1 DEF Live, Key
<1> DEFINE x == Pair(rec)
           G == Append(open[p], x)
           B == raw[p] + rec.bytes
           F == Len(G) >= SegRows \/ B >= SegBytes
<1>8. New(t, rec) <=> rec.kind = "conversion" /\ ~rec.short /\ rec.canonical /\ x \notin seen[p]
  BY <1>4, <1>5 DEF New, Accepted
<1>9. CASE ~New(t, rec)
  <2>1. u = t
    BY <1>9 DEF After
  <2>2. UNCHANGED <<open, raw, seen, seq, doing, sealing>>
    BY <1>8, <1>9 DEF Store, partVars
  <2>3. ASSUME NEW q \in HomePartition PROVE Line(q)'
    <3>1. AsRead(q)' /\ seen'[q] = Here'.seen[q] /\ ~Sealing(q)'
      BY <1>1, <1>3, <1>5, <2>1, <2>2 DEF AsRead, Sealing
    <3> QED BY <1>5, <1>7, <2>2, <3>1 DEF Line
  <2> QED BY <1>1, <1>2, <1>6, <2>2, <2>3 DEF Life
<1>10. CASE New(t, rec)
  <2>1. /\ seen' = [seen EXCEPT ![p] = @ \cup {x}]
        /\ open' = [open EXCEPT ![p] = Append(@, x)]
        /\ raw' = [raw EXCEPT ![p] = @ + rec.bytes]
        /\ LET full == Len(open'[p]) >= SegRows \/ raw'[p] >= SegBytes
           IN /\ doing' = IF full THEN "put" ELSE "reading"
              /\ sealing' = IF full THEN p ELSE 0
              /\ seq' = IF full THEN [seq EXCEPT ![p] = @ + 1] ELSE seq
    BY <1>8, <1>10 DEF Store
  <2>2. u = Kept(t, rec)
    BY <1>10 DEF After
  <2>3. G = Grown(t, rec) /\ B = Bytes(t, rec) /\ (F <=> Full(t, rec))
    BY <1>4, <1>5 DEF Grown, Bytes, Full
  <2> DEFINE new == SegmentOf(t, p, G)
  <2>4. new.key = <<p, t.seq[p] + 1>> /\ new.rows = G
    BY DEF SegmentOf
  <2>5. /\ Shaped(u)
        /\ \A q \in HomePartition : q # p => /\ u.open[q] = t.open[q] /\ u.raw[q] = t.raw[q]
                                             /\ u.seen[q] = t.seen[q] /\ u.seq[q] = t.seq[q]
        /\ u.seen[p] = t.seen[p] \cup {x}
        /\ F => /\ u.open[p] = <<>> /\ u.raw[p] = 0 /\ u.seq[p] = t.seq[p] + 1
                /\ u.segs = t.segs \cup {new}
        /\ ~F => u.open[p] = G /\ u.raw[p] = B /\ u.seq[p] = t.seq[p]
    <3> HIDE DEF G, B, F, u, t, p, x, rec
    <3>1. x = Pair(rec)
      BY DEF x
    <3> QED BY <1>4, <2>2, <2>3, <3>1, KeptParts DEF new
  <2> HIDE DEF u, t, rec, x, p, new
  <2>6. /\ open' = [q \in HomePartition |-> open'[q]] /\ open'[p] = G
        /\ \A q \in HomePartition : q # p => open'[q] = open[q]
    <3> HIDE DEF G
    <3>1. open' = [open EXCEPT ![p] = G]
      BY <2>1 DEF G
    <3> QED BY <1>4, <1>6, <3>1
  <2>7. /\ raw' = [q \in HomePartition |-> raw'[q]] /\ raw'[p] = B
        /\ \A q \in HomePartition : q # p => raw'[q] = raw[q]
    <3> HIDE DEF B
    <3>1. raw' = [raw EXCEPT ![p] = B]
      BY <2>1 DEF B
    <3> QED BY <1>4, <1>6, <3>1
  <2>8. /\ seen' = [q \in HomePartition |-> seen'[q]] /\ seen'[p] = seen[p] \cup {x}
        /\ \A q \in HomePartition : q # p => seen'[q] = seen[q]
    BY <1>4, <1>6, <2>1
  <2>9. /\ doing' = (IF F THEN "put" ELSE "reading") /\ sealing' = (IF F THEN p ELSE 0)
        /\ seq' = IF F THEN [seq EXCEPT ![p] = @ + 1] ELSE seq
    BY <2>1, <2>6, <2>7
  <2> HIDE DEF G, B, F
  <2>10. /\ seq' = [q \in HomePartition |-> seq'[q]] /\ seq'[p] = (IF F THEN seq[p] + 1 ELSE seq[p])
         /\ \A q \in HomePartition : q # p => seq'[q] = seq[q]
    BY <1>4, <1>6, <2>9
  <2>11. t.seq[p] \in Nat
    BY <1>4 DEF Shaped
  <2>12. \A q \in HomePartition : Sealing(q)' <=> F /\ q = p
    BY <2>9 DEF Sealing
  <2>13. ASSUME NEW q \in HomePartition PROVE Line(q)'
    <3>1. seen'[q] = Here'.seen[q]
      <4>1. seen[q] = t.seen[q] /\ Here' = u
        BY <1>3, <1>5
      <4>2. u.seen[q] = IF q = p THEN t.seen[p] \cup {x} ELSE t.seen[q]
        BY <2>5
      <4>3. seen'[q] = IF q = p THEN seen[p] \cup {x} ELSE seen[q]
        BY <2>8
      <4> QED BY <4>1, <4>2, <4>3
    <3>2. CASE q # p
      <4>1. AsRead(q)' /\ ~Sealing(q)'
        BY <1>3, <1>5, <2>5, <2>6, <2>7, <2>10, <2>12, <3>2 DEF AsRead
      <4>2. \A s \in 1 .. seq'[q] : <<q, s>> \in Live'
        BY <1>5, <1>7, <2>10, <3>2
      <4> QED BY <3>1, <4>1, <4>2 DEF Line
    <3>3. CASE q = p /\ ~F
      <4>1. AsRead(q)' /\ ~Sealing(q)'
        BY <1>3, <1>4, <1>5, <2>5, <2>6, <2>7, <2>10, <2>12, <3>3 DEF AsRead
      <4>2. \A s \in 1 .. seq'[q] : <<q, s>> \in Live'
        BY <1>5, <1>7, <2>10, <3>3
      <4> QED BY <3>1, <4>1, <4>2 DEF Line
    <3>4. CASE q = p /\ F
      <4>1. Sealing(q)' /\ seq'[q] = t.seq[p] + 1
        BY <1>5, <2>10, <2>12, <3>4
      <4>2. new \in Here'.segs /\ new.key = <<q, seq'[q]>> /\ new.rows = open'[q]
        BY <1>3, <2>4, <2>5, <2>6, <3>4, <4>1
      <4>3. Filled(q)'
        BY <1>3, <2>5, <3>4, <4>1, <4>2 DEF Filled
      <4>4. \A s \in 1 .. seq'[q] : <<q, s>> \in Live' \/ s = seq'[q]
        <5>1. \A s \in 1 .. t.seq[p] + 1 : s \in 1 .. t.seq[p] \/ s = t.seq[p] + 1
          BY <2>11
        <5> QED BY <1>5, <1>7, <3>4, <4>1, <5>1
      <4> QED BY <3>1, <4>1, <4>3, <4>4 DEF Line
    <3> QED BY <3>2, <3>3, <3>4
  <2>14. /\ doing' \in {"put", "reading"} /\ nread' \in 0 .. Len(feed') /\ (doing' = "put" => sealing' \in HomePartition)
    BY <1>1, <1>2, <1>4, <2>9
  <2> QED BY <2>6, <2>7, <2>8, <2>10, <2>13, <2>14 DEF Life
<1> QED BY <1>9, <1>10

\* Flush seals a partition's open segment, or finds none and is done.
LEMMA FlushLife ==
  ASSUME feed \in Feeds, Life, Flush
  PROVE  Life'
<1> DEFINE left == {q \in HomePartition : open[q] # <<>>}
           first == CHOOSE q \in left : \A r \in left : q <= r
<1>1. /\ doing \in {"reading", "flushing"} /\ nread = Len(feed)
      /\ UNCHANGED <<feed, lives, nread, open, raw, seen, late, objects, commits>>
      /\ IF left = {} THEN doing' = "done" /\ UNCHANGED <<seq, sealing>>
         ELSE doing' = "put" /\ seq' = [seq EXCEPT ![first] = @ + 1] /\ sealing' = first
  BY DEF Flush
<1>2. Here' = Here /\ Live' = Live
  BY <1>1 DEF Here, Live, Key
<1>3. \A q \in HomePartition :
        /\ AsRead(q) \/ Flushed(q)
        /\ \A s \in 1 .. seq[q] : <<q, s>> \in Live
  <2> SUFFICES ASSUME NEW q \in HomePartition
               PROVE  /\ AsRead(q) \/ Flushed(q)
                      /\ \A s \in 1 .. seq[q] : <<q, s>> \in Live
    OBVIOUS
  <2>1. Line(q) /\ ~Sealing(q)
    BY <1>1 DEF Life, Sealing
  <2> QED BY <2>1 DEF Line, Filled, Flushing
<1>4. \A q \in HomePartition : seen[q] = Here.seen[q]
  <2>1. \A q \in HomePartition : Line(q)
    BY <1>1 DEF Life
  <2> QED BY <2>1 DEF Line
<1>5. /\ open = [q \in HomePartition |-> open[q]] /\ raw = [q \in HomePartition |-> raw[q]]
      /\ seen = [q \in HomePartition |-> seen[q]] /\ seq = [q \in HomePartition |-> seq[q]]
      /\ nread \in 0 .. Len(feed)
  BY DEF Life
<1>6. \A q \in HomePartition : Here.seq[q] \in Nat
  <2>1. Shaped(Here)
    BY <1>5, AllGood DEF Here, Good
  <2> QED BY <2>1 DEF Shaped
<1> HIDE DEF left
<1>7. CASE left = {}
  <2>1. doing' = "done" /\ UNCHANGED <<seq, sealing>>
    BY <1>1, <1>7
  <2>2. \A q : ~Sealing(q)'
    BY <2>1 DEF Sealing
  <2>3. \A q : (AsRead(q) => AsRead(q)') /\ (Flushed(q) => Flushed(q)')
    BY <1>1, <1>2, <2>1, <2>2 DEF AsRead, Flushed
  <2>4. \A q \in HomePartition : Line(q)'
    BY <1>1, <1>2, <1>3, <1>4, <2>1, <2>2, <2>3 DEF Line
  <2>5. \A q \in HomePartition : open'[q] = <<>>
    BY <1>1, <1>7 DEF left
  <2> QED BY <1>1, <1>5, <2>1, <2>4, <2>5 DEF Life
<1>8. CASE left # {}
  <2>1. first \in left
    <3>1. left \subseteq Nat
      BY ImportAssumption DEF left, HomePartition
    <3>2. \E q \in left : \A r \in left : q <= r
      BY <1>8, <3>1, LeastNat
    <3> QED BY <3>2
  <2> HIDE DEF first
  <2>2. PICK p \in HomePartition : p = first /\ open[p] # <<>>
    BY <2>1 DEF left
  <2>3. doing' = "put" /\ seq' = [seq EXCEPT ![p] = @ + 1] /\ sealing' = p
    BY <1>1, <1>8, <2>2
  <2>4. /\ seq' = [q \in HomePartition |-> seq'[q]] /\ seq'[p] = seq[p] + 1
        /\ \A q \in HomePartition : q # p => seq'[q] = seq[q]
    BY <1>5, <2>2, <2>3
  <2>5. \A q : Sealing(q)' <=> q = p
    BY <2>3 DEF Sealing
  <2>6. ASSUME NEW q \in HomePartition, q # p PROVE Line(q)'
    <3>1. (AsRead(q) => AsRead(q)') /\ (Flushed(q) => Flushed(q)') /\ ~Sealing(q)'
      BY <1>1, <1>2, <2>3, <2>4, <2>5, <2>6 DEF AsRead, Flushed
    <3>2. seq'[q] = seq[q] /\ seen'[q] = Here'.seen[q]
      BY <1>1, <1>2, <1>4, <2>4, <2>6
    <3> QED BY <1>2, <1>3, <3>1, <3>2 DEF Line
  <2>7. Line(p)'
    <3>1. AsRead(p)
      BY <1>3, <2>2 DEF Flushed
    <3>2. Flushing(p)'
      BY <1>1, <1>2, <2>2, <2>4, <2>5, <3>1 DEF AsRead, Flushing
    <3>3. \A s \in 1 .. seq'[p] : <<p, s>> \in Live' \/ s = seq'[p]
      <4>1. seq[p] \in Nat
        BY <1>6, <2>2, <3>1 DEF AsRead
      <4>2. \A s \in 1 .. seq[p] + 1 : s \in 1 .. seq[p] \/ s = seq[p] + 1
        BY <4>1
      <4> QED BY <1>2, <1>3, <2>2, <2>4, <4>2
    <3>4. seen'[p] = Here'.seen[p]
      BY <1>1, <1>2, <1>4, <2>2
    <3> QED BY <2>5, <3>2, <3>3, <3>4 DEF Line
  <2> QED BY <1>1, <1>5, <2>2, <2>3, <2>4, <2>6, <2>7 DEF Life
<1> QED BY <1>7, <1>8

\* A commit's append succeeds, and its partition starts over.
LEMMA CommitLife ==
  ASSUME feed \in Feeds, Life, doing = "append", commits' = Append(commits, Commit), IsSeq(commits),
         open' = [open EXCEPT ![sealing] = <<>>], raw' = [raw EXCEPT ![sealing] = 0],
         doing' = IF nread < Len(feed) THEN "reading" ELSE "flushing",
         UNCHANGED <<feed, lives, nread, seen, seq, sealing, late, objects>>,
         Live' = Live \cup {Segment}
  PROVE  Life'
<1> DEFINE p == sealing
<1>1. Here' = Here
  BY DEF Here
<1>2. p \in HomePartition /\ (Filled(p) \/ Flushing(p))
  BY UnderWay
<1>3. /\ open = [q \in HomePartition |-> open[q]] /\ raw = [q \in HomePartition |-> raw[q]]
      /\ seen = [q \in HomePartition |-> seen[q]] /\ seq = [q \in HomePartition |-> seq[q]]
      /\ nread \in 0 .. Len(feed)
  BY DEF Life
<1>4. /\ open' = [q \in HomePartition |-> open'[q]] /\ open'[p] = <<>>
      /\ \A q \in HomePartition : q # p => open'[q] = open[q]
  BY <1>2, <1>3
<1>5. /\ raw' = [q \in HomePartition |-> raw'[q]] /\ raw'[p] = 0
      /\ \A q \in HomePartition : q # p => raw'[q] = raw[q]
  BY <1>2, <1>3
<1>6. \A q : ~Sealing(q)' /\ (Sealing(q) <=> q = p)
  BY DEF Sealing
<1>7. Len(feed) \in Nat /\ (nread = Len(feed) => doing' = "flushing") /\ (doing' # "reading" => nread = Len(feed))
  BY <1>3, AllGood
<1>8. \A q \in HomePartition : Line(q)
  BY DEF Life
<1>9. ASSUME NEW q \in HomePartition, q # p PROVE Line(q)'
  <2>1. (AsRead(q) /\ ~Sealing(q)) \/ Flushed(q)
    BY <1>6, <1>8, <1>9 DEF Line, Filled, Flushing
  <2>2. AsRead(q) => AsRead(q)'
    BY <1>1, <1>4, <1>5, <1>9 DEF AsRead
  <2>4. Flushed(q) => Flushed(q)'
    <3>1. open'[q] = open[q] /\ ~Sealing(q)'
      BY <1>4, <1>6, <1>9
    <3> QED BY <1>1, <1>7, <3>1 DEF Flushed
  <2>3. seen[q] = Here.seen[q] /\ \A s \in 1 .. seq[q] : <<q, s>> \in Live
    BY <1>6, <1>8, <1>9 DEF Line
  <2> QED BY <1>1, <1>6, <2>1, <2>2, <2>3, <2>4 DEF Line
<1>10. Line(p)'
  <2>1. seen[p] = Here.seen[p] /\ \A s \in 1 .. seq[p] : <<p, s>> \in Live \/ s = seq[p]
    BY <1>2, <1>8 DEF Line
  <2>2. \A s \in 1 .. seq'[p] : <<p, s>> \in Live'
    BY <2>1 DEF Segment
  <2>3. CASE Filled(p)
    <3>1. AsRead(p)'
      BY <1>1, <1>4, <1>5, <2>3 DEF AsRead, Filled
    <3> QED BY <1>1, <1>6, <2>1, <2>2, <3>1 DEF Line
  <2>4. CASE Flushing(p)
    <3>1. Flushed(p)'
      BY <1>1, <1>4, <1>6, <1>7, <2>4 DEF Flushed, Flushing
    <3> QED BY <1>1, <2>1, <2>2, <3>1 DEF Line
  <2> QED BY <1>2, <2>3, <2>4
<1>11. \A q \in HomePartition : Line(q)'
  BY <1>9, <1>10
<1> QED BY <1>3, <1>4, <1>5, <1>7, <1>11 DEF Life

\* What a commit appended does to the live segments.
LEMMA CommitAdds ==
  ASSUME IsSeq(commits), commits' = Append(commits, Commit)
  PROVE  /\ IsSeq(commits') /\ Live' = Live \cup {Segment}
         /\ \A i \in DOMAIN commits' : (i \in DOMAIN commits /\ commits'[i] = commits[i]) \/ commits'[i] = Commit
<1> DEFINE c == Commit
           L == Len(commits)
<1>1. /\ IsSeq(commits') /\ Len(commits') = L + 1 /\ commits'[L + 1] = c
      /\ \A i \in 1 .. L : commits'[i] = commits[i]
  BY AppendParts
<1>2. /\ L \in Nat /\ DOMAIN commits = 1 .. L /\ Len(commits') \in Nat /\ DOMAIN commits' = 1 .. Len(commits')
  BY <1>1, SeqParts
<1>3. Key(c) = Segment
  BY DEF Key, Commit, Segment
<1> HIDE DEF c
<1>4. \A i : i \in DOMAIN commits' <=> i \in DOMAIN commits \/ i = L + 1
  BY <1>1, <1>2
<1>5. Live' = {Key(commits'[i]) : i \in DOMAIN commits'}
  BY DEF Live, Key
<1>6. Live' = Live \cup {Key(c)}
  <2>1. \A i \in DOMAIN commits : commits'[i] = commits[i]
    BY <1>1, <1>2
  <2> HIDE DEF L
  <2> QED BY <1>1, <1>4, <1>5, <2>1 DEF Live
<1>7. \A i \in DOMAIN commits' : (i \in DOMAIN commits /\ commits'[i] = commits[i]) \/ commits'[i] = c
  BY <1>1, <1>2, <1>4
<1> QED BY <1>1, <1>3, <1>6, <1>7 DEF c

\* The chain's commits: what they name is there, and they are numbered without gaps.
LEMMA LedgerStep ==
  ASSUME ImportInv, [ImportNext]_importVars
  PROVE  Ledger' /\ Live \subseteq Live'
<1>1. /\ feed \in Feeds /\ Life /\ Bucket /\ Ledger
      /\ \A k \in DOMAIN objects : k \in DOMAIN objects' /\ objects'[k] = objects[k]
  BY BucketStep DEF ImportInv
<1>2. CASE commits' = commits
  <2>1. Live' = Live
    BY <1>2 DEF Live, Key
  <2>2. \A i \in DOMAIN commits : Key(commits[i]) \in DOMAIN objects /\ commits[i].rows = Len(objects[Key(commits[i])])
    BY <1>1 DEF Ledger
  <2>3. \A i \in DOMAIN commits' :
          Key(commits'[i]) \in DOMAIN objects' /\ commits'[i].rows = Len(objects'[Key(commits'[i])])
    BY <1>1, <1>2, <2>2
  <2> QED BY <1>1, <1>2, <2>1, <2>3 DEF Ledger, Key
<1>3. CASE doing = "append" /\ commits' = Append(commits, Commit) /\ UNCHANGED objects
  <2>1. /\ IsSeq(commits') /\ Live' = Live \cup {Segment}
        /\ \A i \in DOMAIN commits' : (i \in DOMAIN commits /\ commits'[i] = commits[i]) \/ commits'[i] = Commit
    BY <1>1, <1>3, CommitAdds DEF Ledger
  <2>2. /\ sealing \in HomePartition /\ IsSegment(Segment, open[sealing])
        /\ Segment \in DOMAIN objects /\ Line(sealing) /\ Sealing(sealing)
    BY <1>1, <1>3, UnderWay DEF Life, Sealing
  <2>3. objects[Segment] = open[sealing]
    BY <1>1, <2>2, OneContent DEF Bucket
  <2>4. Key(Commit) = Segment /\ Commit.rows = Len(open[sealing])
    BY DEF Key, Commit, Segment
  <2>5. \A i \in DOMAIN commits' :
          Key(commits'[i]) \in DOMAIN objects' /\ commits'[i].rows = Len(objects'[Key(commits'[i])])
    BY <1>1, <1>3, <2>1, <2>2, <2>3, <2>4 DEF Ledger
  <2>6. ASSUME NEW k \in Live', k[2] > 1 PROVE <<k[1], k[2] - 1>> \in Live'
    <3>1. CASE k \in Live
      BY <1>1, <2>1, <2>6, <3>1 DEF Ledger
    <3>2. CASE k = Segment
      <4>1. k[1] = sealing /\ k[2] = seq[sealing]
        BY <3>2 DEF Segment
      <4>2. seq[sealing] \in Nat
        <5>1. Shaped(Here)
          BY <1>1, AllGood DEF Life, Here, Good
        <5>2. Here.seq[sealing] \in Nat
          BY <2>2, <5>1 DEF Shaped
        <5>3. Filled(sealing) \/ Flushing(sealing)
          BY <1>1, <1>3, UnderWay
        <5> QED BY <5>2, <5>3 DEF Filled, Flushing
      <4>3. seq[sealing] - 1 \in 1 .. seq[sealing] /\ seq[sealing] - 1 # seq[sealing]
        BY <2>6, <4>1, <4>2
      <4>4. <<sealing, seq[sealing] - 1>> \in Live
        BY <2>2, <4>3 DEF Line
      <4> QED BY <2>1, <4>1, <4>4
    <3> QED BY <2>1, <3>1, <3>2
  <2>7. Ledger'
    BY <2>1, <2>5, <2>6 DEF Ledger, Key
  <2> QED BY <2>1, <2>7
<1>4. commits' = commits \/ (doing = "append" /\ commits' = Append(commits, Commit) /\ UNCHANGED objects)
  BY DEF ImportNext, Start, Die, Store, Flush, PutSegment, AppendCommit, LateLands, importVars
<1> QED BY <1>2, <1>3, <1>4

\* Every step keeps the invariant.
LEMMA ImportStep ==
  ASSUME ImportInv, [ImportNext]_importVars
  PROVE  ImportInv'
<1>1. feed \in Feeds /\ Life /\ Bucket /\ Ledger
  BY DEF ImportInv
<1>2. feed' = feed /\ Bucket' /\ DOMAIN objects \subseteq DOMAIN objects'
  BY BucketStep
<1>3. Ledger' /\ Live \subseteq Live'
  BY LedgerStep
<1>4. ASSUME Die \/ (\E put \in late : LateLands(put)) \/ UNCHANGED importVars PROVE Life'
  <2>1. /\ UNCHANGED <<feed, nread, open, raw, seen, seq, sealing>>
        /\ doing' = doing \/ doing' = "down"
    BY <1>4 DEF Die, LateLands, importVars, partVars
  <2> QED BY <1>1, <1>2, <1>3, <2>1, LifeKept
<1>5. ASSUME PutSegment PROVE Life'
  <2>1. /\ UNCHANGED <<feed, nread, open, raw, seen, seq, sealing>>
        /\ doing' = "down" \/ (doing = "put" /\ doing' = "append" /\ objects' = PutObject(Segment, open[sealing]))
    BY <1>5 DEF PutSegment, partVars
  <2>2. doing' = "append" => Segment \in DOMAIN objects'
    BY <2>1 DEF PutObject
  <2> QED BY <1>1, <1>2, <1>3, <2>1, <2>2, LifeKept
<1>6. ASSUME AppendCommit PROVE Life'
  <2>1. CASE /\ commits' = Append(commits, Commit)
             /\ open' = [open EXCEPT ![sealing] = <<>>] /\ raw' = [raw EXCEPT ![sealing] = 0]
             /\ doing' = IF nread < Len(feed) THEN "reading" ELSE "flushing"
    <3>1. IsSeq(commits) /\ Live' = Live \cup {Segment}
      BY <1>1, <2>1, CommitAdds DEF Ledger
    <3>2. UNCHANGED <<feed, lives, nread, seen, seq, sealing, late, objects>> /\ doing = "append"
      BY <1>6 DEF AppendCommit
    <3> QED BY <1>1, <2>1, <3>1, <3>2, CommitLife
  <2>2. CASE doing' = "down" /\ UNCHANGED <<open, raw>>
    <3>1. UNCHANGED <<feed, nread, open, raw, seen, seq, sealing>>
      BY <1>6, <2>2 DEF AppendCommit
    <3> QED BY <1>1, <1>2, <1>3, <2>2, <3>1, LifeKept
  <2> QED BY <1>6, <2>1, <2>2 DEF AppendCommit
<1>7. ASSUME Start PROVE Life'
  BY <1>1, <1>7, StartLife
<1>8. ASSUME Store PROVE Life'
  BY <1>1, <1>8, StoreLife
<1>9. ASSUME Flush PROVE Life'
  BY <1>1, <1>9, FlushLife
<1>10. Life'
  BY <1>4, <1>5, <1>6, <1>7, <1>8, <1>9 DEF ImportNext
<1> QED BY <1>1, <1>2, <1>3, <1>10 DEF ImportInv

-----------------------------------------------------------------------------
(* What the invariant says of the chain.                                   *)

\* Rows that are all different are as many as the segment is long.
LEMMA DistinctCount ==
  ASSUME NEW rows, IsSeq(rows), Distinct(rows)
  PROVE  Cardinality(ToSet(rows)) = Len(rows)
<1>1. Len(rows) \in Nat /\ DOMAIN rows = 1 .. Len(rows) /\ ToSet(rows) = {rows[i] : i \in 1 .. Len(rows)}
  BY SeqParts DEF ToSet
<1> DEFINE m == [i \in 1 .. Len(rows) |-> rows[i]]
<1>2. m \in [1 .. Len(rows) -> ToSet(rows)]
  BY <1>1
<1>3. \A i, j \in 1 .. Len(rows) : m[i] = m[j] => i = j
  BY <1>1 DEF Distinct
<1>4. \A x \in ToSet(rows) : \E i \in 1 .. Len(rows) : m[i] = x
  BY <1>1
<1> HIDE DEF m
<1>5. m \in Bijection(1 .. Len(rows), ToSet(rows))
  <2>1. IsInjective(m)
    BY <1>2, <1>3 DEF IsInjective
  <2>2. m \in Injection(1 .. Len(rows), ToSet(rows))
    BY <1>2, <2>1 DEF Injection
  <2>3. m \in Surjection(1 .. Len(rows), ToSet(rows))
    BY <1>2, <1>4 DEF Surjection
  <2> QED BY <2>2, <2>3 DEF Bijection
<1>6. IsFiniteSet(1 .. Len(rows)) /\ Cardinality(1 .. Len(rows)) = Len(rows)
  <2>1. PICK n \in Nat : n = Len(rows)
    BY <1>1
  <2>2. 1 \in Int /\ n \in Int
    BY <2>1
  <2>3. IsFiniteSet(1 .. n) /\ Cardinality(1 .. n) = IF 1 > n THEN 0 ELSE n - 1 + 1
    BY <2>2, FS_Interval
  <2>4. (IF 1 > n THEN 0 ELSE n - 1 + 1) = n
    BY <2>1
  <2> QED BY <2>1, <2>3, <2>4
<1>7. ExistsBijection(1 .. Len(rows), ToSet(rows))
  BY <1>5 DEF ExistsBijection
<1> QED BY <1>6, <1>7, FS_Bijection

\* At the command's end every segment of the feed is live.
LEMMA AllLive ==
  ASSUME ImportInv, doing = "done", NEW g \in Segments(feed)
  PROVE  g.key \in Live
<1> DEFINE t == Reads(feed)[Len(feed)]
<1>1. /\ feed \in Feeds /\ nread = Len(feed) /\ \A q \in HomePartition : Line(q) /\ open[q] = <<>>
  BY DEF ImportInv, Life
<1>2. Here = t
  BY <1>1 DEF Here
<1>3. PICK p \in HomePartition : \E s \in Nat :
        g.key = <<p, s>> /\ (s \in 1 .. t.seq[p] \/ (s = t.seq[p] + 1 /\ t.open[p] # <<>>))
  BY <1>1, SegmentsAre
<1>4. t.seq[p] \in Nat
  <2>1. Shaped(t)
    BY <1>1, AllGood DEF Good
  <2> QED BY <2>1 DEF Shaped
<1> HIDE DEF t
<1>5. PICK s \in Nat : g.key = <<p, s>> /\ (s \in 1 .. t.seq[p] \/ (s = t.seq[p] + 1 /\ t.open[p] # <<>>))
  BY <1>3
<1>6. Line(p) /\ ~Sealing(p) /\ open[p] = <<>>
  BY <1>1 DEF Sealing
<1>7. s \in 1 .. seq[p]
  <2>1. CASE AsRead(p)
    BY <1>2, <1>4, <1>5, <1>6, <2>1 DEF AsRead
  <2>2. CASE Flushed(p)
    <3>1. seq[p] = t.seq[p] + 1
      BY <1>2, <2>2 DEF Flushed
    <3> QED BY <1>4, <1>5, <3>1
  <2> QED BY <1>6, <2>1, <2>2 DEF Line, Filled, Flushing
<1>8. <<p, s>> \in Live
  BY <1>6, <1>7 DEF Line
<1> QED BY <1>5, <1>8

\* A chain that agrees with the readings has what an import promises.
LEMMA Landed == ASSUME ImportInv PROVE ImportLands
<1> DEFINE L == Len(feed)
<1>1. feed \in Feeds /\ Life /\ Bucket /\ Ledger
  BY DEF ImportInv
<1>2. /\ \A g \in Segments(feed) :
           /\ IsSeq(g.rows) /\ Distinct(g.rows)
           /\ \E p \in HomePartition : \E s \in Nat :
                g.key = <<p, s>> /\ \A x \in ToSet(g.rows) : PageOf(feed, L, p, x)
      /\ \A g, h \in Segments(feed) : g # h => g.key # h.key /\ Apart(g.rows, h.rows)
      /\ \A p \in HomePartition : \A x : PageOf(feed, L, p, x) => \E g \in Segments(feed) : x \in ToSet(g.rows)
  BY <1>1, SegmentsAre
<1>3. /\ L \in Nat /\ DOMAIN feed = 1 .. L
      /\ \A i \in 1 .. L : Home[feed[i].host] \in HomePartition
  BY <1>1, ImportAssumption, SeqParts DEF IsSeq, HomePartition
<1>4. ASSUME NEW k \in Live PROVE \E g \in Segments(feed) : g.key = k /\ g.rows = objects[k]
  <2>1. k \in DOMAIN objects
    BY <1>1 DEF Ledger, Live
  <2> QED BY <1>1, <2>1 DEF Bucket, IsSegment
<1>5. \A k, l \in Live : k # l => RowsAt(k) \cap RowsAt(l) = {}
  BY <1>2, <1>4 DEF RowsAt, Apart
<1>6. \A k \in Live : Cardinality(RowsAt(k)) = Len(objects[k])
  BY <1>2, <1>4, DistinctCount DEF RowsAt
<1>7. ASSUME NEW k \in Live, NEW row \in RowsAt(k)
      PROVE  \E i \in DOMAIN feed : Accepted(feed[i]) /\ Pair(feed[i]) = row /\ Home[feed[i].host] = k[1]
  <2> PICK g \in Segments(feed) : g.key = k /\ g.rows = objects[k]
    BY <1>4
  <2> row \in ToSet(g.rows)
    BY <1>7 DEF RowsAt
  <2>1. PICK p \in HomePartition : \E s \in Nat : k = <<p, s>> /\ PageOf(feed, L, p, row)
    BY <1>2
  <2>2. k[1] = p /\ PageOf(feed, L, p, row)
    BY <2>1
  <2> QED BY <1>3, <2>2 DEF PageOf
<1>8. ASSUME doing = "done", NEW i \in DOMAIN feed, Accepted(feed[i])
      PROVE  \E k \in Live : Pair(feed[i]) \in RowsAt(k)
  <2>1. PageOf(feed, L, Home[feed[i].host], Pair(feed[i])) /\ Home[feed[i].host] \in HomePartition
    BY <1>3, <1>8 DEF PageOf
  <2>2. PICK g \in Segments(feed) : Pair(feed[i]) \in ToSet(g.rows)
    BY <1>2, <2>1
  <2>3. g.key \in Live
    BY <1>8, AllLive
  <2>4. objects[g.key] = g.rows
    BY <1>2, <1>4, <2>3
  <2> QED BY <2>2, <2>3, <2>4 DEF RowsAt
<1>9. doing = "done" =>
        UNION {RowsAt(k) : k \in Live} = {Pair(feed[i]) : i \in {j \in DOMAIN feed : Accepted(feed[j])}}
  BY <1>7, <1>8
<1>10. /\ \A i \in DOMAIN commits :
            Key(commits[i]) \in DOMAIN objects /\ Len(objects[Key(commits[i])]) = commits[i].rows
       /\ \A k \in Live : k[2] > 1 => <<k[1], k[2] - 1>> \in Live
  BY <1>1 DEF Ledger
<1> QED BY <1>5, <1>6, <1>7, <1>9, <1>10 DEF ImportLands

\* Nothing is written before the command starts.
LEMMA ImportStart == ASSUME InitImport PROVE ImportInv
<1>1. /\ feed \in Feeds /\ nread = 0 /\ doing = "down" /\ late = {} /\ objects = <<>> /\ commits = <<>>
      /\ open = [p \in HomePartition |-> <<>>] /\ raw = [p \in HomePartition |-> 0]
      /\ seen = [p \in HomePartition |-> {}] /\ seq = [p \in HomePartition |-> 0]
  BY DEF InitImport
<1>2. IsSeq(<<>>) /\ DOMAIN <<>> = {}
  BY DEF IsSeq
<1>3. Life
  <2>1. 0 \in 0 .. Len(feed)
    BY <1>1, AllGood
  <2> QED BY <1>1, <2>1 DEF Life
<1>4. Bucket
  BY <1>1, <1>2 DEF Bucket
<1>5. Live = {}
  BY <1>1, <1>2 DEF Live
<1>6. Ledger
  BY <1>1, <1>2, <1>5 DEF Ledger
<1> QED BY <1>1, <1>3, <1>4, <1>6 DEF ImportInv

\* In every state of every repetition of the command, the bucket and the chain hold nothing but
\* the segments of the feed, and the running importer is where its reading is.
THEOREM ImportInvariant == ImportSpec => []ImportInv
<1>1. InitImport => ImportInv
  BY ImportStart
<1>2. ImportInv /\ [ImportNext]_importVars => ImportInv'
  BY ImportStep
<1> QED BY <1>1, <1>2, PTL DEF ImportSpec

\* Whatever dies, fails, is repeated or lands late, what the chain commits is there, complete,
\* gapless, live once and in its host's partition, and an import that ends has every page live.
THEOREM ImportLandsAlways == ImportSpec => []ImportLands
<1>1. ImportInv => ImportLands
  BY Landed
<1> QED BY <1>1, ImportInvariant, PTL

-----------------------------------------------------------------------------
(***************************************************************************)
(* The choice of a manifest. SelectManifest's loop is unrolled into a      *)
(* table (Picks) over the listing in order, and the positions it takes are *)
(* the valid ones. Nothing is known of what the manifests state; that a    *)
(* zombie loses against a valid manifest of its successor rests on the     *)
(* lease history: an epoch that held the lease later is larger.            *)
(***************************************************************************)

\* Epochs do not come back: what holds the lease later is newer, and one is the newest.
Succession ==
  /\ holder \in Seq(Nat) /\ Len(holder) >= 1 /\ holder[1] = 1
  /\ \A p, q \in DOMAIN holder : p < q /\ holder[p] # 0 /\ holder[q] # 0 => holder[p] <= holder[q]
  /\ \E e \in Epochs : \A f \in Epochs : f <= e

Statements ==
  /\ IsFiniteSet(mans)
  /\ \A m \in mans : m.epoch \in Nat \ {0} /\ m.manSeq \in Nat /\ m.watermark \in Nat

ManInv == Succession /\ Statements

Pick(winner, m) == IF heldAtOrAfter(m.epoch, winner.watermark) THEN m ELSE winner

\* The table from which FoldLeft reads what SelectManifest has picked of any of o's positions.
Picks(g, o, D) ==
  [t \in SUBSET D |-> IF t = {} THEN NoManifest ELSE Pick(g[t \ {Max(t)}], o[Max(t)])]

\* There is one for every number of manifests.
LEMMA PicksExist ==
  ASSUME NEW o, NEW n \in Nat
  PROVE  \E g : g = Picks(g, o, 1 .. n)
<1> DEFINE S == {m \in Nat : \E g : g = Picks(g, o, 1 .. m)}
<1>1. 0 \in S
  <2>1. SUBSET (1 .. 0) = {{}}
    OBVIOUS
  <2> DEFINE g == [t \in SUBSET (1 .. 0) |-> NoManifest]
  <2>2. g = Picks(g, o, 1 .. 0)
    BY <2>1 DEF Picks
  <2> QED BY <2>2
<1>2. ASSUME NEW m \in Nat, m \in S PROVE m + 1 \in S
  <2>1. PICK g : g = Picks(g, o, 1 .. m)
    BY <1>2
  <2> DEFINE k == m + 1
             h == [t \in SUBSET (1 .. k) |-> IF k \in t THEN Pick(g[t \ {k}], o[k]) ELSE g[t]]
  <2>2. ASSUME NEW t \in SUBSET (1 .. k)
        PROVE  h[t] = IF t = {} THEN NoManifest ELSE Pick(h[t \ {Max(t)}], o[Max(t)])
    <3>1. CASE k \in t
      <4>1. Max(t) = k
        BY <3>1, MaxIs
      <4>2. t \ {k} \in SUBSET (1 .. k) /\ k \notin t \ {k} /\ t # {}
        BY <3>1
      <4>3. h[t \ {k}] = g[t \ {k}]
        BY <4>2
      <4> QED BY <3>1, <4>1, <4>2, <4>3
    <3>2. CASE k \notin t
      <4>1. t \in SUBSET (1 .. m) /\ h[t] = g[t]
        BY <3>2
      <4>2. t \ {Max(t)} \in SUBSET (1 .. k) /\ k \notin t \ {Max(t)}
        BY <3>2
      <4>3. h[t \ {Max(t)}] = g[t \ {Max(t)}]
        BY <4>2
      <4>4. g[t] = IF t = {} THEN NoManifest ELSE Pick(g[t \ {Max(t)}], o[Max(t)])
        BY <2>1, <4>1 DEF Picks
      <4> QED BY <4>1, <4>3, <4>4
    <3> QED BY <3>1, <3>2
  <2>3. h = Picks(h, o, 1 .. k)
    <3>1. h = [t \in SUBSET (1 .. k) |-> h[t]]
      OBVIOUS
    <3> HIDE DEF h
    <3> QED BY <2>2, <3>1 DEF Picks
  <2> QED BY <2>3
<1> HIDE DEF S
<1>3. n \in S
  BY <1>1, <1>2, NatRise
<1> QED BY <1>3 DEF S

\* SelectManifest takes the ordered listing one by one.
LEMMA SelectSteps ==
  ASSUME NEW listing, NEW n \in Nat, DOMAIN Ordered(listing) = 1 .. n
  PROVE  \E f : /\ f[0] = NoManifest /\ SelectManifest(listing) = f[n]
                /\ \A j \in 1 .. n : f[j] = Pick(f[j - 1], Ordered(listing)[j])
<1> DEFINE o == Ordered(listing)
           it == CHOOSE g : g = [t \in SUBSET (DOMAIN o) |->
                   IF t = {} THEN NoManifest
                   ELSE IF heldAtOrAfter(o[Max(t)].epoch, g[t \ {Max(t)}].watermark)
                        THEN o[Max(t)] ELSE g[t \ {Max(t)}]]
           f == [j \in 0 .. n |-> it[1 .. j]]
<1>1. SelectManifest(listing) = it[DOMAIN o]
  BY Zenon DEF SelectManifest, FoldLeft, MapThenFoldSet
<1>2. DOMAIN o = 1 .. n
  OBVIOUS
<1> HIDE DEF o
<1>3. it = Picks(it, o, 1 .. n)
  <2>1. \E g : g = Picks(g, o, 1 .. n)
    BY PicksExist
  <2>2. it = CHOOSE g : g = Picks(g, o, 1 .. n)
    BY <1>2, Zenon DEF Picks, Pick
  <2> HIDE DEF it
  <2> QED BY <2>1, <2>2
<1> HIDE DEF it
<1>4. it[{}] = NoManifest
  BY <1>3 DEF Picks
<1>5. ASSUME NEW j \in 1 .. n PROVE it[1 .. j] = Pick(it[1 .. j - 1], o[j])
  <2>1. Max(1 .. j) = j
    <3>1. 1 .. j \in SUBSET Int /\ j \in 1 .. j /\ \A x \in 1 .. j : x <= j
      OBVIOUS
    <3> QED BY <3>1, MaxIs
  <2>2. 1 .. j \in SUBSET (1 .. n) /\ 1 .. j # {} /\ (1 .. j) \ {j} = 1 .. j - 1
    OBVIOUS
  <2> QED BY <1>3, <2>1, <2>2 DEF Picks
<1>6. f[0] = NoManifest /\ f[n] = it[1 .. n]
  <2>1. 1 .. 0 = {}
    OBVIOUS
  <2> QED BY <1>4, <2>1
<1>7. ASSUME NEW j \in 1 .. n PROVE f[j] = Pick(f[j - 1], o[j])
  BY <1>5
<1> HIDE DEF f
<1> QED BY <1>1, <1>2, <1>6, <1>7 DEF o

\* The ordered listing names each manifest once, by rising number.
LEMMA OrderedIs ==
  ASSUME Statements, NEW listing \in SetToSeqs(mans), NEW n, n = Cardinality(mans)
  PROVE  LET o == Ordered(listing) IN
         /\ n \in Nat /\ DOMAIN o = 1 .. n /\ \A i \in 1 .. n : o[i] \in mans
         /\ \A m \in mans : \E i \in 1 .. n : o[i] = m
         /\ \A i, j \in 1 .. n : i < j => o[i] # o[j] /\ o[i].manSeq <= o[j].manSeq
<1>1. /\ n \in Nat /\ DOMAIN listing = 1 .. n /\ \A i \in 1 .. n : listing[i] \in mans
      /\ \A i, j \in 1 .. n : listing[i] = listing[j] => i = j
      /\ \A m \in mans : \E i \in 1 .. n : listing[i] = m
  BY EnumCovers DEF Statements
<1>2. \A i \in 1 .. n : listing[i].manSeq \in Nat
  BY <1>1 DEF Statements
<1> DEFINE R == {x \in (1 .. n) \X (1 .. n) : Before(listing, x[1], x[2])}
<1>3. Orders(R, 1 .. n)
  <2>1. ASSUME NEW x \in 1 .. n, NEW y \in 1 .. n, x # y PROVE Before(listing, x, y) \/ Before(listing, y, x)
    BY <1>2, <2>1 DEF Before
  <2>2. ASSUME NEW x \in 1 .. n, NEW y \in 1 .. n, NEW z \in 1 .. n,
               Before(listing, x, y), Before(listing, y, z)
        PROVE  Before(listing, x, z)
    BY <1>2, <2>2 DEF Before
  <2>3. \A x, y \in 1 .. n : <<x, y>> \in R <=> Before(listing, x, y)
    OBVIOUS
  <2> HIDE DEF R
  <2> QED BY <2>1, <2>2, <2>3 DEF Orders
<1>4. IsFiniteSet(1 .. n) /\ Cardinality(1 .. n) = n
  BY <1>1, IntervalCount
<1>5. \E s \in SetToSeqs(1 .. n) : Ascending(s, R)
  <2> HIDE DEF R
  <2> QED BY <1>3, <1>4, SortExists
<1> DEFINE order == CHOOSE s \in SetToSeqs(1 .. n) :
                      \A a, b \in DOMAIN s : a < b => Before(listing, s[a], s[b])
<1>6. order \in SetToSeqs(1 .. n) /\ \A a, b \in DOMAIN order : a < b => Before(listing, order[a], order[b])
  <2>1. \E s \in SetToSeqs(1 .. n) : \A a, b \in DOMAIN s : a < b => Before(listing, s[a], s[b])
    BY <1>5 DEF Ascending
  <2> QED BY <2>1
<1>7. Ordered(listing) = [a \in DOMAIN order |-> listing[order[a]]]
  BY <1>1 DEF Ordered
<1> HIDE DEF order
<1>8. /\ DOMAIN order = 1 .. n /\ \A a \in 1 .. n : order[a] \in 1 .. n
      /\ \A a, b \in 1 .. n : order[a] = order[b] => a = b
      /\ \A i \in 1 .. n : \E a \in 1 .. n : order[a] = i
  <2>1. IsFiniteSet(1 .. n) /\ order \in SetToSeqs(1 .. n)
    BY <1>4, <1>6
  <2>2. /\ DOMAIN order = 1 .. Cardinality(1 .. n)
        /\ \A i \in DOMAIN order : order[i] \in 1 .. n
        /\ \A i, j \in DOMAIN order : order[i] = order[j] => i = j
        /\ \A x \in 1 .. n : \E i \in DOMAIN order : order[i] = x
    BY <2>1, EnumCovers
  <2>3. DOMAIN order = 1 .. n
    BY <1>4, <2>2
  <2> QED BY <2>2, <2>3
<1> DEFINE o == Ordered(listing)
<1>9. DOMAIN o = 1 .. n /\ \A a \in 1 .. n : o[a] = listing[order[a]]
  BY <1>7, <1>8
<1> HIDE DEF o
<1>10. \A m \in mans : \E a \in 1 .. n : o[a] = m
  BY <1>1, <1>8, <1>9
<1>11. ASSUME NEW i \in 1 .. n, NEW j \in 1 .. n, i < j PROVE o[i] # o[j] /\ o[i].manSeq <= o[j].manSeq
  <2>1. Before(listing, order[i], order[j]) /\ i # j
    BY <1>6, <1>8, <1>11
  <2>2. listing[order[i]].manSeq \in Nat /\ listing[order[j]].manSeq \in Nat
    BY <1>2, <1>8
  <2>3. listing[order[i]].manSeq <= listing[order[j]].manSeq
    BY <2>1, <2>2 DEF Before
  <2>4. o[i] = listing[order[i]] /\ o[j] = listing[order[j]]
    BY <1>9
  <2>5. order[i] \in 1 .. n /\ order[j] \in 1 .. n /\ order[i] # order[j]
    BY <1>8, <2>1
  <2>6. listing[order[i]] # listing[order[j]]
    BY <1>1, <2>5
  <2> QED BY <2>3, <2>4, <2>6
<1>12. \A i \in 1 .. n : o[i] \in mans
  BY <1>1, <1>8, <1>9
<1> QED BY <1>1, <1>9, <1>10, <1>11, <1>12 DEF o

\* The positions the loop takes are the valid ones, and it ends on the last of them.
LEMMA TakesTheValid ==
  ASSUME NEW o, NEW n \in Nat, DOMAIN o = 1 .. n, NEW f, f[0] = NoManifest,
         \A j \in 1 .. n : f[j] = Pick(f[j - 1], o[j]),
         NEW V, V = {j \in 1 .. n : heldAtOrAfter(o[j].epoch, f[j - 1].watermark)}
  PROVE  ByTheRule(o, V) /\ f[n] = LastOf(o, V)
<1> DEFINE Below(k) == {j \in V : j < k}
           S == {k \in Nat : k \in 0 .. n => f[k] = LastOf(o, Below(k + 1))}
<1>1. 0 \in S
  <2>1. Below(0 + 1) = {}
    OBVIOUS
  <2> HIDE DEF Below
  <2>2. f[0] = LastOf(o, Below(0 + 1))
    BY <2>1 DEF LastOf
  <2> QED BY <2>2
<1>2. ASSUME NEW k \in Nat, k \in S PROVE k + 1 \in S
  <2> SUFFICES ASSUME k + 1 \in 0 .. n PROVE f[k + 1] = LastOf(o, Below(k + 1 + 1))
    OBVIOUS
  <2>1. k + 1 \in 1 .. n /\ f[k] = LastOf(o, Below(k + 1)) /\ f[k + 1] = Pick(f[k], o[k + 1])
    BY <1>2
  <2>2. CASE k + 1 \in V
    <3>1. f[k + 1] = o[k + 1]
      BY <2>1, <2>2 DEF Pick
    <3>2. Below(k + 1 + 1) \in SUBSET Int /\ k + 1 \in Below(k + 1 + 1)
      BY <2>2
    <3>3. \A y \in Below(k + 1 + 1) : k + 1 >= y
      OBVIOUS
    <3> HIDE DEF Below
    <3>4. Max(Below(k + 1 + 1)) = k + 1
      BY <3>2, <3>3, MaxIs
    <3> QED BY <3>1, <3>2, <3>4 DEF LastOf
  <2>3. CASE k + 1 \notin V
    <3>1. f[k + 1] = f[k]
      BY <2>1, <2>3 DEF Pick
    <3>2. Below(k + 1 + 1) = Below(k + 1)
      <4>1. \A j \in V : j \in Nat /\ (j < k + 1 + 1 <=> j < k + 1)
        BY <2>3
      <4> QED BY <4>1
    <3> HIDE DEF Below
    <3> QED BY <2>1, <3>1, <3>2
  <2> QED BY <2>2, <2>3
<1>3. \A k \in 0 .. n : f[k] = LastOf(o, Below(k + 1))
  <2> SUFFICES ASSUME NEW k \in 0 .. n PROVE f[k] = LastOf(o, Below(k + 1))
    OBVIOUS
  <2>1. k \in Nat
    OBVIOUS
  <2> HIDE DEF S
  <2>2. k \in S
    BY <1>1, <1>2, <2>1, NatRise
  <2> QED BY <2>2 DEF S
<1>4. ASSUME NEW i \in 1 .. n PROVE i \in V <=> heldAtOrAfter(o[i].epoch, LastOf(o, Below(i)).watermark)
  <2>1. i - 1 \in 0 .. n /\ i - 1 + 1 = i
    OBVIOUS
  <2>2. f[i - 1] = LastOf(o, Below(i))
    <3> HIDE DEF Below
    <3> QED BY <1>3, <2>1
  <2> HIDE DEF Below
  <2> QED BY <2>2
<1>5. Below(n + 1) = V
  OBVIOUS
<1>6. f[n] = LastOf(o, V)
  <2>1. n \in 0 .. n
    OBVIOUS
  <2> HIDE DEF Below, S
  <2>2. f[n] = LastOf(o, Below(n + 1))
    BY <1>3, <2>1
  <2> QED BY <1>5, <2>2
<1>7. ByTheRule(o, V)
  BY <1>4 DEF ByTheRule
<1> QED BY <1>6, <1>7

\* Behind a valid manifest whose writer had seen its grant, no older epoch's is valid.
LEMMA ZombiesLose ==
  ASSUME Succession, Informed, NEW n \in Nat, NEW o, \A i \in 1 .. n : o[i] \in mans, Statements,
         NEW f, f[0] = NoManifest, \A j \in 1 .. n : f[j] = Pick(f[j - 1], o[j]),
         NEW V, V = {j \in 1 .. n : heldAtOrAfter(o[j].epoch, f[j - 1].watermark)}
  PROVE  \A i, j \in V : i < j => o[i].epoch <= o[j].epoch
<1>1. ASSUME NEW w \in mans, NEW m \in mans, heldAtOrAfter(m.epoch, w.watermark)
      PROVE  w.epoch <= m.epoch
  <2>1. PICK p \in DOMAIN holder : p >= w.watermark /\ holder[p] = m.epoch
    BY <1>1 DEF heldAtOrAfter
  <2>2. PICK q \in DOMAIN holder : q <= w.watermark /\ holder[q] = w.epoch
    BY DEF Informed
  <2>3. w.watermark \in Nat /\ w.epoch \in Nat \ {0} /\ m.epoch \in Nat \ {0}
    BY DEF Statements
  <2>4. p \in Nat /\ q \in Nat
    BY DEF Succession
  <2>5. CASE q = p
    BY <2>1, <2>2, <2>3, <2>5
  <2>6. CASE q < p
    BY <2>1, <2>2, <2>3, <2>6 DEF Succession
  <2> QED BY <2>1, <2>2, <2>3, <2>4, <2>5, <2>6
<1>2. \A i \in 1 .. n : o[i].epoch \in Nat
  BY DEF Statements
<1> DEFINE S == {k \in Nat : k \in 0 .. n =>
                   \A i \in V : i <= k => f[k] \in mans /\ o[i].epoch <= f[k].epoch}
<1>3. 0 \in S
  OBVIOUS
<1>4. ASSUME NEW k \in Nat, k \in S PROVE k + 1 \in S
  <2> SUFFICES ASSUME k + 1 \in 0 .. n, NEW i \in V, i <= k + 1
               PROVE  f[k + 1] \in mans /\ o[i].epoch <= f[k + 1].epoch
    OBVIOUS
  <2>1. k + 1 \in 1 .. n /\ k \in 0 .. n /\ f[k + 1] = Pick(f[k], o[k + 1]) /\ i \in 1 .. n
    OBVIOUS
  <2>2. i <= k => f[k] \in mans /\ o[i].epoch <= f[k].epoch
    BY <1>4, <2>1
  <2>3. CASE k + 1 \in V
    <3>1. f[k + 1] = o[k + 1] /\ heldAtOrAfter(o[k + 1].epoch, f[k].watermark)
      BY <2>1, <2>3 DEF Pick
    <3>2. o[k + 1] \in mans
      BY <2>1
    <3>3. CASE i = k + 1
      BY <1>2, <2>1, <3>1, <3>2, <3>3
    <3>4. CASE i <= k
      <4>1. f[k] \in mans /\ o[i].epoch <= f[k].epoch
        BY <2>2, <3>4
      <4>2. f[k].epoch <= o[k + 1].epoch
        BY <1>1, <3>1, <3>2, <4>1
      <4>3. f[k].epoch \in Nat
        BY <4>1 DEF Statements
      <4> QED BY <1>2, <2>1, <3>1, <3>2, <4>1, <4>2, <4>3
    <3> QED BY <2>1, <3>3, <3>4
  <2>4. CASE k + 1 \notin V
    <3>1. f[k + 1] = f[k]
      BY <2>1, <2>4 DEF Pick
    <3>2. i <= k
      BY <2>1, <2>4
    <3> QED BY <2>2, <3>1, <3>2
  <2> QED BY <2>3, <2>4
<1>5. ASSUME NEW i \in V, NEW j \in V, i < j PROVE o[i].epoch <= o[j].epoch
  <2>1. i \in 1 .. n /\ j \in 1 .. n /\ j - 1 \in Nat /\ j - 1 \in 0 .. n /\ i <= j - 1
    BY <1>5
  <2>2. j - 1 \in S
    <3> HIDE DEF S
    <3> QED BY <1>3, <1>4, <2>1, NatRise
  <2>3. f[j - 1] \in mans /\ o[i].epoch <= f[j - 1].epoch
    BY <2>1, <2>2
  <2>4. heldAtOrAfter(o[j].epoch, f[j - 1].watermark) /\ o[j] \in mans
    BY <2>1
  <2>5. f[j - 1].epoch <= o[j].epoch
    BY <1>1, <2>3, <2>4
  <2>6. f[j - 1].epoch \in Nat
    BY <2>3 DEF Statements
  <2> QED BY <1>2, <2>1, <2>3, <2>5, <2>6
<1> QED BY <1>5

\* Manifests of different numbers are put in one order, however they are listed.
LEMMA OneOrder ==
  ASSUME Statements, Numbered, NEW one \in SetToSeqs(mans), NEW other \in SetToSeqs(mans)
  PROVE  Ordered(one) = Ordered(other)
<1>1. PICK n : n = Cardinality(mans)
  OBVIOUS
<1> DEFINE a == Ordered(one)
           b == Ordered(other)
<1>2. /\ n \in Nat /\ DOMAIN a = 1 .. n /\ \A i \in 1 .. n : a[i] \in mans
      /\ \A m \in mans : \E i \in 1 .. n : a[i] = m
      /\ \A i, j \in 1 .. n : i < j => a[i] # a[j] /\ a[i].manSeq <= a[j].manSeq
  BY <1>1, OrderedIs
<1>3. /\ DOMAIN b = 1 .. n /\ \A i \in 1 .. n : b[i] \in mans
      /\ \A m \in mans : \E i \in 1 .. n : b[i] = m
      /\ \A i, j \in 1 .. n : i < j => b[i] # b[j] /\ b[i].manSeq <= b[j].manSeq
  BY <1>1, OrderedIs
<1>4. a = [k \in DOMAIN a |-> a[k]] /\ b = [k \in DOMAIN b |-> b[k]]
  BY DEF Ordered
<1> HIDE DEF a, b
<1>5. \A m \in mans : m.manSeq \in Nat
  BY DEF Statements
<1>6. ASSUME NEW x, NEW y, NEW k \in 1 .. n, \A i \in 1 .. n : i < k => x[i] = y[i],
             \A i \in 1 .. n : x[i] \in mans /\ y[i] \in mans,
             \A m \in mans : \E i \in 1 .. n : y[i] = m,
             \A i, j \in 1 .. n : i < j => x[i] # x[j],
             \A i, j \in 1 .. n : i < j => y[i].manSeq <= y[j].manSeq
      PROVE  y[k].manSeq <= x[k].manSeq
  <2>1. PICK i \in 1 .. n : y[i] = x[k]
    BY <1>6
  <2>2. ~(i < k)
    BY <1>6, <2>1
  <2>3. i = k \/ k < i
    BY <2>2
  <2> QED BY <1>5, <1>6, <2>1, <2>3
<1> DEFINE S == {k \in Nat : \A i \in 1 .. n : i <= k => a[i] = b[i]}
<1>7. 0 \in S
  OBVIOUS
<1>8. ASSUME NEW k \in Nat, k \in S PROVE k + 1 \in S
  <2> SUFFICES ASSUME k + 1 \in 1 .. n PROVE a[k + 1] = b[k + 1]
    <3>1. ASSUME NEW i \in 1 .. n, i <= k + 1 PROVE a[i] = b[i]
      <4>1. CASE i = k + 1
        BY <4>1
      <4>2. CASE i <= k
        BY <1>8, <4>2
      <4> QED BY <1>2, <3>1, <4>1, <4>2
    <3> QED BY <3>1
  <2>1. \A i \in 1 .. n : i < k + 1 => a[i] = b[i]
    BY <1>2, <1>8
  <2>2. b[k + 1].manSeq <= a[k + 1].manSeq
    <3>1. \A i \in 1 .. n : a[i] \in mans /\ b[i] \in mans
      BY <1>2, <1>3
    <3>2. \A i, j \in 1 .. n : i < j => a[i] # a[j]
      BY <1>2
    <3>3. \A i, j \in 1 .. n : i < j => b[i].manSeq <= b[j].manSeq
      BY <1>3
    <3>4. \A m \in mans : \E i \in 1 .. n : b[i] = m
      BY <1>3
    <3> HIDE DEF S
    <3> QED BY <1>6, <2>1, <3>1, <3>2, <3>3, <3>4
  <2>3. a[k + 1].manSeq <= b[k + 1].manSeq
    <3>1. \A i \in 1 .. n : b[i] \in mans /\ a[i] \in mans
      BY <1>2, <1>3
    <3>2. \A i, j \in 1 .. n : i < j => b[i] # b[j]
      BY <1>3
    <3>3. \A i, j \in 1 .. n : i < j => a[i].manSeq <= a[j].manSeq
      BY <1>2
    <3>4. \A m \in mans : \E i \in 1 .. n : a[i] = m
      BY <1>2
    <3>5. \A i \in 1 .. n : i < k + 1 => b[i] = a[i]
      BY <2>1
    <3> HIDE DEF S
    <3> QED BY <1>6, <3>1, <3>2, <3>3, <3>4, <3>5
  <2>4. a[k + 1] \in mans /\ b[k + 1] \in mans
    BY <1>2, <1>3
  <2>5. a[k + 1].manSeq = b[k + 1].manSeq
    BY <1>5, <2>2, <2>3, <2>4
  <2> QED BY <2>4, <2>5 DEF Numbered
<1>9. n \in S
  <2> HIDE DEF S
  <2> QED BY <1>2, <1>7, <1>8, NatRise
<1>10. \A i \in 1 .. n : a[i] = b[i]
  BY <1>2, <1>9
<1>11. a = b
  BY <1>2, <1>3, <1>4, <1>10
<1> QED BY <1>11 DEF a, b

\* What is known of the chain is enough, whatever is published.
LEMMA ManifestsLive == ManInv => OneLiveSet
<1> SUFFICES ASSUME ManInv PROVE OneLiveSet
  OBVIOUS
<1>1. ASSUME NEW listing \in SetToSeqs(mans)
      PROVE  LET listed == Ordered(listing) IN
             \E valid \in SUBSET DOMAIN listed :
               /\ ByTheRule(listed, valid)
               /\ SelectManifest(listing) = LastOf(listed, valid)
               /\ Informed => \A i, j \in valid : i < j => listed[i].epoch <= listed[j].epoch
  <2> DEFINE o == Ordered(listing)
  <2>1. PICK n : n = Cardinality(mans)
    OBVIOUS
  <2>2. n \in Nat /\ DOMAIN o = 1 .. n /\ \A i \in 1 .. n : o[i] \in mans
    BY <2>1, OrderedIs DEF ManInv
  <2>3. PICK f : /\ f[0] = NoManifest /\ SelectManifest(listing) = f[n]
                 /\ \A j \in 1 .. n : f[j] = Pick(f[j - 1], o[j])
    BY <2>2, SelectSteps
  <2>4. PICK V : V = {j \in 1 .. n : heldAtOrAfter(o[j].epoch, f[j - 1].watermark)}
    OBVIOUS
  <2> HIDE DEF o
  <2>5. ByTheRule(o, V) /\ f[n] = LastOf(o, V)
    BY <2>2, <2>3, <2>4, TakesTheValid
  <2>6. Informed => \A i, j \in V : i < j => o[i].epoch <= o[j].epoch
    <3> SUFFICES ASSUME Informed PROVE \A i, j \in V : i < j => o[i].epoch <= o[j].epoch
      OBVIOUS
    <3>1. Succession /\ Statements
      BY DEF ManInv
    <3>2. n \in Nat /\ \A i \in 1 .. n : o[i] \in mans
      BY <2>2
    <3>3. f[0] = NoManifest
      BY <2>3
    <3>4. \A j \in 1 .. n : f[j] = Pick(f[j - 1], o[j])
      BY <2>3
    <3> QED BY ONLY Informed, <2>4, <3>1, <3>2, <3>3, <3>4, ZombiesLose, Zenon
  <2>7. V \in SUBSET DOMAIN o
    BY <2>2, <2>4
  <2>8. \E valid \in SUBSET DOMAIN o :
          /\ ByTheRule(o, valid)
          /\ SelectManifest(listing) = LastOf(o, valid)
          /\ Informed => \A i, j \in valid : i < j => o[i].epoch <= o[j].epoch
    BY <2>3, <2>5, <2>6, <2>7
  <2> QED BY <2>8 DEF o
<1>2. ASSUME Numbered, NEW one \in SetToSeqs(mans), NEW other \in SetToSeqs(mans)
      PROVE  SelectManifest(one) = SelectManifest(other)
  <2>1. Ordered(one) = Ordered(other)
    BY <1>2, OneOrder DEF ManInv
  <2> QED BY <2>1, Zenon DEF SelectManifest, FoldLeft, MapThenFoldSet
<1> QED BY <1>1, <1>2, Zenon DEF OneLiveSet

\* The chain's first position has a holder and no manifest is published.
LEMMA ManInitInv == InitMan => ManInv
<1> SUFFICES ASSUME InitMan PROVE ManInv
  OBVIOUS
<1>1. holder = <<1>> /\ mans = {}
  BY DEF InitMan
<1>2. Epochs = {1}
  BY <1>1 DEF Epochs
<1>3. Succession
  BY <1>1, <1>2 DEF Succession
<1>4. Statements
  BY <1>1, FS_EmptySet DEF Statements
<1> QED BY <1>3, <1>4 DEF ManInv

\* The lease history and the published manifests stay as described.
LEMMA ManNextInv == ManInv /\ [NextMan]_manVars => ManInv'
<1> SUFFICES ASSUME ManInv, [NextMan]_manVars PROVE ManInv'
  OBVIOUS
<1>1. /\ holder \in Seq(Nat) /\ Len(holder) \in Nat /\ Len(holder) >= 1 /\ holder[1] = 1
      /\ DOMAIN holder = 1 .. Len(holder) /\ \A p \in DOMAIN holder : holder[p] \in Nat
      /\ \A p, q \in DOMAIN holder : p < q /\ holder[p] # 0 /\ holder[q] # 0 => holder[p] <= holder[q]
  BY DEF ManInv, Succession
<1>2. PICK top \in Epochs : \A f \in Epochs : f <= top
  BY DEF ManInv, Succession
<1>4. Epochs \in SUBSET Nat /\ \A p \in DOMAIN holder : holder[p] # 0 => holder[p] \in Epochs
  BY <1>1 DEF Epochs
<1>5. ASSUME ChainGrows PROVE ManInv'
  <2>1. PICK e \in {Last(holder), 0, Newest(Epochs) + 1} : holder' = Append(holder, e)
    BY <1>5 DEF ChainGrows
  <2>2. mans' = mans
    BY <1>5 DEF ChainGrows
  <2>3. PICK big : big = Newest(Epochs) /\ big \in Epochs /\ \A f \in Epochs : f <= big
    BY <1>2 DEF Newest
  <2>4. Last(holder) = holder[Len(holder)] /\ Len(holder) \in DOMAIN holder
    BY <1>1 DEF Last
  <2>5. big \in Nat /\ (e = holder[Len(holder)] \/ e = 0 \/ e = big + 1) /\ e \in Nat
    <3>1. e = holder[Len(holder)] \/ e = 0 \/ e = big + 1
      BY <2>1, <2>3, <2>4
    <3>2. big \in Nat
      BY <1>4, <2>3
    <3> QED BY <1>1, <2>4, <3>1, <3>2
  <2>6. /\ holder' \in Seq(Nat) /\ Len(holder') = Len(holder) + 1
        /\ DOMAIN holder' = 1 .. Len(holder) + 1
        /\ \A p \in DOMAIN holder : holder'[p] = holder[p]
        /\ holder'[Len(holder) + 1] = e
    BY <1>1, <2>1, <2>5
  <2>7. \A p \in DOMAIN holder : holder[p] # 0 /\ e # 0 => holder[p] <= e
    <3> SUFFICES ASSUME NEW p \in DOMAIN holder, holder[p] # 0, e # 0 PROVE holder[p] <= e
      OBVIOUS
    <3>1. CASE e = holder[Len(holder)]
      <4>1. CASE p = Len(holder)
        BY <1>1, <2>4, <3>1, <4>1
      <4>2. CASE p < Len(holder)
        BY <1>1, <2>4, <3>1, <4>2
      <4> QED BY <1>1, <4>1, <4>2
    <3>2. CASE e = big + 1
      <4>1. holder[p] <= big /\ holder[p] \in Nat
        BY <1>1, <1>4, <2>3
      <4> QED BY <2>5, <3>2, <4>1
    <3> QED BY <2>5, <3>1, <3>2
  <2>8. ASSUME NEW p \in DOMAIN holder', NEW q \in DOMAIN holder', p < q, holder'[p] # 0, holder'[q] # 0
        PROVE  holder'[p] <= holder'[q]
    <3>1. p \in DOMAIN holder /\ (q \in DOMAIN holder \/ q = Len(holder) + 1)
      BY <1>1, <2>6, <2>8
    <3>2. CASE q \in DOMAIN holder
      BY <1>1, <2>6, <2>8, <3>1, <3>2
    <3>3. CASE q = Len(holder) + 1
      BY <2>6, <2>7, <2>8, <3>1, <3>3
    <3> QED BY <3>1, <3>2, <3>3
  <2>9. \E x \in Epochs' : \A f \in Epochs' : f <= x
    <3>1. Epochs' = Epochs \cup ({e} \ {0})
      <4>1. {holder'[p] : p \in DOMAIN holder'} = {holder[p] : p \in DOMAIN holder} \cup {e}
        <5>1. DOMAIN holder' = DOMAIN holder \cup {Len(holder) + 1}
          BY <1>1, <2>6
        <5>2. \A p \in DOMAIN holder' : holder'[p] \in {holder[x] : x \in DOMAIN holder} \cup {e}
          BY <2>6, <5>1
        <5>3. \A p \in DOMAIN holder : p \in DOMAIN holder' /\ holder[p] = holder'[p]
          BY <2>6, <5>1
        <5>4. Len(holder) + 1 \in DOMAIN holder' /\ e = holder'[Len(holder) + 1]
          BY <2>6, <5>1
        <5> QED BY <5>2, <5>3, <5>4
      <4> QED BY <4>1 DEF Epochs
    <3>2. CASE e = 0
      BY <1>2, <3>1, <3>2
    <3>3. CASE e # 0 /\ e = holder[Len(holder)]
      <4>1. e \in Epochs
        BY <1>4, <2>4, <3>3
      <4>2. Epochs' = Epochs
        BY <3>1, <4>1
      <4> QED BY <1>2, <4>2
    <3>4. CASE e = big + 1
      <4>1. \A f \in Epochs : f <= e
        BY <1>4, <2>3, <2>5, <3>4
      <4>2. e # 0 /\ e <= e
        BY <2>5, <3>4
      <4> QED BY <3>1, <4>1, <4>2
    <3> QED BY <2>5, <3>2, <3>3, <3>4
  <2>10. Succession'
    <3>1. holder' \in Seq(Nat) /\ Len(holder') >= 1 /\ holder'[1] = 1
      BY <1>1, <2>6
    <3> QED BY <2>8, <2>9, <3>1 DEF Succession
  <2>11. Statements'
    BY <2>2 DEF ManInv, Statements
  <2> QED BY <2>10, <2>11 DEF ManInv
<1>6. ASSUME NEW epoch \in 1 .. MaxPos, Publish(epoch) PROVE ManInv'
  <2>1. PICK pos \in 1 .. MaxPos, num \in 1 .. MaxManSeq :
          mans' = mans \cup {[epoch |-> epoch, manSeq |-> num, watermark |-> pos]}
    BY <1>6 DEF Publish
  <2>2. holder' = holder
    BY <1>6 DEF Publish
  <2>3. IsFiniteSet(mans')
    BY <2>1, FS_AddElement DEF ManInv, Statements
  <2>4. epoch \in Nat \ {0} /\ num \in Nat /\ pos \in Nat
    OBVIOUS
  <2>5. Statements'
    BY <2>1, <2>3, <2>4 DEF ManInv, Statements
  <2>6. Succession'
    BY <2>2 DEF ManInv, Succession, Epochs
  <2> QED BY <2>5, <2>6 DEF ManInv
<1>7. ASSUME UNCHANGED manVars PROVE ManInv'
  BY <1>7 DEF ManInv, Succession, Statements, Epochs, manVars
<1> QED BY <1>5, <1>6, <1>7 DEF NextMan

\* OneLiveSet for any chain and any manifests, whatever their epochs, numbers and watermarks:
\* SelectManifest picks the last valid one of what the bucket lists; readers agree where
\* numbers differ; and behind a valid manifest of a writer that had seen its grant no zombie's
\* is valid.
THEOREM OneLiveSetAlways == ManSpec => []OneLiveSet
<1>1. InitMan => ManInv
  BY ManInitInv
<1>2. ManInv /\ [NextMan]_manVars => ManInv'
  BY ManNextInv
<1>3. ManInv => OneLiveSet
  BY ManifestsLive
<1> QED BY <1>1, <1>2, <1>3, PTL DEF ManSpec

-----------------------------------------------------------------------------
(***************************************************************************)
(* The multipart upload. A part is in one place: read, in flight, or among *)
(* the completed ones, and then with the bucket; if no request failed none *)
(* is missing, so what is completed is the source, whatever the order of   *)
(* the answers.                                                            *)
(***************************************************************************)

\* A part reads as itself; one that is punched out is with the bucket.
PartsOfSource ==
  /\ caller \in {"Upload", "uploadHot", "uploadHotConsume"}
  /\ Size \in Nat /\ DOMAIN source = 1 .. Size /\ next \in 0 .. Size
  /\ \A n \in 1 .. Size :
       \/ source[n] = n
       \/ /\ source[n] = Missing /\ caller = "uploadHotConsume" /\ n <= next
          /\ object = Whole \/ (upload = "open" /\ n \in DOMAIN stored)

\* What the bucket holds is what was sent, and a completed upload is the whole source.
BucketHolds ==
  /\ step \in {"create", "parts", "complete", "abort", "ok", "failed"}
  /\ \A n \in DOMAIN stored : stored[n] = n
  /\ object \in {<<>>, Rival, Whole}
  /\ step = "ok" => object = Whole
  /\ step = "create" => /\ next = 0 /\ held = 0 /\ flying = {} /\ parts = <<>> /\ ~erred
                        /\ DOMAIN stored = {}
  /\ step \in {"parts", "complete"} => upload = "open"
  /\ step = "abort" => caller = "Upload"

\* Upload's parts are each in one place, and none is missing unless a request failed.
PartsGather ==
  caller = "Upload" /\ step = "parts" =>
    /\ held \in 0 .. next /\ flying \in SUBSET (1 .. next) /\ held \notin flying
    /\ parts \in Seq(1 .. next)
    /\ \A i, j \in DOMAIN parts : parts[i] = parts[j] => i = j
    /\ \A i \in DOMAIN parts : parts[i] \in DOMAIN stored /\ parts[i] \notin flying \cup {held}
    /\ ~erred => \A n \in 1 .. next : n \in flying \cup {held} \/ \E i \in DOMAIN parts : parts[i] = n

\* uploadHot's are in order.
PartsInTurn ==
  caller # "Upload" /\ step = "parts" =>
    /\ parts = [i \in 1 .. next |-> i]
    /\ 1 .. next \in SUBSET DOMAIN stored

\* What is completed is everything.
PartsReady == step = "complete" => parts = Whole /\ 1 .. Size \in SUBSET DOMAIN stored

UploadInv == PartsOfSource /\ BucketHolds /\ PartsGather /\ PartsInTurn /\ PartsReady

\* The numbers up to n in rising order are just that.
LEMMA RisingIsCount ==
  ASSUME NEW n \in Nat, NEW s \in SetToSeqs(1 .. n), \A i, j \in DOMAIN s : i < j => s[i] < s[j]
  PROVE  s = [i \in 1 .. n |-> i]
<1>1. IsFiniteSet(1 .. n) /\ Cardinality(1 .. n) = n
  BY IntervalCount
<1>2. DOMAIN s = 1 .. n /\ \A i \in 1 .. n : s[i] \in 1 .. n
  <2>1. DOMAIN s = 1 .. Cardinality(1 .. n) /\ \A i \in DOMAIN s : s[i] \in 1 .. n
    BY <1>1, EnumCovers
  <2> QED BY <1>1, <2>1
<1>3. s = [i \in 1 .. n |-> s[i]]
  <2>1. s \in [1 .. n -> 1 .. n]
    BY <1>1, EnumParts
  <2> QED BY <2>1
<1> DEFINE L == {k \in Nat : k \in 1 .. n => s[k] >= k}
           H == {k \in Nat : k < n => s[n - k] <= n - k}
<1>4. ASSUME NEW k \in Nat, k \in L PROVE k + 1 \in L
  <2>1. CASE k = 0
    BY <1>2, <2>1
  <2>2. CASE k # 0 /\ k + 1 \in 1 .. n
    <3>1. k \in 1 .. n /\ k + 1 \in 1 .. n /\ k < k + 1
      BY <2>2
    <3>2. s[k] >= k
      BY <1>4, <3>1
    <3>3. s[k] \in Int /\ s[k + 1] \in Int
      BY <1>2, <3>1
    <3> HIDE DEF L
    <3>4. s[k] < s[k + 1]
      BY <1>2, <3>1
    <3>5. s[k + 1] >= k + 1
      BY <3>2, <3>3, <3>4
    <3> QED BY <3>5 DEF L
  <2> QED BY <2>1, <2>2
<1>5. ASSUME NEW k \in Nat, k \in H PROVE k + 1 \in H
  <2> SUFFICES ASSUME k + 1 < n PROVE s[n - (k + 1)] <= n - (k + 1)
    OBVIOUS
  <2>1. n - k \in 1 .. n /\ n - (k + 1) \in 1 .. n /\ n - (k + 1) < n - k
    OBVIOUS
  <2>2. s[n - k] <= n - k
    BY <1>5
  <2> HIDE DEF H
  <2>3. s[n - (k + 1)] \in Int /\ s[n - k] \in Int
    BY <1>2, <2>1
  <2>4. s[n - (k + 1)] < s[n - k]
    BY <1>2, <2>1
  <2> QED BY <2>2, <2>3, <2>4
<1>6. 0 \in L /\ 0 \in H
  <2>1. n > 0 => n \in 1 .. n
    OBVIOUS
  <2> QED BY <1>2, <2>1
<1>7. ASSUME NEW i \in 1 .. n PROVE s[i] = i
  <2>1. i \in L
    <3> HIDE DEF L
    <3> QED BY <1>4, <1>6, NatRise
  <2>2. n - i \in H
    <3>1. n - i \in Nat
      OBVIOUS
    <3> HIDE DEF H
    <3> QED BY <1>5, <1>6, <3>1, NatRise
  <2>3. n - i < n /\ n - (n - i) = i
    OBVIOUS
  <2>4. s[i] <= i /\ s[i] >= i
    BY <2>1, <2>2, <2>3
  <2> QED BY <1>2, <2>4
<1> QED BY <1>3, <1>7

\* Sorted by number, a whole set of parts is the source.
LEMMA ByNumberIs ==
  ASSUME NEW n \in Nat, NEW list, ToSet(list) = 1 .. n
  PROVE  ByNumber(list) = [i \in 1 .. n |-> i]
<1> DEFINE R == {x \in (1 .. n) \X (1 .. n) : x[1] < x[2]}
<1>1. Orders(R, 1 .. n)
  <2>1. \A x, y \in 1 .. n : <<x, y>> \in R <=> x < y
    OBVIOUS
  <2> HIDE DEF R
  <2> QED BY <2>1 DEF Orders
<1>2. IsFiniteSet(1 .. n)
  BY IntervalCount
<1>3. PICK f \in SetToSeqs(1 .. n) : Ascending(f, R)
  <2> HIDE DEF R
  <2> QED BY <1>1, <1>2, SortExists
<1>4. \A i, j \in DOMAIN f : i < j => f[i] < f[j]
  BY <1>3 DEF Ascending
<1> DEFINE s == ByNumber(list)
<1>5. s \in SetToSeqs(1 .. n) /\ \A i, j \in DOMAIN s : i < j => s[i] < s[j]
  BY <1>3, <1>4 DEF ByNumber
<1> HIDE DEF s
<1> QED BY <1>5, RisingIsCount DEF s

\* Keeping a part leaves the others.
LEMMA StoredParts ==
  ASSUME NEW n, \A k \in DOMAIN stored : stored[k] = k
  PROVE  /\ DOMAIN KeepPart(n, n) = DOMAIN stored \cup {n}
         /\ \A k \in DOMAIN KeepPart(n, n) : KeepPart(n, n)[k] = k
BY DEF KeepPart

\* Nothing is sent before the upload is created.
LEMMA UploadInitInv == InitUpload => UploadInv
<1> SUFFICES ASSUME InitUpload PROVE UploadInv
  OBVIOUS
<1>1. PICK n \in 0 .. MaxParts : source = [i \in 1 .. n |-> i]
  BY DEF InitUpload
<1>2. n \in Nat /\ Len(source) = n
  BY <1>1, UploadAssumption
<1>3. PartsOfSource
  BY <1>1, <1>2 DEF InitUpload, PartsOfSource, Size
<1>4. BucketHolds
  BY DEF InitUpload, BucketHolds
<1>5. PartsGather /\ PartsInTurn /\ PartsReady
  BY DEF InitUpload, PartsGather, PartsInTurn, PartsReady
<1> QED BY <1>3, <1>4, <1>5 DEF UploadInv

\* Creating the upload.
LEMMA CreateKeeps == UploadInv /\ MultipartCreate => UploadInv'
<1> SUFFICES ASSUME UploadInv, MultipartCreate PROVE UploadInv'
  OBVIOUS
<1>1. /\ step = "create" /\ UNCHANGED <<caller, exclusive, source, next, held, flying, parts, erred, stored, object>>
      /\ (step' = "parts" /\ upload' = "open") \/ step' = "failed"
  BY DEF MultipartCreate, clientVars
<1>2. /\ next = 0 /\ held = 0 /\ flying = {} /\ parts = <<>> /\ DOMAIN stored = {}
  BY <1>1 DEF UploadInv, BucketHolds
<1>3. \A n \in 1 .. Size : source[n] = n
  BY <1>2 DEF UploadInv, PartsOfSource
<1>4. PartsOfSource'
  BY <1>1, <1>3 DEF UploadInv, PartsOfSource, Size
<1>5. BucketHolds'
  BY <1>1 DEF UploadInv, BucketHolds, Whole, Size
<1>6. PartsGather'
  BY <1>1, <1>2 DEF PartsGather
<1>7. PartsInTurn'
  BY <1>1, <1>2 DEF PartsInTurn
<1>8. PartsReady'
  BY <1>1 DEF PartsReady
<1> QED BY <1>4, <1>5, <1>6, <1>7, <1>8 DEF UploadInv

\* A step of Upload's goroutines keeps the rest.
LEMMA StreamingKeeps ==
  ASSUME UploadInv, caller = "Upload", step = "parts", step' = "parts", UNCHANGED <<caller, source, upload, object>>,
         next' \in next .. Size, \A n \in DOMAIN stored' : stored'[n] = n
  PROVE  PartsOfSource' /\ BucketHolds' /\ PartsInTurn' /\ PartsReady'
<1>1. PartsOfSource'
  <2>1. \A n \in 1 .. Size : source[n] = n
    BY DEF UploadInv, PartsOfSource
  <2> QED BY <2>1 DEF UploadInv, PartsOfSource, Size
<1>2. BucketHolds'
  BY DEF UploadInv, BucketHolds, Whole, Size
<1>3. PartsInTurn' /\ PartsReady'
  BY DEF PartsInTurn, PartsReady
<1> QED BY <1>1, <1>2, <1>3

\* The producer, its semaphore and a reader that fails.
LEMMA ProducerKeeps ==
  UploadInv /\ (Produce \/ Launch \/ GiveUp \/ SourceFails) => UploadInv'
<1> SUFFICES ASSUME UploadInv, Produce \/ Launch \/ GiveUp \/ SourceFails PROVE UploadInv'
  OBVIOUS
<1>1. /\ caller = "Upload" /\ step = "parts" /\ step' = "parts"
      /\ UNCHANGED <<caller, source, upload, object, stored, parts>>
  BY DEF Produce, Launch, GiveUp, SourceFails, Producing, Starting, Canceled, Streaming, bucketVars
<1>2. Size \in Nat /\ next \in 0 .. Size /\ \A n \in DOMAIN stored : stored[n] = n
  BY DEF UploadInv, PartsOfSource, BucketHolds
<1>3. next' \in next .. Size
  BY <1>2 DEF Produce, Launch, GiveUp, SourceFails, Producing
<1>4. PartsOfSource' /\ BucketHolds' /\ PartsInTurn' /\ PartsReady'
  BY <1>1, <1>2, <1>3, StreamingKeeps
<1>5. /\ held \in 0 .. next /\ flying \in SUBSET (1 .. next) /\ held \notin flying
      /\ parts \in Seq(1 .. next)
      /\ \A i, j \in DOMAIN parts : parts[i] = parts[j] => i = j
      /\ \A i \in DOMAIN parts : parts[i] \in DOMAIN stored /\ parts[i] \notin flying \cup {held}
      /\ ~erred => \A n \in 1 .. next : n \in flying \cup {held} \/ \E i \in DOMAIN parts : parts[i] = n
  BY <1>1 DEF UploadInv, PartsGather
<1>6. parts' = parts /\ parts \in Seq(1 .. next') /\ 1 .. next \in SUBSET (1 .. next')
  <2>1. 1 .. next \in SUBSET (1 .. next')
    BY <1>2, <1>3
  <2>2. parts \in Seq(1 .. next')
    BY <1>5, <2>1, SeqWider
  <2> QED BY <1>1, <2>1, <2>2
<1>7. \A i \in DOMAIN parts : parts[i] \in 1 .. next
  BY <1>5, SeqWider
<1>8. CASE Produce
  <2>1. held = 0 /\ next' = next + 1 /\ held' = next' /\ flying' = flying /\ erred' = erred
    BY <1>8 DEF Produce, Producing
  <2>2. held' \notin 1 .. next /\ held' \in 0 .. next'
    BY <1>2, <2>1
  <2>3. \A i \in DOMAIN parts : parts[i] \in DOMAIN stored /\ parts[i] \notin flying \cup {held'}
    BY <1>5, <1>7, <2>2
  <2>4. ~erred => \A n \in 1 .. next' : n \in flying \cup {held'} \/ \E i \in DOMAIN parts : parts[i] = n
    <3>1. \A n \in 1 .. next' : n = held' \/ (n \in 1 .. next /\ n # held)
      BY <1>2, <2>1
    <3> QED BY <1>5, <3>1
  <2>5. flying' \in SUBSET (1 .. next') /\ held' \notin flying'
    BY <1>5, <1>6, <2>1, <2>2
  <2> QED BY <1>1, <1>4, <1>5, <1>6, <2>1, <2>2, <2>3, <2>4, <2>5 DEF UploadInv, PartsGather
<1>9. CASE Launch
  <2>1. flying' = flying \cup {held} /\ held' = 0 /\ held # 0 /\ next' = next /\ erred' = erred
    BY <1>9 DEF Launch, Starting
  <2>2. held \in 1 .. next
    BY <1>2, <1>5, <2>1
  <2>3. flying' \in SUBSET (1 .. next) /\ held' \notin flying' /\ held' \in 0 .. next
    BY <1>2, <1>5, <2>1, <2>2
  <2>4. \A i \in DOMAIN parts : parts[i] \in DOMAIN stored /\ parts[i] \notin flying' \cup {held'}
    BY <1>5, <1>7, <2>1
  <2>5. ~erred => \A n \in 1 .. next : n \in flying' \cup {held'} \/ \E i \in DOMAIN parts : parts[i] = n
    BY <1>5, <2>1
  <2> QED BY <1>1, <1>4, <1>5, <1>6, <2>1, <2>3, <2>4, <2>5 DEF UploadInv, PartsGather
<1>10. CASE GiveUp
  <2>1. flying' = flying /\ held' = 0 /\ erred /\ erred' = erred
    BY <1>10 DEF GiveUp, Canceled
  <2>2. flying' \in SUBSET (1 .. next') /\ held' \notin flying' /\ held' \in 0 .. next'
    BY <1>2, <1>3, <1>5, <1>6, <2>1
  <2>3. \A i \in DOMAIN parts : parts[i] \in DOMAIN stored /\ parts[i] \notin flying' \cup {held'}
    BY <1>5, <1>7, <2>1
  <2> QED BY <1>1, <1>4, <1>5, <1>6, <2>1, <2>2, <2>3 DEF UploadInv, PartsGather
<1>11. CASE SourceFails
  <2>1. flying' = flying /\ held' = held /\ held = 0 /\ erred' = TRUE
    BY <1>11 DEF SourceFails, Producing
  <2>2. flying' \in SUBSET (1 .. next') /\ held' \notin flying' /\ held' \in 0 .. next'
    BY <1>2, <1>3, <1>5, <1>6, <2>1
  <2> QED BY <1>1, <1>4, <1>5, <1>6, <2>1, <2>2 DEF UploadInv, PartsGather
<1> QED BY <1>8, <1>9, <1>10, <1>11

\* A part's answer, in whatever order they come.
LEMMA PartPutKeeps == \A n : UploadInv /\ PartPut(n) => UploadInv'
<1> SUFFICES ASSUME UploadInv, NEW n, PartPut(n) PROVE UploadInv'
  OBVIOUS
<1>1. /\ caller = "Upload" /\ step = "parts" /\ step' = "parts"
      /\ UNCHANGED <<caller, source, upload, object, next, held>>
      /\ n \in flying /\ flying' = flying \ {n}
      /\ \/ stored' = KeepPart(n, source[n]) /\ parts' = Append(parts, n) /\ erred' = erred
         \/ erred' = TRUE /\ stored' \in {stored, KeepPart(n, source[n])} /\ parts' = parts
  BY DEF PartPut, Streaming
<1>2. Size \in Nat /\ next \in 0 .. Size /\ \A k \in DOMAIN stored : stored[k] = k
  BY DEF UploadInv, PartsOfSource, BucketHolds
<1>3. /\ held \in 0 .. next /\ flying \in SUBSET (1 .. next) /\ held \notin flying
      /\ parts \in Seq(1 .. next)
      /\ \A i, j \in DOMAIN parts : parts[i] = parts[j] => i = j
      /\ \A i \in DOMAIN parts : parts[i] \in DOMAIN stored /\ parts[i] \notin flying \cup {held}
      /\ ~erred => \A k \in 1 .. next : k \in flying \cup {held} \/ \E i \in DOMAIN parts : parts[i] = k
  BY <1>1 DEF UploadInv, PartsGather
<1>4. n \in 1 .. next /\ source[n] = n
  BY <1>1, <1>2, <1>3 DEF UploadInv, PartsOfSource
<1>5. /\ \A k \in DOMAIN stored' : stored'[k] = k
      /\ DOMAIN stored \in SUBSET DOMAIN stored'
      /\ stored' = KeepPart(n, n) => n \in DOMAIN stored'
  <2>1. /\ DOMAIN KeepPart(n, n) = DOMAIN stored \cup {n}
        /\ \A k \in DOMAIN KeepPart(n, n) : KeepPart(n, n)[k] = k
    BY <1>2, StoredParts
  <2>2. stored' = stored \/ stored' = KeepPart(n, n)
    BY <1>1, <1>4
  <2> QED BY <1>2, <2>1, <2>2
<1>6. next' \in next .. Size
  BY <1>1, <1>2
<1>7. PartsOfSource' /\ BucketHolds' /\ PartsInTurn' /\ PartsReady'
  BY <1>1, <1>5, <1>6, StreamingKeeps
<1>8. flying' \in SUBSET (1 .. next) /\ held \notin flying'
  BY <1>1, <1>3
<1>9. CASE stored' = KeepPart(n, source[n]) /\ parts' = Append(parts, n) /\ erred' = erred
  <2>1. /\ parts' \in Seq(1 .. next) /\ DOMAIN parts' = DOMAIN parts \cup {Len(parts) + 1}
        /\ Len(parts) + 1 \notin DOMAIN parts /\ parts'[Len(parts) + 1] = n
        /\ \A i \in DOMAIN parts : parts'[i] = parts[i]
    BY <1>3, <1>4, <1>9
  <2>2. \A i \in DOMAIN parts : parts[i] # n
    BY <1>1, <1>3
  <2>3. \A i, j \in DOMAIN parts' : parts'[i] = parts'[j] => i = j
    BY <1>3, <2>1, <2>2
  <2>4. \A i \in DOMAIN parts' : parts'[i] \in DOMAIN stored' /\ parts'[i] \notin flying' \cup {held}
    <3>1. n \in DOMAIN stored' /\ n \notin flying' \cup {held}
      BY <1>1, <1>3, <1>4, <1>5, <1>9
    <3>2. \A i \in DOMAIN parts : parts[i] \in DOMAIN stored' /\ parts[i] \notin flying' \cup {held}
      BY <1>1, <1>3, <1>5
    <3> QED BY <2>1, <3>1, <3>2
  <2>5. ASSUME ~erred', NEW k \in 1 .. next PROVE k \in flying' \cup {held} \/ \E i \in DOMAIN parts' : parts'[i] = k
    <3>1. CASE k = n
      BY <2>1, <3>1
    <3>2. CASE k # n
      <4>1. k \in flying \cup {held} \/ \E i \in DOMAIN parts : parts[i] = k
        BY <1>3, <1>9, <2>5
      <4> QED BY <1>1, <2>1, <3>2, <4>1
    <3> QED BY <3>1, <3>2
  <2> QED BY <1>1, <1>3, <1>7, <1>8, <2>1, <2>3, <2>4, <2>5 DEF UploadInv, PartsGather
<1>10. CASE erred' = TRUE /\ stored' \in {stored, KeepPart(n, source[n])} /\ parts' = parts
  <2>1. \A i \in DOMAIN parts : parts[i] \in DOMAIN stored' /\ parts[i] \notin flying' \cup {held}
    BY <1>1, <1>3, <1>5
  <2> QED BY <1>1, <1>3, <1>7, <1>8, <1>10, <2>1 DEF UploadInv, PartsGather
<1> QED BY <1>1, <1>9, <1>10

\* When every part is accounted for, an upload without an error has them all.
LEMMA CollectedKeeps == UploadInv /\ Collected => UploadInv'
<1> SUFFICES ASSUME UploadInv, Collected PROVE UploadInv'
  OBVIOUS
<1>1. /\ caller = "Upload" /\ step = "parts" /\ held = 0 /\ flying = {} /\ next = Size
      /\ step' = (IF erred \/ parts = <<>> THEN "abort" ELSE "complete")
      /\ parts' = ByNumber(parts)
      /\ UNCHANGED <<caller, source, next, held, flying, erred, upload, stored, object>>
  BY DEF Collected, Drained, Streaming, bucketVars
<1>2. PartsOfSource'
  BY <1>1 DEF UploadInv, PartsOfSource, Whole, Size
<1>3. BucketHolds'
  BY <1>1 DEF UploadInv, BucketHolds, Whole, Size
<1>4. step' # "parts"
  BY <1>1
<1>5. PartsReady'
  <2> SUFFICES ASSUME step' = "complete" PROVE parts' = Whole' /\ 1 .. Size' \in SUBSET DOMAIN stored'
    BY DEF PartsReady
  <2>1. ~erred
    BY <1>1
  <2>2. /\ parts \in Seq(1 .. Size) /\ Size \in Nat
        /\ \A i \in DOMAIN parts : parts[i] \in DOMAIN stored
        /\ \A n \in 1 .. Size : \E i \in DOMAIN parts : parts[i] = n
    <3>1. /\ parts \in Seq(1 .. next)
          /\ \A i \in DOMAIN parts : parts[i] \in DOMAIN stored
          /\ \A n \in 1 .. next : n \in flying \cup {held} \/ \E i \in DOMAIN parts : parts[i] = n
      BY <1>1, <2>1 DEF UploadInv, PartsGather
    <3>2. Size \in Nat
      BY DEF UploadInv, PartsOfSource
    <3>3. \A n \in 1 .. next : n \notin flying \cup {held}
      BY <1>1, <3>2
    <3> QED BY <1>1, <3>1, <3>2, <3>3
  <2>3. ToSet(parts) = 1 .. Size
    <3>1. \A i \in DOMAIN parts : parts[i] \in 1 .. Size
      BY <2>2
    <3> QED BY <2>2, <3>1 DEF ToSet
  <2>4. parts' = Whole
    BY <1>1, <2>2, <2>3, ByNumberIs DEF Whole
  <2>5. 1 .. Size \in SUBSET DOMAIN stored
    BY <2>2
  <2> QED BY <1>1, <2>4, <2>5 DEF Whole, Size
<1> QED BY <1>2, <1>3, <1>4, <1>5 DEF UploadInv, PartsGather, PartsInTurn

\* A part of a shard file, which is there while it is sent.
LEMMA HotPartKeeps == UploadInv /\ HotPart => UploadInv'
<1> SUFFICES ASSUME UploadInv, HotPart PROVE UploadInv'
  OBVIOUS
<1> DEFINE n == next + 1
<1>1. /\ caller # "Upload" /\ step = "parts" /\ next < Size
      /\ \/ /\ stored' = KeepPart(n, source[n]) /\ parts' = Append(parts, n) /\ next' = n /\ step' = step
            /\ source' = source \/ (caller = "uploadHotConsume" /\ source' = [source EXCEPT ![n] = Missing])
         \/ /\ step' = "failed" /\ stored' \in {stored, KeepPart(n, source[n])}
            /\ UNCHANGED <<source, next, parts>>
      /\ UNCHANGED <<caller, held, flying, erred, upload, object>>
  BY DEF HotPart, Sending
<1>2. /\ Size \in Nat /\ DOMAIN source = 1 .. Size /\ next \in 0 .. Size
      /\ \A k \in DOMAIN stored : stored[k] = k
  BY DEF UploadInv, PartsOfSource, BucketHolds
<1>3. n \in 1 .. Size /\ source[n] = n
  <2>1. n \in 1 .. Size /\ ~(n <= next)
    BY <1>1, <1>2
  <2> QED BY <2>1 DEF UploadInv, PartsOfSource
<1>4. parts = [i \in 1 .. next |-> i] /\ 1 .. next \in SUBSET DOMAIN stored /\ upload = "open"
  BY <1>1 DEF UploadInv, PartsInTurn, BucketHolds
<1>5. /\ \A k \in DOMAIN stored' : stored'[k] = k
      /\ DOMAIN stored \in SUBSET DOMAIN stored'
      /\ stored' = KeepPart(n, n) => n \in DOMAIN stored'
  <2>1. stored' = stored \/ stored' = KeepPart(n, n)
    BY <1>1, <1>3
  <2> HIDE DEF n
  <2>2. /\ DOMAIN KeepPart(n, n) = DOMAIN stored \cup {n}
        /\ \A k \in DOMAIN KeepPart(n, n) : KeepPart(n, n)[k] = k
    BY <1>2, StoredParts
  <2> QED BY <1>2, <2>1, <2>2
<1>6. Size' = Size /\ DOMAIN source' = DOMAIN source
  BY <1>1, <1>2 DEF Size
<1>7. Whole' = Whole
  BY <1>6 DEF Whole
<1>8. BucketHolds'
  BY <1>1, <1>5, <1>7 DEF UploadInv, BucketHolds
<1>9. PartsGather' /\ PartsReady'
  BY <1>1 DEF PartsGather, PartsReady
<1>10. CASE next' = n
  <2>1. stored' = KeepPart(n, n) /\ parts' = Append(parts, n)
    BY <1>1, <1>2, <1>3, <1>10
  <2>2. parts' = [i \in 1 .. next' |-> i]
    BY <1>2, <1>4, <1>10, <2>1
  <2>3. 1 .. next' \in SUBSET DOMAIN stored'
    <3>1. \A i \in 1 .. next' : i \in 1 .. next \/ i = n
      BY <1>2, <1>10
    <3> QED BY <1>4, <1>5, <2>1, <3>1
  <2>4. PartsInTurn'
    BY <2>2, <2>3 DEF PartsInTurn
  <2>5. ASSUME NEW k \in 1 .. Size
        PROVE  \/ source'[k] = k
               \/ /\ source'[k] = Missing /\ caller' = "uploadHotConsume" /\ k <= next'
                  /\ object' = Whole' \/ (upload' = "open" /\ k \in DOMAIN stored')
    <3>1. CASE source'[k] = source[k]
      <4>1. source[k] = k \/ (source[k] = Missing /\ caller = "uploadHotConsume" /\ k <= next)
        BY DEF UploadInv, PartsOfSource
      <4>2. source[k] = Missing => k \in 1 .. next \/ k = Missing
        BY <1>2, <4>1
      <4>3. k # Missing
        BY DEF Missing
      <4> QED BY <1>1, <1>2, <1>4, <1>5, <1>10, <3>1, <4>1, <4>2, <4>3
    <3>2. CASE source'[k] # source[k]
      <4>1. caller = "uploadHotConsume" /\ source' = [source EXCEPT ![n] = Missing]
        BY <1>1, <1>2, <1>10, <3>2
      <4>2. k = n /\ source'[k] = Missing
        BY <1>2, <3>2, <4>1
      <4> QED BY <1>1, <1>2, <1>4, <1>5, <1>10, <2>1, <4>1, <4>2
    <3> QED BY <3>1, <3>2
  <2>6. next' \in 0 .. Size
    BY <1>1, <1>2, <1>10
  <2>7. PartsOfSource'
    BY <1>1, <1>2, <1>6, <2>5, <2>6 DEF UploadInv, PartsOfSource
  <2> QED BY <1>8, <1>9, <2>4, <2>7 DEF UploadInv
<1>11. CASE step' = "failed" /\ UNCHANGED <<source, next, parts>>
  <2>1. PartsOfSource'
    BY <1>1, <1>5, <1>6, <1>7, <1>11 DEF UploadInv, PartsOfSource
  <2>2. PartsInTurn'
    BY <1>11 DEF PartsInTurn
  <2> QED BY <1>8, <1>9, <2>1, <2>2 DEF UploadInv
<1> QED BY <1>1, <1>10, <1>11

\* The end of a shard file.
LEMMA HotEndKeeps == UploadInv /\ HotEnd => UploadInv'
<1> SUFFICES ASSUME UploadInv, HotEnd PROVE UploadInv'
  OBVIOUS
<1>1. /\ caller # "Upload" /\ step = "parts" /\ next = Size
      /\ step' \in {"failed", "complete"}
      /\ UNCHANGED <<caller, source, next, held, flying, parts, erred, upload, stored, object>>
  BY DEF HotEnd, Sent, clientVars, bucketVars
<1>2. PartsOfSource'
  BY <1>1 DEF UploadInv, PartsOfSource, Whole, Size
<1>3. BucketHolds'
  BY <1>1 DEF UploadInv, BucketHolds, Whole, Size
<1>4. PartsReady'
  BY <1>1 DEF UploadInv, PartsInTurn, PartsReady, Whole, Size
<1>5. PartsGather' /\ PartsInTurn'
  BY <1>1 DEF PartsGather, PartsInTurn
<1> QED BY <1>2, <1>3, <1>4, <1>5 DEF UploadInv

\* Completing publishes the whole source or nothing.
LEMMA CompleteKeeps == UploadInv /\ MultipartComplete => UploadInv'
<1> SUFFICES ASSUME UploadInv, MultipartComplete PROVE UploadInv'
  OBVIOUS
<1>1. /\ step = "complete" /\ UNCHANGED <<caller, source, next, held, flying, parts, erred>>
      /\ \/ Published(parts) /\ step' \in {"ok", "abort", "failed"}
         \/ UNCHANGED bucketVars /\ step' \in {"abort", "failed"}
      /\ step' = "abort" => caller = "Upload"
  BY DEF MultipartComplete, clientVars
<1>2. Size' = Size /\ Whole' = Whole
  BY <1>1 DEF Size, Whole
<1>3. PartsGather' /\ PartsInTurn' /\ PartsReady'
  BY <1>1 DEF PartsGather, PartsInTurn, PartsReady
<1>4. CASE Published(parts) /\ step' \in {"ok", "abort", "failed"}
  <2>1. parts = Whole /\ 1 .. Size \in SUBSET DOMAIN stored /\ \A k \in DOMAIN stored : stored[k] = k
    BY <1>1 DEF UploadInv, PartsReady, BucketHolds
  <2>2. object' = [i \in DOMAIN parts |-> stored[parts[i]]] /\ stored' = <<>>
    BY <1>4 DEF Published
  <2>3. DOMAIN parts = 1 .. Size /\ \A i \in 1 .. Size : parts[i] = i /\ stored[parts[i]] = i
    BY <2>1 DEF Whole
  <2>4. object' = Whole
    BY <2>2, <2>3 DEF Whole
  <2>5. PartsOfSource'
    BY <1>1, <1>2, <2>4 DEF UploadInv, PartsOfSource
  <2>6. BucketHolds'
    BY <1>1, <1>2, <1>4, <2>2, <2>4 DEF UploadInv, BucketHolds
  <2> QED BY <1>3, <2>5, <2>6 DEF UploadInv
<1>5. CASE UNCHANGED bucketVars /\ step' \in {"abort", "failed"}
  <2>1. PartsOfSource'
    BY <1>1, <1>2, <1>5 DEF UploadInv, PartsOfSource, bucketVars
  <2>2. BucketHolds'
    BY <1>1, <1>2, <1>5 DEF UploadInv, BucketHolds, bucketVars
  <2> QED BY <1>3, <2>1, <2>2 DEF UploadInv
<1> QED BY <1>1, <1>4, <1>5

\* Only Upload aborts, and it punches nothing out.
LEMMA AbortKeeps == UploadInv /\ MultipartAbort => UploadInv'
<1> SUFFICES ASSUME UploadInv, MultipartAbort PROVE UploadInv'
  OBVIOUS
<1>1. /\ step = "abort" /\ step' = "failed" /\ stored' \in {stored, <<>>}
      /\ UNCHANGED <<caller, source, next, held, flying, parts, erred, object>>
  BY DEF MultipartAbort, clientVars
<1>2. Size' = Size /\ Whole' = Whole
  BY <1>1 DEF Size, Whole
<1>3. \A n \in 1 .. Size : source[n] = n
  BY <1>1 DEF UploadInv, PartsOfSource, BucketHolds
<1>4. PartsOfSource'
  BY <1>1, <1>2, <1>3 DEF UploadInv, PartsOfSource
<1>5. BucketHolds'
  BY <1>1, <1>2 DEF UploadInv, BucketHolds
<1>6. PartsGather' /\ PartsInTurn' /\ PartsReady'
  BY <1>1 DEF PartsGather, PartsInTurn, PartsReady
<1> QED BY <1>4, <1>5, <1>6 DEF UploadInv

\* Every step keeps the invariant.
LEMMA UploadNextInv == UploadInv /\ [UploadNext]_uploadVars => UploadInv'
<1> SUFFICES ASSUME UploadInv, [UploadNext]_uploadVars PROVE UploadInv'
  OBVIOUS
<1>1. ASSUME UNCHANGED uploadVars PROVE UploadInv'
  BY <1>1 DEF uploadVars, UploadInv, PartsOfSource, BucketHolds, PartsGather, PartsInTurn, PartsReady, Whole, Size
<1> QED BY <1>1, CreateKeeps, ProducerKeeps, PartPutKeeps, CollectedKeeps, HotPartKeeps, HotEndKeeps,
           CompleteKeeps, AbortKeeps DEF UploadNext, ClientStep

\* Until it has ended, some step of the client has what it waits for.
LEMMA ClientCanStep == UploadInv => step \in {"ok", "failed"} \/ CanStep
<1> SUFFICES ASSUME UploadInv, step \notin {"ok", "failed", "create", "complete", "abort"} PROVE CanStep
  BY DEF CanStep
<1>1. step = "parts" /\ Size \in Nat /\ next \in 0 .. Size
  BY DEF UploadInv, PartsOfSource, BucketHolds
<1>2. CASE caller = "Upload"
  <2>1. CASE held # 0
    <3>1. CASE flying = {}
      <4>1. Cardinality(flying) = 0
        BY <3>1, FS_EmptySet
      <4> QED BY <1>1, <1>2, <2>1, <4>1, UploadAssumption DEF CanStep, Starting, Streaming
    <3> QED BY <1>1, <1>2, <3>1 DEF CanStep, Streaming
  <2>2. CASE held = 0
    BY <1>1, <1>2, <2>2 DEF CanStep, Producing, Drained, Streaming
  <2> QED BY <2>1, <2>2
<1>3. CASE caller # "Upload"
  BY <1>1, <1>3 DEF CanStep, Sending, Sent
<1> QED BY <1>2, <1>3

\* UploadIsWhole for sources of any length, any concurrency and any failures: what appears
\* under the key is every part in its place, in whichever order their answers came; a part
\* that uploadHot has punched out of its file is with the bucket; and no upload waits for
\* itself.
THEOREM UploadIsWholeAlways == UploadSpec => []UploadIsWhole
<1>1. InitUpload => UploadInv
  BY UploadInitInv
<1>2. UploadInv /\ [UploadNext]_uploadVars => UploadInv'
  BY UploadNextInv
<1>3. UploadInv => UploadIsWhole
  <2> SUFFICES ASSUME UploadInv PROVE UploadIsWhole
    OBVIOUS
  <2>1. \A n \in 1 .. Size : source[n] = Missing => object = Whole \/ (upload = "open" /\ n \in DOMAIN stored)
    <3>1. \A n \in 1 .. Size : n # Missing
      BY DEF UploadInv, PartsOfSource, Missing
    <3> QED BY <3>1 DEF UploadInv, PartsOfSource
  <2>2. ObjectIsWhole
    BY <2>1 DEF UploadInv, BucketHolds, ObjectIsWhole
  <2> QED BY <2>2, ClientCanStep DEF UploadIsWhole
<1> QED BY <1>1, <1>2, <1>3, PTL DEF UploadSpec

-----------------------------------------------------------------------------
(***************************************************************************)
(* The read planner. A buffer is in one place, and what its completion     *)
(* says of it is true; the reads in flight are those in the channels and   *)
(* with the workers, and never more than a channel holds, so neither the   *)
(* query nor a worker can be stuck with something under way.               *)
(***************************************************************************)

Asked == 1 .. issued

\* A completion tells of a block that was asked for what became of it.
Tells(c, tags, bufs) ==
  /\ c.tag \in tags /\ (c.err <=> c.tag \in Large \cup Broken)
  /\ c.buf = 0 \/ c.buf \in DOMAIN bufs
  /\ ~c.err => c.buf # 0 /\ bufs[c.buf] = c.tag

\* What the channels, the workers, the query and the pool hold is what it should be.
PlannerKinds ==
  /\ issued \in Nat /\ inflight \in Nat /\ IsSeq(batch) /\ IsSeq(reqCh) /\ IsSeq(outCh) /\ IsSeq(buffers)
  /\ \A i \in DOMAIN batch : batch[i] \in Asked
  /\ \A i \in DOMAIN reqCh : reqCh[i] \in Asked \ Large
  /\ \A i \in DOMAIN outCh : Tells(outCh[i], Asked, buffers)
  /\ \A c \in holding : Tells(c, Asked, buffers)
  /\ pool \in SUBSET DOMAIN buffers
  /\ DOMAIN busy = Worker
  /\ \A w \in Worker : \/ busy[w] \in {Idle, Gone}
                       \/ busy[w].tag \in Asked \ Large /\ busy[w].buf \in DOMAIN buffers
  /\ \A t \in DOMAIN answers : t \in Asked /\ answers[t] = IF t \in Large \cup Broken THEN 0 ELSE t

\* No two of them hold the same buffer.
OnePlace ==
  /\ \A v, w \in Worker : v # w /\ busy[v].buf # 0 => busy[v].buf # busy[w].buf
  /\ \A i, j \in DOMAIN outCh : i # j /\ outCh[i].buf # 0 => outCh[i].buf # outCh[j].buf
  /\ \A w \in Worker, i \in DOMAIN outCh : busy[w].buf # 0 => busy[w].buf # outCh[i].buf
  /\ \A w \in Worker, c \in holding : busy[w].buf # 0 => busy[w].buf # c.buf
  /\ \A i \in DOMAIN outCh, c \in holding : outCh[i].buf # 0 => outCh[i].buf # c.buf
  /\ \A c, d \in holding : c # d /\ c.buf # 0 => c.buf # d.buf
  /\ \A b \in pool : /\ \A w \in Worker : busy[w].buf # b
                     /\ \A i \in DOMAIN outCh : outCh[i].buf # b
                     /\ \A c \in holding : c.buf # b

\* No block that was asked for is lost.
Somewhere(t) ==
  \/ t \in DOMAIN answers
  \/ \E i \in DOMAIN batch : batch[i] = t
  \/ \E i \in DOMAIN reqCh : reqCh[i] = t
  \/ \E w \in Worker : busy[w].tag = t
  \/ \E i \in DOMAIN outCh : outCh[i].tag = t
  \/ \E c \in holding : c.tag = t

\* The count of reads in flight, and the bound on it.
Engaged == {w \in Worker : busy[w].tag > 0}

Counted ==
  /\ inflight = Len(reqCh) + Len(outCh) + Cardinality(Engaged)
  /\ Outstanding <= MaxOutstanding

\* A planner is closed when nothing is under way, and workers leave after that.
ClosedLate ==
  /\ closed \in BOOLEAN
  /\ closed => batch = <<>> /\ inflight = 0 /\ holding = {}
  /\ ~closed => \A w \in Worker : busy[w] # Gone

PlannerInv == PlannerKinds /\ OnePlace /\ (\A t \in Asked : Somewhere(t)) /\ Counted /\ ClosedLate

\* Workers are few, so those that read can be counted.
LEMMA EngagedCount ==
  /\ IsFiniteSet(Worker) /\ IsFiniteSet(Engaged) /\ Cardinality(Engaged) \in Nat
  /\ \A S \in SUBSET Worker : IsFiniteSet(S) /\ Cardinality(S) \in Nat
<1>1. IsFiniteSet(Worker)
  BY PlannerAssumption, IntervalCount DEF Worker
<1>2. \A S \in SUBSET Worker : IsFiniteSet(S) /\ Cardinality(S) \in Nat
  BY <1>1, FS_Subset, FS_CardinalityType
<1>3. Engaged \in SUBSET Worker
  BY DEF Engaged
<1> QED BY <1>1, <1>2, <1>3

\* Nothing has been asked for.
LEMMA PlannerInitInv == PlannerIdle => PlannerInv
<1> SUFFICES ASSUME PlannerIdle PROVE PlannerInv
  OBVIOUS
<1>1. /\ batch = <<>> /\ issued = 0 /\ reqCh = <<>> /\ busy = [w \in Worker |-> Idle] /\ outCh = <<>>
      /\ inflight = 0 /\ holding = {} /\ answers = <<>> /\ buffers = <<>> /\ pool = {} /\ closed = FALSE
  BY DEF PlannerIdle
<1>2. IsSeq(<<>>) /\ Len(<<>>) = 0 /\ DOMAIN <<>> = {}
  BY DEF IsSeq
<1>3. \A w \in Worker : busy[w] = Idle /\ busy[w].tag = 0 /\ busy[w].buf = 0 /\ busy[w] # Gone
  BY <1>1 DEF Idle, Gone
<1>4. PlannerKinds
  BY <1>1, <1>2, <1>3 DEF PlannerKinds
<1>5. OnePlace
  BY <1>1, <1>2, <1>3 DEF OnePlace
<1>6. \A t \in Asked : FALSE
  BY <1>1 DEF Asked
<1>7. Counted
  <2>1. Engaged = {}
    BY <1>3 DEF Engaged
  <2>2. Cardinality(Engaged) = 0
    BY <2>1, FS_EmptySet
  <2> QED BY <1>1, <1>2, <2>2, PlannerAssumption DEF Counted, Outstanding
<1>8. ClosedLate
  BY <1>1, <1>3 DEF ClosedLate
<1> QED BY <1>4, <1>5, <1>6, <1>7, <1>8 DEF PlannerInv

\* More blocks are asked for.
LEMMA NewBatchKeeps == \A n \in 1 .. MaxReads : PlannerInv /\ NewBatch(n) => PlannerInv'
<1> SUFFICES ASSUME NEW n \in 1 .. MaxReads, PlannerInv, NewBatch(n) PROVE PlannerInv'
  OBVIOUS
<1>1. /\ ~closed /\ batch = <<>> /\ Outstanding + n <= MaxOutstanding
      /\ issued' = issued + n /\ batch' = [i \in 1 .. n |-> issued + i]
      /\ UNCHANGED <<reqCh, busy, outCh, inflight, holding, answers, buffers, pool, closed>>
  BY DEF NewBatch
<1>2. n \in Nat /\ issued \in Nat /\ inflight \in Nat
  BY DEF PlannerInv, PlannerKinds
<1>3. Asked \in SUBSET Asked'
  BY <1>1, <1>2 DEF Asked
<1>4. IsSeq(batch') /\ Len(batch') = n /\ DOMAIN batch' = 1 .. n /\ \A i \in 1 .. n : batch'[i] = issued + i
  <2> DEFINE new == [i \in 1 .. n |-> issued + i]
  <2>1. new \in [1 .. n -> {new[i] : i \in DOMAIN new}] /\ DOMAIN new = 1 .. n
    OBVIOUS
  <2>2. \A i \in 1 .. n : new[i] = issued + i
    OBVIOUS
  <2> HIDE DEF new
  <2>3. new \in Seq({new[i] : i \in DOMAIN new}) /\ Len(new) = n
    <3>1. \A S : new \in [1 .. n -> S] => new \in Seq(S)
      BY <1>2, SeqDef
    <3>2. new \in Seq({new[i] : i \in DOMAIN new})
      BY <2>1, <3>1
    <3> QED BY <1>2, <2>1, <3>2, LenProperties
  <2>4. batch' = new
    BY <1>1 DEF new
  <2> QED BY <2>1, <2>2, <2>3, <2>4 DEF IsSeq
<1>5. ASSUME NEW c, Tells(c, Asked, buffers) PROVE Tells(c, Asked', buffers')
  BY <1>1, <1>3, <1>5 DEF Tells
<1>6. PlannerKinds'
  <2>1. \A i \in DOMAIN batch' : batch'[i] \in Asked'
    BY <1>1, <1>2, <1>4 DEF Asked
  <2>2. /\ \A i \in DOMAIN outCh' : Tells(outCh'[i], Asked', buffers')
        /\ \A c \in holding' : Tells(c, Asked', buffers')
    BY <1>1, <1>5 DEF PlannerInv, PlannerKinds
  <2> QED BY <1>1, <1>2, <1>3, <1>4, <2>1, <2>2 DEF PlannerInv, PlannerKinds
<1>7. OnePlace'
  BY <1>1 DEF PlannerInv, OnePlace
<1>8. ASSUME NEW t \in Asked' PROVE Somewhere(t)'
  <2>1. CASE t \in Asked
    <3>1. Somewhere(t)
      BY <2>1 DEF PlannerInv
    <3> QED BY <1>1, <3>1 DEF Somewhere
  <2>2. CASE t \notin Asked
    <3>1. t - issued \in 1 .. n /\ t = issued + (t - issued)
      BY <1>1, <1>2, <2>2 DEF Asked
    <3> QED BY <1>4, <3>1 DEF Somewhere
  <2> QED BY <2>1, <2>2
<1>9. Counted'
  BY <1>1, <1>2, <1>4 DEF PlannerInv, Counted, Outstanding, Engaged
<1>10. ClosedLate'
  BY <1>1 DEF PlannerInv, ClosedLate
<1> QED BY <1>6, <1>7, <1>8, <1>9, <1>10 DEF PlannerInv

\* A block is queued, or completes at once if no buffer can take it.
LEMMA IssueKeeps == PlannerInv /\ Issue => PlannerInv'
<1> SUFFICES ASSUME PlannerInv, Issue PROVE PlannerInv'
  OBVIOUS
<1> DEFINE tag == Head(batch)
           new == [tag |-> tag, buf |-> 0, err |-> TRUE]
<1>1. /\ batch # <<>> /\ inflight' = inflight + 1 /\ batch' = Tail(batch)
      /\ \/ tag \in Large /\ outCh' = Append(outCh, new) /\ reqCh' = reqCh
         \/ tag \notin Large /\ reqCh' = Append(reqCh, tag) /\ outCh' = outCh
      /\ UNCHANGED <<issued, busy, holding, answers, buffers, pool, closed>>
  BY DEF Issue, CanIssue
<1>2. /\ issued \in Nat /\ inflight \in Nat /\ IsSeq(batch) /\ IsSeq(reqCh) /\ IsSeq(outCh) /\ IsSeq(buffers)
      /\ Asked' = Asked
  BY <1>1 DEF PlannerInv, PlannerKinds, Asked
<1>3. /\ Len(batch) \in Nat /\ Len(batch) >= 1 /\ tag = batch[1] /\ DOMAIN batch = 1 .. Len(batch)
      /\ IsSeq(batch') /\ Len(batch') = Len(batch) - 1 /\ DOMAIN batch' = 1 .. Len(batch) - 1
      /\ \A i \in 1 .. Len(batch) - 1 : batch'[i] = batch[i + 1]
  BY <1>1, <1>2, SeqParts, TailParts
<1>4. tag \in Asked
  BY <1>3 DEF PlannerInv, PlannerKinds
<1>5. new.tag = tag /\ new.buf = 0 /\ (tag \in Large => Tells(new, Asked, buffers))
  BY <1>4 DEF Tells
<1> HIDE DEF tag, new
<1>6. /\ Len(outCh) \in Nat /\ DOMAIN outCh = 1 .. Len(outCh) /\ IsSeq(outCh')
      /\ \/ /\ tag \in Large /\ DOMAIN outCh' = DOMAIN outCh \cup {Len(outCh) + 1}
            /\ Len(outCh') = Len(outCh) + 1 /\ outCh'[Len(outCh) + 1] = new
            /\ \A i \in DOMAIN outCh : outCh'[i] = outCh[i] /\ i # Len(outCh) + 1
         \/ tag \notin Large /\ outCh' = outCh
  <2>1. Len(outCh) \in Nat /\ DOMAIN outCh = 1 .. Len(outCh)
    BY <1>2, SeqParts
  <2>2. CASE tag \in Large
    <3>1. outCh' = Append(outCh, new)
      BY <1>1, <2>2
    <3>2. /\ IsSeq(outCh') /\ Len(outCh') = Len(outCh) + 1 /\ outCh'[Len(outCh) + 1] = new
          /\ \A i \in 1 .. Len(outCh) : outCh'[i] = outCh[i]
      BY <1>2, <3>1, AppendParts
    <3>3. DOMAIN outCh' = 1 .. Len(outCh) + 1
      BY <3>2, SeqParts
    <3> QED BY <2>1, <2>2, <3>2, <3>3
  <2> QED BY <1>1, <1>2, <2>1, <2>2
<1>7. /\ Len(reqCh) \in Nat /\ DOMAIN reqCh = 1 .. Len(reqCh) /\ IsSeq(reqCh')
      /\ \/ /\ tag \notin Large /\ DOMAIN reqCh' = DOMAIN reqCh \cup {Len(reqCh) + 1}
            /\ Len(reqCh') = Len(reqCh) + 1 /\ reqCh'[Len(reqCh) + 1] = tag
            /\ \A i \in DOMAIN reqCh : reqCh'[i] = reqCh[i]
         \/ tag \in Large /\ reqCh' = reqCh
  <2>1. Len(reqCh) \in Nat /\ DOMAIN reqCh = 1 .. Len(reqCh)
    BY <1>2, SeqParts
  <2>2. CASE tag \notin Large
    <3>1. reqCh' = Append(reqCh, tag)
      BY <1>1, <2>2
    <3>2. /\ IsSeq(reqCh') /\ Len(reqCh') = Len(reqCh) + 1 /\ reqCh'[Len(reqCh) + 1] = tag
          /\ \A i \in 1 .. Len(reqCh) : reqCh'[i] = reqCh[i]
      BY <1>2, <3>1, AppendParts
    <3>3. DOMAIN reqCh' = 1 .. Len(reqCh) + 1
      BY <3>2, SeqParts
    <3> QED BY <2>1, <2>2, <3>2, <3>3
  <2> QED BY <1>1, <1>2, <2>1, <2>2
<1>8. PlannerKinds'
  <2>1. \A i \in DOMAIN batch' : batch'[i] \in Asked'
    <3>1. \A i \in DOMAIN batch' : i + 1 \in DOMAIN batch /\ batch'[i] = batch[i + 1]
      BY <1>3
    <3> QED BY <1>2, <3>1 DEF PlannerInv, PlannerKinds
  <2>2. \A i \in DOMAIN reqCh' : reqCh'[i] \in Asked' \ Large
    BY <1>2, <1>4, <1>7 DEF PlannerInv, PlannerKinds
  <2>3. \A i \in DOMAIN outCh' : Tells(outCh'[i], Asked', buffers')
    BY <1>1, <1>2, <1>5, <1>6 DEF PlannerInv, PlannerKinds
  <2> QED BY <1>1, <1>2, <1>3, <1>6, <1>7, <2>1, <2>2, <2>3 DEF PlannerInv, PlannerKinds
<1>9. OnePlace'
  <2>1. CASE outCh' = outCh
    BY <1>1, <2>1 DEF PlannerInv, OnePlace
  <2>2. CASE outCh' # outCh
    <3>1. /\ DOMAIN outCh' = DOMAIN outCh \cup {Len(outCh) + 1} /\ outCh'[Len(outCh) + 1].buf = 0
          /\ \A i \in DOMAIN outCh : outCh'[i] = outCh[i]
      BY <1>5, <1>6, <2>2
    <3>2. \A b \in pool : b # 0
      BY <1>2, SeqParts DEF PlannerInv, PlannerKinds
    <3> QED BY <1>1, <3>1, <3>2 DEF PlannerInv, OnePlace
  <2> QED BY <2>1, <2>2
<1>10. ASSUME NEW t \in Asked' PROVE Somewhere(t)'
  <2>1. Somewhere(t)
    BY <1>2 DEF PlannerInv
  <2>2. ASSUME NEW i \in DOMAIN batch, batch[i] = t
        PROVE  (\E j \in DOMAIN batch' : batch'[j] = t) \/ t = tag
    <3>1. CASE i = 1
      BY <1>3, <2>2, <3>1
    <3>2. CASE i # 1
      <4>1. i - 1 \in 1 .. Len(batch) - 1 /\ (i - 1) + 1 = i
        BY <1>3, <3>2
      <4> QED BY <1>3, <2>2, <4>1
    <3> QED BY <3>1, <3>2
  <2>3. t = tag => (\E i \in DOMAIN reqCh' : reqCh'[i] = t) \/ \E i \in DOMAIN outCh' : outCh'[i].tag = t
    BY <1>5, <1>6, <1>7
  <2>4. \A i \in DOMAIN reqCh : i \in DOMAIN reqCh' /\ reqCh'[i] = reqCh[i]
    BY <1>7
  <2>5. \A i \in DOMAIN outCh : i \in DOMAIN outCh' /\ outCh'[i] = outCh[i]
    BY <1>6
  <2> QED BY <1>1, <2>1, <2>2, <2>3, <2>4, <2>5 DEF Somewhere
<1>11. Counted'
  <2>1. PICK k \in Nat : k = Cardinality(Engaged)
    BY EngagedCount
  <2>2. inflight = Len(reqCh) + Len(outCh) + k /\ inflight + Len(batch) <= MaxOutstanding
    BY <2>1 DEF PlannerInv, Counted, Outstanding
  <2>3. Cardinality(Engaged') = k
    BY <1>1, <2>1 DEF Engaged
  <2>4. Len(reqCh') + Len(outCh') = Len(reqCh) + Len(outCh) + 1
    BY <1>6, <1>7
  <2>5. inflight' = Len(reqCh') + Len(outCh') + k /\ inflight' + Len(batch') <= MaxOutstanding
    BY <1>1, <1>2, <1>3, <1>6, <1>7, <2>2, <2>4, PlannerAssumption
  <2> QED BY <2>3, <2>5 DEF Counted, Outstanding
<1>12. ClosedLate'
  BY <1>1 DEF PlannerInv, ClosedLate
<1> QED BY <1>8, <1>9, <1>10, <1>11, <1>12 DEF PlannerInv

\* The query takes a completion.
LEMMA NextKeeps == PlannerInv /\ Next_ => PlannerInv'
<1> SUFFICES ASSUME PlannerInv, Next_ PROVE PlannerInv'
  OBVIOUS
<1>1. /\ batch = <<>> /\ inflight > 0 /\ outCh # <<>>
      /\ holding' = holding \cup {Head(outCh)} /\ outCh' = Tail(outCh) /\ inflight' = inflight - 1
      /\ UNCHANGED <<batch, issued, reqCh, busy, answers, buffers, pool, closed>>
  BY DEF Next_, CanNext
<1>2. /\ issued \in Nat /\ inflight \in Nat /\ IsSeq(batch) /\ IsSeq(reqCh) /\ IsSeq(outCh) /\ IsSeq(buffers)
      /\ Asked' = Asked
  BY <1>1 DEF PlannerInv, PlannerKinds, Asked
<1>3. /\ Len(outCh) \in Nat /\ Len(outCh) >= 1 /\ Head(outCh) = outCh[1] /\ DOMAIN outCh = 1 .. Len(outCh)
      /\ IsSeq(outCh') /\ Len(outCh') = Len(outCh) - 1 /\ DOMAIN outCh' = 1 .. Len(outCh) - 1
      /\ \A i \in 1 .. Len(outCh) - 1 : outCh'[i] = outCh[i + 1]
  BY <1>1, <1>2, SeqParts, TailParts
<1>4. /\ 1 \in DOMAIN outCh /\ holding' = holding \cup {outCh[1]}
      /\ \A i \in DOMAIN outCh' : i + 1 \in DOMAIN outCh /\ i + 1 # 1 /\ outCh'[i] = outCh[i + 1]
      /\ \A i, j \in DOMAIN outCh' : i # j => i + 1 # j + 1
  BY <1>1, <1>3
<1>5. PlannerKinds'
  BY <1>1, <1>2, <1>3, <1>4 DEF PlannerInv, PlannerKinds
<1>6. OnePlace'
  <2>1. \A i, j \in DOMAIN outCh' : i # j /\ outCh'[i].buf # 0 => outCh'[i].buf # outCh'[j].buf
    BY <1>4 DEF PlannerInv, OnePlace
  <2>2. \A w \in Worker, i \in DOMAIN outCh' : busy[w].buf # 0 => busy[w].buf # outCh'[i].buf
    BY <1>4 DEF PlannerInv, OnePlace
  <2>3. \A w \in Worker, c \in holding' : busy[w].buf # 0 => busy[w].buf # c.buf
    BY <1>4 DEF PlannerInv, OnePlace
  <2>4. \A i \in DOMAIN outCh', c \in holding' : outCh'[i].buf # 0 => outCh'[i].buf # c.buf
    BY <1>4 DEF PlannerInv, OnePlace
  <2>5. \A c, d \in holding' : c # d /\ c.buf # 0 => c.buf # d.buf
    BY <1>4 DEF PlannerInv, OnePlace
  <2>6. \A b \in pool : /\ \A i \in DOMAIN outCh' : outCh'[i].buf # b
                        /\ \A c \in holding' : c.buf # b
    BY <1>4 DEF PlannerInv, OnePlace
  <2> QED BY <1>1, <2>1, <2>2, <2>3, <2>4, <2>5, <2>6 DEF PlannerInv, OnePlace
<1>7. ASSUME NEW t \in Asked' PROVE Somewhere(t)'
  <2>1. Somewhere(t)
    BY <1>2 DEF PlannerInv
  <2>2. ASSUME NEW i \in DOMAIN outCh, outCh[i].tag = t
        PROVE  (\E j \in DOMAIN outCh' : outCh'[j].tag = t) \/ \E c \in holding' : c.tag = t
    <3>1. CASE i = 1
      BY <1>4, <2>2, <3>1
    <3>2. CASE i # 1
      <4>1. i - 1 \in 1 .. Len(outCh) - 1 /\ (i - 1) + 1 = i
        BY <1>3, <3>2
      <4> QED BY <1>3, <2>2, <4>1
    <3> QED BY <3>1, <3>2
  <2>3. \A c \in holding : c \in holding'
    BY <1>4
  <2> QED BY <1>1, <2>1, <2>2, <2>3 DEF Somewhere
<1>8. Counted'
  <2>1. Len(batch) = 0 /\ Len(reqCh) \in Nat
    BY <1>1, <1>2, SeqParts
  <2>2. PICK k \in Nat : k = Cardinality(Engaged)
    BY EngagedCount
  <2>3. inflight = Len(reqCh) + Len(outCh) + k /\ inflight + Len(batch) <= MaxOutstanding
    BY <2>2 DEF PlannerInv, Counted, Outstanding
  <2>4. Cardinality(Engaged') = k
    BY <1>1, <2>2 DEF Engaged
  <2>5. inflight' = Len(reqCh') + Len(outCh') + k /\ inflight' + Len(batch') <= MaxOutstanding
    BY <1>1, <1>2, <1>3, <2>1, <2>3, PlannerAssumption
  <2> QED BY <2>4, <2>5 DEF Counted, Outstanding
<1>9. ClosedLate'
  BY <1>1 DEF PlannerInv, ClosedLate
<1> QED BY <1>5, <1>6, <1>7, <1>8, <1>9 DEF PlannerInv

\* The query decodes a block and gives its buffer back.
LEMMA ReleaseKeeps == \A c \in holding : PlannerInv /\ Release(c) => PlannerInv'
<1> SUFFICES ASSUME NEW c \in holding, PlannerInv, Release(c) PROVE PlannerInv'
  OBVIOUS
<1>1. /\ answers' = [t \in DOMAIN answers \cup {c.tag} |->
                       IF t # c.tag THEN answers[t] ELSE IF c.err THEN 0 ELSE buffers[c.buf]]
      /\ holding' = holding \ {c} /\ pool' = pool \cup (IF c.buf = 0 THEN {} ELSE {c.buf})
      /\ UNCHANGED <<batch, issued, reqCh, busy, outCh, inflight, buffers, closed>>
  BY DEF Release, Put
<1>2. Asked' = Asked /\ Tells(c, Asked, buffers)
  BY <1>1 DEF PlannerInv, PlannerKinds, Asked
<1>3. \A t \in DOMAIN answers' : t \in Asked /\ answers'[t] = IF t \in Large \cup Broken THEN 0 ELSE t
  <2>1. \A t \in DOMAIN answers : t \in Asked /\ answers[t] = IF t \in Large \cup Broken THEN 0 ELSE t
    BY DEF PlannerInv, PlannerKinds
  <2>2. DOMAIN answers' = DOMAIN answers \cup {c.tag}
    BY <1>1
  <2>3. answers'[c.tag] = IF c.err THEN 0 ELSE buffers[c.buf]
    BY <1>1
  <2>4. \A t \in DOMAIN answers : t # c.tag => answers'[t] = answers[t]
    BY <1>1
  <2>5. c.tag \in Asked /\ answers'[c.tag] = IF c.tag \in Large \cup Broken THEN 0 ELSE c.tag
    BY <1>2, <2>3 DEF Tells
  <2> QED BY <2>1, <2>2, <2>4, <2>5
<1>4. \A b \in pool' : b \in pool \/ (b = c.buf /\ b # 0 /\ b \in DOMAIN buffers)
  BY <1>1, <1>2 DEF Tells
<1>5. PlannerKinds'
  <2>1. pool' \in SUBSET DOMAIN buffers'
    BY <1>1, <1>4 DEF PlannerInv, PlannerKinds
  <2> QED BY <1>1, <1>2, <1>3, <2>1 DEF PlannerInv, PlannerKinds
<1>6. OnePlace'
  <2>1. \A b \in pool' : /\ \A w \in Worker : busy[w].buf # b
                         /\ \A i \in DOMAIN outCh : outCh[i].buf # b
                         /\ \A d \in holding' : d.buf # b
    BY <1>1, <1>4 DEF PlannerInv, OnePlace
  <2> QED BY <1>1, <2>1 DEF PlannerInv, OnePlace
<1>7. ASSUME NEW t \in Asked' PROVE Somewhere(t)'
  <2>1. Somewhere(t)
    BY <1>2 DEF PlannerInv
  <2>2. DOMAIN answers' = DOMAIN answers \cup {c.tag} /\ holding' = holding \ {c}
    BY <1>1
  <2> QED BY <1>1, <2>1, <2>2 DEF Somewhere
<1>8. Counted'
  BY <1>1 DEF PlannerInv, Counted, Outstanding, Engaged
<1>9. ClosedLate'
  BY <1>1 DEF PlannerInv, ClosedLate
<1> QED BY <1>5, <1>6, <1>7, <1>8, <1>9 DEF PlannerInv

\* The planner closes, and its workers leave.
LEMMA CloseKeeps == PlannerInv /\ (Close \/ \E w \in Worker : Leave(w)) => PlannerInv'
<1> SUFFICES ASSUME PlannerInv, Close \/ \E w \in Worker : Leave(w) PROVE PlannerInv'
  OBVIOUS
<1>1. CASE Close
  <2>1. /\ ~closed /\ batch = <<>> /\ inflight = 0 /\ holding = {} /\ closed' = TRUE
        /\ UNCHANGED <<batch, issued, reqCh, busy, outCh, inflight, holding, answers, buffers, pool>>
    BY <1>1 DEF Close
  <2>2. ClosedLate'
    BY <2>1 DEF PlannerInv, ClosedLate
  <2>3. Counted'
    BY <2>1 DEF PlannerInv, Counted, Outstanding, Engaged
  <2>4. PlannerKinds' /\ OnePlace' /\ \A t \in Asked' : Somewhere(t)'
    BY <2>1 DEF PlannerInv, PlannerKinds, OnePlace, Somewhere, Asked
  <2> QED BY <2>2, <2>3, <2>4 DEF PlannerInv
<1>2. ASSUME NEW w \in Worker, Leave(w) PROVE PlannerInv'
  <2>1. /\ closed /\ busy[w] = Idle /\ busy' = [busy EXCEPT ![w] = Gone]
        /\ UNCHANGED <<batch, issued, reqCh, outCh, inflight, holding, answers, buffers, pool, closed>>
    BY <1>2 DEF Leave
  <2>2. /\ DOMAIN busy' = Worker /\ busy'[w] = Gone /\ \A v \in Worker : v # w => busy'[v] = busy[v]
    BY <2>1 DEF PlannerInv, PlannerKinds
  <2>3. Idle.tag = 0 /\ Idle.buf = 0 /\ Gone.tag = -1 /\ Gone.buf = 0
    BY DEF Idle, Gone
  <2>4. \A v \in Worker : busy'[v].buf = busy[v].buf
    BY <2>1, <2>2, <2>3
  <2>5. PlannerKinds'
    <3>1. \A v \in Worker : \/ busy'[v] \in {Idle, Gone}
                            \/ busy'[v].tag \in Asked \ Large /\ busy'[v].buf \in DOMAIN buffers
      BY <2>2 DEF PlannerInv, PlannerKinds
    <3> QED BY <2>1, <2>2, <3>1 DEF PlannerInv, PlannerKinds, Asked
  <2>6. OnePlace'
    BY <2>1, <2>4 DEF PlannerInv, OnePlace
  <2>7. ASSUME NEW t \in Asked' PROVE Somewhere(t)'
    <3>1. Somewhere(t) /\ t # 0
      BY <2>1 DEF PlannerInv, Asked
    <3>2. \A v \in Worker : busy[v].tag = t => busy'[v].tag = t
      BY <2>1, <2>2, <2>3, <3>1
    <3> QED BY <2>1, <3>1, <3>2 DEF Somewhere
  <2>8. Counted'
    <3>1. \A v \in Worker : busy'[v].tag > 0 <=> busy[v].tag > 0
      BY <2>1, <2>2, <2>3
    <3>2. Engaged' = Engaged
      BY <3>1 DEF Engaged
    <3> QED BY <2>1, <3>2 DEF PlannerInv, Counted, Outstanding
  <2>9. ClosedLate'
    BY <2>1 DEF PlannerInv, ClosedLate
  <2> QED BY <2>5, <2>6, <2>7, <2>8, <2>9 DEF PlannerInv
<1> QED BY <1>1, <1>2

\* A worker takes a request, and a buffer that is nobody else's.
LEMMA TakeKeeps == \A w \in Worker : PlannerInv /\ Take(w) => PlannerInv'
<1> SUFFICES ASSUME NEW w \in Worker, PlannerInv, Take(w) PROVE PlannerInv'
  OBVIOUS
<1> DEFINE tag == Head(reqCh)
<1>1. /\ busy[w] = Idle /\ reqCh # <<>> /\ reqCh' = Tail(reqCh)
      /\ UNCHANGED <<batch, issued, outCh, inflight, holding, answers, closed>>
  BY DEF Take, CanTake
<1>2. /\ issued \in Nat /\ inflight \in Nat /\ IsSeq(reqCh) /\ IsSeq(buffers) /\ DOMAIN busy = Worker
      /\ Asked' = Asked
  BY <1>1 DEF PlannerInv, PlannerKinds, Asked
<1>3. /\ Len(reqCh) \in Nat /\ Len(reqCh) >= 1 /\ tag = reqCh[1] /\ DOMAIN reqCh = 1 .. Len(reqCh)
      /\ IsSeq(reqCh') /\ Len(reqCh') = Len(reqCh) - 1 /\ DOMAIN reqCh' = 1 .. Len(reqCh) - 1
      /\ \A i \in 1 .. Len(reqCh) - 1 : reqCh'[i] = reqCh[i + 1]
  BY <1>1, <1>2, SeqParts, TailParts
<1>4. tag \in Asked \ Large /\ tag > 0
  <2>1. tag \in Asked \ Large
    BY <1>3 DEF PlannerInv, PlannerKinds
  <2> HIDE DEF tag
  <2> QED BY <1>2, <2>1 DEF Asked
<1>5. Len(buffers) \in Nat /\ DOMAIN buffers = 1 .. Len(buffers)
  BY <1>2, SeqParts
<1> DEFINE Free(n) == /\ \A v \in Worker : busy[v].buf # n
                      /\ \A i \in DOMAIN outCh : outCh[i].buf # n
                      /\ \A c \in holding : c.buf # n
<1> DEFINE Given(n) == /\ busy' = [busy EXCEPT ![w] = [tag |-> tag, buf |-> n]]
                       /\ Free(n) /\ n \in DOMAIN buffers' /\ IsSeq(buffers')
                       /\ \A b \in DOMAIN buffers : b \in DOMAIN buffers' /\ buffers'[b] = buffers[b]
                       /\ pool' \in SUBSET (pool \ {n})
<1>6. \E n \in Nat \ {0} : Given(n)
  <2>1. ASSUME NEW b \in pool, busy' = [busy EXCEPT ![w] = [tag |-> tag, buf |-> b]],
               pool' = pool \ {b}, buffers' = buffers
        PROVE  \E n \in Nat \ {0} : Given(n)
    <3>1. b \in DOMAIN buffers /\ b \in Nat \ {0}
      BY <1>5 DEF PlannerInv, PlannerKinds
    <3>2. Free(b)
      BY DEF PlannerInv, OnePlace
    <3> HIDE DEF Free, tag
    <3> QED BY <1>2, <2>1, <3>1, <3>2
  <2>2. ASSUME pool = {}, buffers' = Append(buffers, 0), pool' = pool,
               busy' = [busy EXCEPT ![w] = [tag |-> tag, buf |-> Len(buffers')]]
        PROVE  \E n \in Nat \ {0} : Given(n)
    <3> DEFINE k == Len(buffers) + 1
    <3>1. IsSeq(buffers') /\ Len(buffers') = k /\ \A b \in 1 .. Len(buffers) : buffers'[b] = buffers[b]
      BY <1>2, <2>2, AppendParts
    <3>2. DOMAIN buffers' = 1 .. k
      BY <3>1, SeqParts
    <3>3. k \in Nat \ {0} /\ k \in DOMAIN buffers' /\ k \notin DOMAIN buffers
      BY <1>5, <3>2
    <3>4. Free(k)
      <4>1. \A v \in Worker : busy[v].buf # k
        <5>1. \A v \in Worker : busy[v].buf = 0 \/ busy[v].buf \in DOMAIN buffers
          BY DEF PlannerInv, PlannerKinds, Idle, Gone
        <5> QED BY <3>3, <5>1
      <4>2. \A i \in DOMAIN outCh : outCh[i].buf = 0 \/ outCh[i].buf \in DOMAIN buffers
        BY DEF PlannerInv, PlannerKinds, Tells
      <4>3. \A c \in holding : c.buf = 0 \/ c.buf \in DOMAIN buffers
        BY DEF PlannerInv, PlannerKinds, Tells
      <4> QED BY <3>3, <4>1, <4>2, <4>3
    <3>5. \A b \in DOMAIN buffers : b \in DOMAIN buffers' /\ buffers'[b] = buffers[b]
      BY <1>5, <3>1, <3>2
    <3>6. pool' \in SUBSET (pool \ {k})
      BY <2>2
    <3>7. busy' = [busy EXCEPT ![w] = [tag |-> tag, buf |-> k]]
      BY <2>2, <3>1
    <3> HIDE DEF k, Free, tag
    <3> QED BY <3>1, <3>3, <3>4, <3>5, <3>6, <3>7
  <2> HIDE DEF Given
  <2> QED BY <2>1, <2>2 DEF Take
<1>7. PICK n \in Nat \ {0} : Given(n)
  BY <1>6
<1> HIDE DEF tag
<1>8. /\ DOMAIN busy' = Worker /\ busy'[w].tag = tag /\ busy'[w].buf = n
      /\ \A v \in Worker : v # w => busy'[v] = busy[v]
  BY <1>2, <1>7
<1>9. busy[w].tag = 0 /\ busy[w].buf = 0
  BY <1>1 DEF Idle
<1>10. \A c : Tells(c, Asked, buffers) => Tells(c, Asked, buffers')
  <2> SUFFICES ASSUME NEW c, Tells(c, Asked, buffers) PROVE Tells(c, Asked, buffers')
    OBVIOUS
  <2>1. ~c.err => c.buf \in DOMAIN buffers
    BY DEF Tells
  <2> QED BY <1>7, <2>1 DEF Tells
<1>11. PlannerKinds'
  <2>1. \A i \in DOMAIN reqCh' : reqCh'[i] \in Asked \ Large
    <3>1. \A i \in DOMAIN reqCh' : i + 1 \in DOMAIN reqCh /\ reqCh'[i] = reqCh[i + 1]
      BY <1>3
    <3> QED BY <3>1 DEF PlannerInv, PlannerKinds
  <2>2. \A v \in Worker : \/ busy'[v] \in {Idle, Gone}
                          \/ busy'[v].tag \in Asked \ Large /\ busy'[v].buf \in DOMAIN buffers'
    BY <1>4, <1>7, <1>8 DEF PlannerInv, PlannerKinds
  <2>3. pool' \in SUBSET DOMAIN buffers'
    BY <1>7 DEF PlannerInv, PlannerKinds
  <2>4. /\ \A i \in DOMAIN outCh : Tells(outCh[i], Asked, buffers')
        /\ \A c \in holding : Tells(c, Asked, buffers')
    BY <1>10 DEF PlannerInv, PlannerKinds
  <2> QED BY <1>1, <1>2, <1>3, <1>7, <1>8, <2>1, <2>2, <2>3, <2>4 DEF PlannerInv, PlannerKinds
<1>12. OnePlace'
  <2>1. \A u, v \in Worker : u # v /\ busy'[u].buf # 0 => busy'[u].buf # busy'[v].buf
    BY <1>7, <1>8 DEF PlannerInv, OnePlace
  <2>2. \A v \in Worker, i \in DOMAIN outCh : busy'[v].buf # 0 => busy'[v].buf # outCh[i].buf
    BY <1>7, <1>8 DEF PlannerInv, OnePlace
  <2>3. \A v \in Worker, c \in holding : busy'[v].buf # 0 => busy'[v].buf # c.buf
    BY <1>7, <1>8 DEF PlannerInv, OnePlace
  <2>4. \A b \in pool' : /\ \A v \in Worker : busy'[v].buf # b
                         /\ \A i \in DOMAIN outCh : outCh[i].buf # b
                         /\ \A c \in holding : c.buf # b
    BY <1>7, <1>8 DEF PlannerInv, OnePlace
  <2> QED BY <1>1, <2>1, <2>2, <2>3, <2>4 DEF PlannerInv, OnePlace
<1>13. ASSUME NEW t \in Asked' PROVE Somewhere(t)'
  <2>1. Somewhere(t) /\ t # 0
    <3>1. t \in Asked
      BY <1>2
    <3>2. Somewhere(t)
      BY <3>1 DEF PlannerInv
    <3>3. t # 0
      BY <1>2, <3>1 DEF Asked
    <3> QED BY <3>2, <3>3
  <2>2. ASSUME NEW i \in DOMAIN reqCh, reqCh[i] = t
        PROVE  (\E j \in DOMAIN reqCh' : reqCh'[j] = t) \/ \E v \in Worker : busy'[v].tag = t
    <3>1. CASE i = 1
      BY <1>3, <1>8, <2>2, <3>1
    <3>2. CASE i # 1
      <4>1. i - 1 \in 1 .. Len(reqCh) - 1 /\ (i - 1) + 1 = i
        BY <1>3, <3>2
      <4> QED BY <1>3, <2>2, <4>1
    <3> QED BY <3>1, <3>2
  <2>3. \A v \in Worker : busy[v].tag = t => busy'[v].tag = t
    BY <1>8, <1>9, <2>1
  <2> QED BY <1>1, <2>1, <2>2, <2>3 DEF Somewhere
<1>14. Counted'
  <2>1. Engaged' = Engaged \cup {w} /\ w \notin Engaged
    <3>1. \A v \in Worker : busy'[v].tag > 0 <=> v = w \/ busy[v].tag > 0
      BY <1>4, <1>8
    <3> QED BY <1>9, <3>1 DEF Engaged
  <2>2. PICK k \in Nat : k = Cardinality(Engaged)
    BY EngagedCount
  <2>3. Cardinality(Engaged') = k + 1
    <3>1. \A S : S = Engaged => Cardinality(S \cup {w}) = k + 1
      BY <2>1, <2>2, EngagedCount, FS_AddElement
    <3> QED BY <2>1, <3>1
  <2>4. inflight = Len(reqCh) + Len(outCh) + k /\ Outstanding <= MaxOutstanding
    BY <2>2 DEF PlannerInv, Counted
  <2>5. Len(outCh) \in Nat
    BY SeqParts DEF PlannerInv, PlannerKinds
  <2>6. inflight' = Len(reqCh') + Len(outCh') + Cardinality(Engaged')
    BY <1>1, <1>3, <2>3, <2>4, <2>5
  <2>7. Outstanding' = Outstanding
    BY <1>1 DEF Outstanding
  <2> QED BY <2>4, <2>6, <2>7 DEF Counted
<1>15. ClosedLate'
  <2>1. busy'[w] # Gone
    BY <1>4, <1>8 DEF Gone
  <2> QED BY <1>1, <1>8, <2>1 DEF PlannerInv, ClosedLate
<1> QED BY <1>11, <1>12, <1>13, <1>14, <1>15 DEF PlannerInv

\* A worker reads its block, and its completion carries the buffer on.
LEMMA ReadKeeps == \A w \in Worker : PlannerInv /\ Read(w) => PlannerInv'
<1> SUFFICES ASSUME NEW w \in Worker, PlannerInv, Read(w) PROVE PlannerInv'
  OBVIOUS
<1> DEFINE tag == busy[w].tag
           buf == busy[w].buf
           new == [tag |-> tag, buf |-> buf, err |-> tag \in Broken]
<1>1. /\ busy[w] \notin {Idle, Gone}
      /\ buffers' = IF tag \in Broken THEN buffers ELSE [buffers EXCEPT ![buf] = tag]
      /\ outCh' = Append(outCh, new) /\ busy' = [busy EXCEPT ![w] = Idle]
      /\ UNCHANGED <<batch, issued, reqCh, inflight, holding, answers, pool, closed>>
  BY DEF Read, CanRead
<1>2. /\ issued \in Nat /\ inflight \in Nat /\ IsSeq(outCh) /\ IsSeq(buffers) /\ DOMAIN busy = Worker
      /\ Asked' = Asked
  BY <1>1 DEF PlannerInv, PlannerKinds, Asked
<1>3. tag \in Asked \ Large /\ buf \in DOMAIN buffers
  BY <1>1 DEF PlannerInv, PlannerKinds
<1>4. new.tag = tag /\ new.buf = buf /\ (new.err <=> tag \in Broken)
  OBVIOUS
<1> HIDE DEF tag, buf, new
<1>5. tag > 0 /\ buf # 0
  BY <1>2, <1>3, SeqParts DEF Asked
<1>6. /\ DOMAIN buffers' = DOMAIN buffers /\ \A b \in DOMAIN buffers : b # buf => buffers'[b] = buffers[b]
      /\ tag \notin Broken => buffers'[buf] = tag
  BY <1>1, <1>3
<1>7. IsSeq(buffers')
  <2>1. CASE tag \in Broken
    BY <1>1, <1>2, <2>1
  <2>2. CASE tag \notin Broken
    <3> DEFINE S == {buffers'[i] : i \in DOMAIN buffers'}
    <3>1. Len(buffers) \in Nat /\ DOMAIN buffers = 1 .. Len(buffers)
      BY <1>2, SeqParts
    <3>2. buffers' = [i \in 1 .. Len(buffers) |-> buffers'[i]]
      BY <1>1, <2>2, <3>1
    <3>3. \A i \in 1 .. Len(buffers) : buffers'[i] \in S
      BY <1>6, <3>1
    <3> HIDE DEF S
    <3>4. buffers' \in [1 .. Len(buffers) -> S]
      BY <3>2, <3>3
    <3>5. buffers' \in Seq(S)
      BY <3>1, <3>4, SeqDef
    <3> QED BY <3>5 DEF S, IsSeq
  <2> QED BY <2>1, <2>2
<1>8. /\ Len(outCh) \in Nat /\ IsSeq(outCh') /\ Len(outCh') = Len(outCh) + 1
      /\ DOMAIN outCh' = DOMAIN outCh \cup {Len(outCh) + 1} /\ Len(outCh) + 1 \notin DOMAIN outCh
      /\ outCh'[Len(outCh) + 1] = new /\ \A i \in DOMAIN outCh : outCh'[i] = outCh[i]
  <2>1. Len(outCh) \in Nat /\ DOMAIN outCh = 1 .. Len(outCh)
    BY <1>2, SeqParts
  <2>2. /\ IsSeq(outCh') /\ Len(outCh') = Len(outCh) + 1 /\ outCh'[Len(outCh) + 1] = new
        /\ \A i \in 1 .. Len(outCh) : outCh'[i] = outCh[i]
    BY <1>1, <1>2, AppendParts
  <2>3. DOMAIN outCh' = 1 .. Len(outCh) + 1
    BY <2>2, SeqParts
  <2> QED BY <2>1, <2>2, <2>3
<1>9. /\ DOMAIN busy' = Worker /\ busy'[w] = Idle /\ busy'[w].tag = 0 /\ busy'[w].buf = 0
      /\ \A v \in Worker : v # w => busy'[v] = busy[v]
  <2>1. Idle.tag = 0 /\ Idle.buf = 0
    BY DEF Idle
  <2> QED BY <1>1, <1>2, <2>1
<1>10. /\ \A i \in DOMAIN outCh : outCh[i].buf # buf
       /\ \A c \in holding : c.buf # buf
       /\ \A b \in pool : b # buf
       /\ \A v \in Worker : v # w => busy[v].buf # buf
  BY <1>5 DEF PlannerInv, OnePlace, buf
<1>11. \A c : Tells(c, Asked, buffers) /\ c.buf # buf => Tells(c, Asked, buffers')
  <2> SUFFICES ASSUME NEW c, Tells(c, Asked, buffers), c.buf # buf PROVE Tells(c, Asked, buffers')
    OBVIOUS
  <2>1. ~c.err => c.buf \in DOMAIN buffers
    BY DEF Tells
  <2> QED BY <1>6, <2>1 DEF Tells
<1>12. Tells(new, Asked, buffers')
  BY <1>3, <1>4, <1>5, <1>6 DEF Tells
<1>13. PlannerKinds'
  <2>1. \A i \in DOMAIN outCh' : Tells(outCh'[i], Asked, buffers')
    BY <1>8, <1>10, <1>11, <1>12 DEF PlannerInv, PlannerKinds
  <2>2. \A c \in holding : Tells(c, Asked, buffers')
    BY <1>10, <1>11 DEF PlannerInv, PlannerKinds
  <2>3. \A v \in Worker : \/ busy'[v] \in {Idle, Gone}
                          \/ busy'[v].tag \in Asked \ Large /\ busy'[v].buf \in DOMAIN buffers'
    BY <1>6, <1>9 DEF PlannerInv, PlannerKinds
  <2> QED BY <1>1, <1>2, <1>6, <1>7, <1>8, <1>9, <2>1, <2>2, <2>3 DEF PlannerInv, PlannerKinds
<1>14. OnePlace'
  <2>1. \A u, v \in Worker : u # v /\ busy'[u].buf # 0 => busy'[u].buf # busy'[v].buf
    BY <1>9 DEF PlannerInv, OnePlace
  <2>2. \A i, j \in DOMAIN outCh' : i # j /\ outCh'[i].buf # 0 => outCh'[i].buf # outCh'[j].buf
    BY <1>4, <1>8, <1>10 DEF PlannerInv, OnePlace
  <2>3. \A v \in Worker, i \in DOMAIN outCh' : busy'[v].buf # 0 => busy'[v].buf # outCh'[i].buf
    BY <1>4, <1>8, <1>9, <1>10 DEF PlannerInv, OnePlace
  <2>4. \A v \in Worker, c \in holding : busy'[v].buf # 0 => busy'[v].buf # c.buf
    BY <1>9 DEF PlannerInv, OnePlace
  <2>5. \A i \in DOMAIN outCh', c \in holding : outCh'[i].buf # 0 => outCh'[i].buf # c.buf
    BY <1>4, <1>8, <1>10 DEF PlannerInv, OnePlace
  <2>6. \A b \in pool : b # 0
    BY <1>2, SeqParts DEF PlannerInv, PlannerKinds
  <2>7. \A b \in pool : /\ \A v \in Worker : busy'[v].buf # b
                        /\ \A i \in DOMAIN outCh' : outCh'[i].buf # b
                        /\ \A c \in holding : c.buf # b
    BY <1>4, <1>8, <1>9, <1>10, <2>6 DEF PlannerInv, OnePlace
  <2> QED BY <1>1, <2>1, <2>2, <2>3, <2>4, <2>5, <2>7 DEF PlannerInv, OnePlace
<1>15. ASSUME NEW t \in Asked' PROVE Somewhere(t)'
  <2>1. Somewhere(t)
    BY <1>2 DEF PlannerInv
  <2>2. ASSUME NEW v \in Worker, busy[v].tag = t
        PROVE  (\E u \in Worker : busy'[u].tag = t) \/ \E i \in DOMAIN outCh' : outCh'[i].tag = t
    <3>1. CASE v = w
      BY <1>4, <1>8, <2>2, <3>1 DEF tag
    <3>2. CASE v # w
      BY <1>9, <2>2, <3>2
    <3> QED BY <3>1, <3>2
  <2>3. \A i \in DOMAIN outCh : i \in DOMAIN outCh' /\ outCh'[i] = outCh[i]
    BY <1>8
  <2> QED BY <1>1, <2>1, <2>2, <2>3 DEF Somewhere
<1>16. Counted'
  <2>1. Engaged' = Engaged \ {w} /\ w \in Engaged
    <3>1. \A v \in Worker : busy'[v].tag > 0 <=> v # w /\ busy[v].tag > 0
      BY <1>9
    <3> QED BY <1>5, <3>1 DEF Engaged, tag
  <2>2. PICK k \in Nat : k = Cardinality(Engaged)
    BY EngagedCount
  <2>3. Cardinality(Engaged') = k - 1
    <3>1. \A S : S = Engaged => Cardinality(S \ {w}) = k - 1
      BY <2>1, <2>2, EngagedCount, FS_RemoveElement
    <3> QED BY <2>1, <3>1
  <2>4. inflight = Len(reqCh) + Len(outCh) + k /\ Outstanding <= MaxOutstanding
    BY <2>2 DEF PlannerInv, Counted
  <2>5. Len(reqCh) \in Nat
    BY SeqParts DEF PlannerInv, PlannerKinds
  <2>6. inflight' = Len(reqCh') + Len(outCh') + Cardinality(Engaged')
    BY <1>1, <1>8, <2>3, <2>4, <2>5
  <2>7. Outstanding' = Outstanding
    BY <1>1 DEF Outstanding
  <2> QED BY <2>4, <2>6, <2>7 DEF Counted
<1>17. ClosedLate'
  <2>1. Idle # Gone
    <3>1. Idle.tag # Gone.tag
      BY DEF Idle, Gone
    <3> QED BY <3>1
  <2> QED BY <1>1, <1>9, <2>1 DEF PlannerInv, ClosedLate
<1> QED BY <1>13, <1>14, <1>15, <1>16, <1>17 DEF PlannerInv

\* Every step keeps the invariant.
LEMMA PlannerNextInv == PlannerInv /\ [PlannerNext]_plannerVars => PlannerInv'
<1> SUFFICES ASSUME PlannerInv, [PlannerNext]_plannerVars PROVE PlannerInv'
  OBVIOUS
<1>1. ASSUME UNCHANGED plannerVars PROVE PlannerInv'
  <2>1. UNCHANGED <<batch, issued, reqCh, busy, outCh, inflight, holding, answers, buffers, pool, closed>>
    BY <1>1 DEF plannerVars
  <2>2. Asked' = Asked /\ Engaged' = Engaged /\ Outstanding' = Outstanding
    BY <2>1 DEF Asked, Engaged, Outstanding
  <2>3. PlannerKinds'
    BY <2>1, <2>2 DEF PlannerInv, PlannerKinds
  <2>4. OnePlace'
    BY <2>1 DEF PlannerInv, OnePlace
  <2>5. ASSUME NEW t \in Asked' PROVE Somewhere(t)'
    <3>1. Somewhere(t)
      BY <2>2 DEF PlannerInv
    <3> QED BY <2>1, <3>1 DEF Somewhere
  <2>6. Counted' /\ ClosedLate'
    BY <2>1, <2>2 DEF PlannerInv, Counted, ClosedLate
  <2> QED BY <2>3, <2>4, <2>5, <2>6 DEF PlannerInv
<1>2. ASSUME Work PROVE PlannerInv'
  BY <1>2, IssueKeeps, NextKeeps, ReleaseKeeps, TakeKeeps, ReadKeeps DEF Work
<1> QED BY <1>1, <1>2, NewBatchKeeps, CloseKeeps DEF PlannerNext

\* A worker's buffers are as many as the workers that have one.
LEMMA BuffersApart ==
  PlannerInv => Cardinality(Reading) = Cardinality({w \in Worker : busy[w].buf # 0})
<1> SUFFICES ASSUME PlannerInv PROVE Cardinality(Reading) = Cardinality({w \in Worker : busy[w].buf # 0})
  OBVIOUS
<1> DEFINE W == {w \in Worker : busy[w].buf # 0}
           f == [w \in W |-> busy[w].buf]
<1>1. IsFiniteSet(W)
  BY EngagedCount
<1>2. \A w \in W : f[w] \in Reading
  BY DEF Reading
<1>3. \A b \in Reading : \E w \in W : f[w] = b
  BY DEF Reading
<1>4. \A v, w \in W : f[v] = f[w] => v = w
  BY DEF PlannerInv, OnePlace
<1>5. f \in [W -> Reading]
  BY <1>2
<1> HIDE DEF W, f
<1>6. ExistsBijection(W, Reading)
  <2>1. f \in Bijection(W, Reading)
    BY <1>3, <1>4, <1>5 DEF Bijection, Injection, Surjection, IsInjective
  <2> QED BY <2>1 DEF ExistsBijection
<1> QED BY <1>1, <1>6, FS_Bijection DEF W

\* While a read is under way, the query or a worker has what it waits for.
LEMMA PlannerCanWork == PlannerInv /\ Underway => CanWork
<1> SUFFICES ASSUME PlannerInv, Underway, holding = {} PROVE CanWork
  BY DEF CanWork
<1>1. /\ IsSeq(batch) /\ IsSeq(reqCh) /\ IsSeq(outCh) /\ inflight \in Nat
      /\ MaxOutstanding \in Nat \ {0} /\ Depth \in Nat \ {0}
  BY PlannerAssumption DEF PlannerInv, PlannerKinds
<1>2. /\ Len(batch) \in Nat /\ (batch = <<>> <=> Len(batch) = 0)
      /\ Len(reqCh) \in Nat /\ (reqCh = <<>> <=> Len(reqCh) = 0)
      /\ Len(outCh) \in Nat /\ (outCh = <<>> <=> Len(outCh) = 0)
  BY <1>1, SeqParts
<1>3. PICK k \in Nat : k = Cardinality(Engaged)
  BY EngagedCount
<1>4. inflight = Len(reqCh) + Len(outCh) + k /\ inflight + Len(batch) <= MaxOutstanding
  BY <1>3 DEF PlannerInv, Counted, Outstanding
<1>5. inflight + Len(batch) > 0
  BY DEF Underway, Outstanding
<1>6. CASE batch # <<>>
  <2>1. Len(reqCh) < MaxOutstanding /\ Len(outCh) < MaxOutstanding
    BY <1>1, <1>2, <1>4, <1>6
  <2> QED BY <1>6, <2>1 DEF CanWork, CanIssue
<1>7. CASE batch = <<>> /\ outCh # <<>>
  BY <1>1, <1>2, <1>5, <1>7 DEF CanWork, CanNext
<1>8. CASE batch = <<>> /\ outCh = <<>> /\ Engaged # {}
  <2>1. PICK w \in Worker : busy[w].tag > 0
    BY <1>8 DEF Engaged
  <2>2. busy[w] \notin {Idle, Gone}
    BY <2>1 DEF Idle, Gone
  <2>3. Len(outCh) < MaxOutstanding
    BY <1>1, <1>2, <1>8
  <2> QED BY <2>2, <2>3 DEF CanWork, CanRead
<1>9. CASE batch = <<>> /\ outCh = <<>> /\ Engaged = {}
  <2>1. k = 0
    BY <1>3, <1>9, FS_EmptySet
  <2>2. reqCh # <<>>
    BY <1>1, <1>2, <1>4, <1>5, <1>9, <2>1
  <2>3. 1 \in Worker
    BY <1>1 DEF Worker
  <2>4. ~closed
    BY <1>1, <1>2, <1>5, <1>9 DEF PlannerInv, ClosedLate
  <2>5. busy[1] # Gone
    BY <2>3, <2>4 DEF PlannerInv, ClosedLate
  <2>6. busy[1] = Idle
    <3> SUFFICES ASSUME busy[1] # Idle PROVE FALSE
      OBVIOUS
    <3>1. busy[1].tag \in Asked /\ issued \in Nat
      BY <2>3, <2>5 DEF PlannerInv, PlannerKinds
    <3>2. busy[1].tag > 0
      BY <3>1 DEF Asked
    <3> QED BY <1>9, <2>3, <3>2 DEF Engaged
  <2> QED BY <2>2, <2>3, <2>6 DEF CanWork, CanTake
<1> QED BY <1>6, <1>7, <1>8, <1>9

\* What the invariant says of the reads.
LEMMA PlannerReads == PlannerInv => ReadsHold
<1> SUFFICES ASSUME PlannerInv PROVE ReadsHold
  OBVIOUS
<1>1. /\ IsSeq(batch) /\ IsSeq(reqCh) /\ IsSeq(outCh) /\ inflight \in Nat /\ issued \in Nat
      /\ Len(batch) \in Nat /\ (batch = <<>> <=> Len(batch) = 0)
      /\ Len(reqCh) \in Nat /\ (reqCh = <<>> <=> Len(reqCh) = 0)
      /\ Len(outCh) \in Nat /\ (outCh = <<>> <=> Len(outCh) = 0)
  BY SeqParts DEF PlannerInv, PlannerKinds
<1>2. PICK k \in Nat : k = Cardinality(Engaged)
  BY EngagedCount
<1>3. inflight = Len(reqCh) + Len(outCh) + k
  BY <1>2 DEF PlannerInv, Counted
<1>4. Outstanding = Len(batch) + Len(reqCh) + Len(outCh) + Cardinality({w \in Worker : busy[w].tag > 0})
  <2>1. k = Cardinality({w \in Worker : busy[w].tag > 0})
    BY <1>2 DEF Engaged
  <2>2. Outstanding = Len(batch) + Len(reqCh) + Len(outCh) + k
    BY <1>1, <1>3 DEF Outstanding
  <2> QED BY <2>1, <2>2
<1>5. \A t \in DOMAIN answers : answers[t] = IF t \in Large \cup Broken THEN 0 ELSE t
  BY DEF PlannerInv, PlannerKinds
<1>6. \A c \in holding : ~c.err => buffers[c.buf] = c.tag
  BY DEF PlannerInv, PlannerKinds, Tells
<1>7. \A i, j \in DOMAIN Places : i # j => Places[i] \cap Places[j] = {}
  <2>1. pool \cap Decoding = {}
    BY DEF Decoding, PlannerInv, OnePlace
  <2>2. pool \cap Reading = {}
    BY DEF Reading, PlannerInv, OnePlace
  <2>3. pool \cap Queued = {}
    BY DEF Queued, PlannerInv, OnePlace
  <2>4. Decoding \cap Reading = {}
    BY DEF Decoding, Reading, PlannerInv, OnePlace
  <2>5. Decoding \cap Queued = {}
    BY DEF Decoding, Queued, PlannerInv, OnePlace
  <2>6. Reading \cap Queued = {}
    BY DEF Reading, Queued, PlannerInv, OnePlace
  <2>7. /\ DOMAIN Places = {1, 2, 3, 4} /\ Places[1] = pool /\ Places[2] = Decoding
        /\ Places[3] = Reading /\ Places[4] = Queued
    BY DEF Places
  <2> QED BY <2>1, <2>2, <2>3, <2>4, <2>5, <2>6, <2>7
<1>8. ASSUME ~Underway PROVE DOMAIN answers = 1 .. issued
  <2>1. inflight + Len(batch) <= 0 /\ holding = {}
    BY <1>1, <1>8 DEF Underway, Outstanding
  <2>2. batch = <<>> /\ reqCh = <<>> /\ outCh = <<>> /\ k = 0
    BY <1>1, <1>3, <2>1
  <2>3. Engaged = {}
    BY <1>2, <2>2, EngagedCount, FS_EmptySet
  <2>4. ASSUME NEW t \in Asked PROVE t \in DOMAIN answers
    <3>1. Somewhere(t) /\ t > 0
      <4>1. Somewhere(t)
        BY DEF PlannerInv
      <4> QED BY <1>1, <4>1 DEF Asked
    <3>2. \A w \in Worker : busy[w].tag # t
      BY <2>3, <3>1 DEF Engaged
    <3>3. DOMAIN <<>> = {}
      OBVIOUS
    <3> QED BY <2>1, <2>2, <3>1, <3>2, <3>3 DEF Somewhere
  <2>5. \A t \in DOMAIN answers : t \in Asked
    BY DEF PlannerInv, PlannerKinds
  <2> QED BY <2>4, <2>5 DEF Asked
<1> QED BY <1>4, <1>5, <1>6, <1>7, <1>8, BuffersApart DEF ReadsHold

\* EachReadOnce for any number of workers and blocks and any bound on the channels: every
\* block comes back with its own bytes or its error, no buffer is in two places, the count
\* of reads in flight is what is under way, and until nothing is, somebody can move.
THEOREM EachReadOnceAlways == PlannerSpec => []EachReadOnce
<1>1. PlannerIdle => PlannerInv
  BY PlannerInitInv
<1>2. PlannerInv /\ [PlannerNext]_plannerVars => PlannerInv'
  BY PlannerNextInv
<1>3. PlannerInv => EachReadOnce
  BY PlannerReads, PlannerCanWork DEF EachReadOnce
<1> QED BY <1>1, <1>2, <1>3, PTL DEF PlannerSpec

-----------------------------------------------------------------------------
(***************************************************************************)
(* The documents of a shard. Every docid lies in one block and in one bit  *)
(* of a bitset, and a band holds what it was sealed from; so each document *)
(* reads itself back, and a mount excludes exactly what the deltas were    *)
(* told to delete.                                                         *)
(***************************************************************************)

\* n things by w: the last of c parts begins below n, and they hold them all.
LEMMA PartsOf ==
  ASSUME NEW w \in Nat, w > 0, NEW n \in Nat, n > 0, NEW c, c = (n + w - 1) \div w
  PROVE  /\ c \in Nat /\ c >= 1 /\ (c - 1) * w < n /\ n <= c * w
         /\ \A b \in 1 .. c : (b - 1) * w \in Nat /\ b * w = (b - 1) * w + w /\ (b - 1) * w < n
         /\ \A b \in 1 .. c : b < c => b * w < n
<1> DEFINE x == n + w - 1
           m == x % w
<1>1. c \in Int /\ m \in Int /\ 0 <= m /\ m < w /\ x = w * c + m
  OBVIOUS
<1>2. w * c = n + w - 1 - m
  BY <1>1
<1> HIDE DEF m, x
<1>3. w * c >= n /\ w * c < n + w
  BY <1>1, <1>2
<1>4. c >= 1
  <2>1. CASE c <= 0
    <3>1. w * c <= 0
      BY <1>1, <2>1
    <3> QED BY <1>1, <1>3, <3>1
  <2> QED BY <1>1, <2>1
<1>5. c \in Nat /\ (c - 1) * w = w * c - w /\ c * w = w * c
  BY <1>1, <1>4
<1>6. (c - 1) * w < n /\ n <= c * w
  BY <1>1, <1>3, <1>5
<1>7. ASSUME NEW b \in 1 .. c
      PROVE  (b - 1) * w \in Nat /\ b * w = (b - 1) * w + w /\ (b - 1) * w <= (c - 1) * w
  <2>1. b - 1 \in Nat /\ c - 1 \in Nat /\ b - 1 <= c - 1
    BY <1>5
  <2>2. (c - 1) * w = (b - 1) * w + (c - b) * w /\ (c - b) * w >= 0 /\ c - b \in Nat
    BY <1>5, <2>1
  <2> QED BY <1>5, <2>1, <2>2
<1>8. ASSUME NEW b \in 1 .. c PROVE (b - 1) * w < n
  <2>1. (b - 1) * w \in Nat /\ (c - 1) * w \in Int
    BY <1>5, <1>7
  <2> QED BY <1>6, <1>7, <2>1
<1>9. ASSUME NEW b \in 1 .. c, b < c PROVE b * w < n
  <2>1. b + 1 \in 1 .. c /\ (b + 1) - 1 = b
    BY <1>5, <1>9
  <2>2. ((b + 1) - 1) * w < n
    BY <1>8, <2>1
  <2> QED BY <2>1, <2>2
<1> QED BY <1>4, <1>5, <1>6, <1>7, <1>8, <1>9

\* A number below n is in one part, at one place of it.
LEMMA PlaceOf ==
  ASSUME NEW w \in Nat, w > 0, NEW n \in Nat, NEW d \in 0 .. n - 1, NEW c, c = (n + w - 1) \div w
  PROVE  /\ d \div w \in Nat /\ d % w \in 0 .. w - 1 /\ d = (d \div w) * w + (d % w)
         /\ d \div w + 1 \in 1 .. c
<1> DEFINE q == d \div w
           r == d % w
<1>1. q \in Int /\ r \in Int /\ 0 <= r /\ r < w /\ d = w * q + r /\ d \in Nat /\ n > 0
  OBVIOUS
<1>2. c \in Nat /\ n <= c * w
  BY <1>1, PartsOf
<1> HIDE DEF q, r
<1>3. q >= 0
  <2>1. CASE q <= -1
    <3>1. w * q <= w * (-1)
      BY <1>1, <2>1
    <3>2. w * q <= -w
      BY <1>1, <3>1
    <3> QED BY <1>1, <3>2
  <2> QED BY <1>1, <2>1
<1>4. q < c
  <2>1. CASE q >= c
    <3>1. w * q >= w * c
      BY <1>1, <1>2, <2>1
    <3>2. w * c = c * w
      BY <1>2
    <3> QED BY <1>1, <1>2, <3>1, <3>2
  <2> QED BY <1>1, <1>2, <2>1
<1>5. w * q = q * w
  BY <1>1
<1> QED BY <1>1, <1>2, <1>3, <1>4, <1>5 DEF q, r

\* The place tells the number.
LEMMA PlaceBack ==
  ASSUME NEW w \in Nat, w > 0, NEW q \in Nat, NEW r \in 0 .. w - 1
  PROVE  (q * w + r) % w = r /\ (q * w + r) \div w = q /\ q * w + r \in Nat
<1>1. q * w = w * q /\ q * w \in Nat /\ q \in Int /\ r \in Int /\ 0 <= r /\ r < w
  OBVIOUS
<1>2. (w * q + r) % w = r /\ (w * q + r) \div w = q
  BY <1>1, DivUnique
<1> QED BY <1>1, <1>2

\* A sequence is over its own elements.
LEMMA OwnSeq == ASSUME NEW S, NEW s \in Seq(S) PROVE IsSeq(s)
<1>1. s \in [1 .. Len(s) -> {s[i] : i \in DOMAIN s}] /\ Len(s) \in Nat
  BY LenProperties
<1> QED BY <1>1, SeqDef DEF IsSeq

\* A function over the first n positions is a sequence.
LEMMA FunSeq ==
  ASSUME NEW n \in Nat, NEW f, f = [i \in 1 .. n |-> f[i]]
  PROVE  IsSeq(f) /\ Len(f) = n
<1>1. f \in [1 .. n -> {f[i] : i \in DOMAIN f}]
  OBVIOUS
<1>2. f \in Seq({f[i] : i \in DOMAIN f})
  BY <1>1, SeqDef
<1>3. Len(f) = n
  BY <1>1, <1>2, LenProperties
<1> QED BY <1>2, <1>3 DEF IsSeq

\* A part of a sequence.
LEMMA Cut ==
  ASSUME NEW s, IsSeq(s), NEW m \in Nat, NEW n \in Nat, m >= 1, n <= Len(s)
  PROVE  /\ IsSeq(SubSeq(s, m, n))
         /\ Len(SubSeq(s, m, n)) = IF m <= n THEN n - m + 1 ELSE 0
         /\ \A i \in 1 .. n - m + 1 : SubSeq(s, m, n)[i] = s[m + i - 1]
<1> DEFINE S == {s[i] : i \in DOMAIN s}
<1>1. s \in Seq(S) /\ Len(s) \in Nat /\ DOMAIN s = 1 .. Len(s)
  BY SeqParts DEF IsSeq
<1>2. \A i \in m .. n : s[i] \in S
  BY <1>1
<1>3. m \in Int /\ n \in Int
  OBVIOUS
<1> HIDE DEF S
<1>4. /\ SubSeq(s, m, n) \in Seq(S)
      /\ Len(SubSeq(s, m, n)) = IF m <= n THEN n - m + 1 ELSE 0
      /\ \A i \in 1 .. n - m + 1 : SubSeq(s, m, n)[i] = s[m + i - 1]
  BY <1>2, <1>3, SubSeqProperties
<1> QED BY <1>4, OwnSeq

\* Two sequences end to end, and the second one cut out again.
LEMMA Joined ==
  ASSUME NEW s, IsSeq(s), NEW t, IsSeq(t)
  PROVE  /\ IsSeq(s \o t) /\ Len(s \o t) = Len(s) + Len(t)
         /\ \A i \in 1 .. Len(s) : (s \o t)[i] = s[i]
         /\ \A i \in 1 .. Len(t) : (s \o t)[Len(s) + i] = t[i]
         /\ SubSeq(s \o t, Len(s) + 1, Len(s) + Len(t)) = t
<1> DEFINE S == {s[i] : i \in DOMAIN s} \cup {t[i] : i \in DOMAIN t}
           g == s \o t
           c == SubSeq(g, Len(s) + 1, Len(s) + Len(t))
<1>1. /\ s \in Seq(S) /\ t \in Seq(S) /\ Len(s) \in Nat /\ Len(t) \in Nat
  BY SeqParts, SeqWider DEF IsSeq
<1> HIDE DEF S
<1>2. /\ g \in Seq(S) /\ Len(g) = Len(s) + Len(t)
      /\ \A i \in 1 .. Len(s) + Len(t) : g[i] = IF i <= Len(s) THEN s[i] ELSE t[i - Len(s)]
  BY <1>1, ConcatProperties
<1> HIDE DEF g
<1>3. IsSeq(g)
  BY <1>2, OwnSeq
<1>4. /\ IsSeq(c) /\ Len(c) = Len(t)
      /\ \A i \in 1 .. Len(t) : c[i] = g[Len(s) + i]
  <2>1. Len(s) + 1 \in Nat /\ Len(s) + Len(t) \in Nat /\ Len(s) + 1 >= 1 /\ Len(s) + Len(t) <= Len(g)
    BY <1>1, <1>2
  <2>2. /\ IsSeq(c)
        /\ Len(c) = IF Len(s) + 1 <= Len(s) + Len(t) THEN (Len(s) + Len(t)) - (Len(s) + 1) + 1 ELSE 0
        /\ \A i \in 1 .. (Len(s) + Len(t)) - (Len(s) + 1) + 1 : c[i] = g[(Len(s) + 1) + i - 1]
    BY <1>3, <2>1, Cut
  <2> HIDE DEF c
  <2> QED BY <1>1, <2>2
<1>5. \A i \in 1 .. Len(t) : c[i] = t[i] /\ g[Len(s) + i] = t[i]
  <2> SUFFICES ASSUME NEW i \in 1 .. Len(t) PROVE c[i] = t[i] /\ g[Len(s) + i] = t[i]
    OBVIOUS
  <2>1. Len(s) + i \in 1 .. Len(s) + Len(t) /\ ~ Len(s) + i <= Len(s) /\ (Len(s) + i) - Len(s) = i
    BY <1>1
  <2>2. c[i] = g[Len(s) + i]
    BY <1>4
  <2>3. g[Len(s) + i] = t[(Len(s) + i) - Len(s)]
    BY <1>2, <2>1
  <2> HIDE DEF c
  <2> QED BY <2>1, <2>2, <2>3
<1> HIDE DEF c
<1>6. c = t
  <2>1. DOMAIN c = 1 .. Len(c) /\ DOMAIN t = 1 .. Len(t) /\ c = [i \in DOMAIN c |-> c[i]] /\ t = [i \in DOMAIN t |-> t[i]]
    BY <1>4, SeqParts DEF IsSeq
  <2> QED BY <1>4, <1>5, <2>1
<1> QED BY <1>1, <1>2, <1>3, <1>5, <1>6 DEF c, g

\* The dictionary is a sequence.
LEMMA DictIs ==
  ASSUME DocsAssumption, NEW recs, IsSeq(recs)
  PROVE  IsSeq(TrainDict(recs)) /\ Len(TrainDict(recs)) \in Nat
<1> DEFINE n == Len(recs)
           stride == IF n \div DictSamples > 1 THEN n \div DictSamples ELSE 1
           m == (n + stride - 1) \div stride
           joined == [k \in 1 .. m |-> recs[(k - 1) * stride + 1]]
           k == IF Len(joined) < DictMaxSize THEN Len(joined) ELSE DictMaxSize
           d == TrainDict(recs)
<1>1. n \in Nat
  BY SeqParts
<1>2. stride \in Nat /\ stride > 0
  <2>1. n \div DictSamples \in Int
    BY <1>1 DEF DocsAssumption
  <2> QED BY <2>1
<1>3. m \in Nat
  <2>1. CASE n = 0
    <3>1. (stride * 0 + (stride - 1)) \div stride = 0
      <4>1. 0 \in Int /\ stride - 1 \in Int /\ 0 <= stride - 1 /\ stride - 1 < stride
        BY <1>2
      <4> HIDE DEF stride
      <4> QED BY <1>2, <4>1, DivUnique
    <3>2. stride * 0 + (stride - 1) = n + stride - 1
      BY <1>2, <2>1
    <3> QED BY <3>1, <3>2
  <2>2. CASE n > 0
    <3>1. \A c : c = (n + stride - 1) \div stride => c \in Nat
      <4> HIDE DEF stride, n
      <4> QED BY <1>1, <1>2, <2>2, PartsOf
    <3> QED BY <3>1
  <2> QED BY <1>1, <2>1, <2>2
<1>4. d = IF n < DictMinSamples THEN <<>> ELSE SubSeq(joined, 1, k)
  BY DEF TrainDict
<1> HIDE DEF m, n, stride, d
<1>5. IsSeq(joined) /\ Len(joined) = m
  <2>1. joined = [i \in 1 .. m |-> joined[i]]
    OBVIOUS
  <2> HIDE DEF joined
  <2> QED BY <1>3, <2>1, FunSeq
<1> HIDE DEF joined
<1>6. k \in Nat /\ k <= Len(joined)
  BY <1>3, <1>5 DEF DocsAssumption
<1> HIDE DEF k
<1>7. IsSeq(SubSeq(joined, 1, k))
  <2>1. 1 \in Nat /\ 1 >= 1
    OBVIOUS
  <2> QED BY <1>5, <1>6, <2>1, Cut
<1>8. IsSeq(d)
  <2>1. IsSeq(<<>>)
    BY DEF IsSeq
  <2> QED BY <1>4, <1>7, <2>1
<1> QED BY <1>8, SeqParts DEF d

\* What a sealed band is: its blocks, each at its offset, and the dictionary behind them.
LEMMA SealedIs ==
  ASSUME DocsAssumption, NEW recs, IsSeq(recs), recs # <<>>, NEW b, b = SealDocs(recs)
  PROVE  /\ b.ndocs = Len(recs) /\ b.nblocks = NBlocks(Len(recs)) /\ b.dictOff = b.nblocks
         /\ b.nblocks \in Nat /\ b.dictLen \in Nat /\ Len(b.data) = b.dictOff + b.dictLen
         /\ \A i \in 1 .. b.nblocks : /\ b.offs[i] = i - 1
                                      /\ b.data[i] = Compress(RawBlock(recs, i), TrainDict(recs))
         /\ SubSeq(b.data, b.dictOff + 1, b.dictOff + b.dictLen) = TrainDict(recs)
<1> DEFINE d == TrainDict(recs)
           c == NBlocks(Len(recs))
           blocks == [i \in 1 .. c |-> Compress(RawBlock(recs, i), d)]
<1>1. Len(recs) \in Nat /\ Len(recs) > 0
  BY SeqParts
<1>2. c \in Nat
  <2>1. DocBlockDocs \in Nat /\ DocBlockDocs > 0
    BY DEF DocsAssumption
  <2>2. \A w, n \in Nat : w > 0 /\ n > 0 => (n + w - 1) \div w \in Nat
    <3> SUFFICES ASSUME NEW w \in Nat, NEW n \in Nat, w > 0, n > 0 PROVE (n + w - 1) \div w \in Nat
      OBVIOUS
    <3>1. \A e : e = (n + w - 1) \div w => e \in Nat
      BY PartsOf
    <3> QED BY <3>1
  <2> QED BY <1>1, <2>1, <2>2 DEF NBlocks
<1>3. IsSeq(d) /\ Len(d) \in Nat
  BY DictIs
<1>4. b = [data |-> blocks \o d, offs |-> [i \in 1 .. Len(blocks) |-> i - 1],
           dictOff |-> Len(blocks), dictLen |-> Len(d), nblocks |-> Len(blocks), ndocs |-> Len(recs)]
  BY DEF SealDocs
<1> HIDE DEF d, c
<1>5. IsSeq(blocks) /\ Len(blocks) = c /\ \A i \in 1 .. c : blocks[i] = Compress(RawBlock(recs, i), d)
  <2>1. blocks = [i \in 1 .. c |-> blocks[i]] /\ \A i \in 1 .. c : blocks[i] = Compress(RawBlock(recs, i), d)
    OBVIOUS
  <2> HIDE DEF blocks
  <2> QED BY <1>2, <2>1, FunSeq
<1> HIDE DEF blocks
<1>6. /\ Len(blocks \o d) = c + Len(d)
      /\ \A i \in 1 .. c : (blocks \o d)[i] = blocks[i]
      /\ SubSeq(blocks \o d, c + 1, c + Len(d)) = d
  BY <1>3, <1>5, Joined
<1>7. /\ b.ndocs = Len(recs) /\ b.nblocks = c /\ b.dictOff = c /\ b.dictLen = Len(d)
      /\ b.data = blocks \o d /\ b.offs = [i \in 1 .. c |-> i - 1]
  BY <1>4, <1>5
<1>8. \A i \in 1 .. c : b.offs[i] = i - 1 /\ b.data[i] = Compress(RawBlock(recs, i), d)
  BY <1>5, <1>6, <1>7
<1> QED BY <1>2, <1>3, <1>6, <1>7, <1>8 DEF d, c

\* The blocks of a band, by the docids they begin at.
LEMMA BlocksAre ==
  ASSUME DocsAssumption, NEW recs, IsSeq(recs), recs # <<>>
  PROVE  /\ DocBlockDocs \in Nat /\ DocBlockDocs > 0 /\ Len(recs) \in Nat /\ Len(recs) > 0
         /\ NBlocks(Len(recs)) \in Nat /\ NBlocks(Len(recs)) >= 1
         /\ \A b \in 1 .. NBlocks(Len(recs)) :
              /\ (b - 1) * DocBlockDocs \in Nat /\ (b - 1) * DocBlockDocs < Len(recs)
              /\ b * DocBlockDocs = (b - 1) * DocBlockDocs + DocBlockDocs
<1> DEFINE n == Len(recs)
           w == DocBlockDocs
           c == NBlocks(Len(recs))
<1>1. n \in Nat /\ n > 0 /\ w \in Nat /\ w > 0
  BY SeqParts DEF DocsAssumption
<1>2. c = (n + w - 1) \div w
  BY DEF NBlocks
<1> HIDE DEF n, w, c
<1>3. /\ c \in Nat /\ c >= 1
      /\ \A b \in 1 .. c : (b - 1) * w \in Nat /\ b * w = (b - 1) * w + w /\ (b - 1) * w < n
  <2>1. \A e : e = (n + w - 1) \div w =>
          /\ e \in Nat /\ e >= 1
          /\ \A b \in 1 .. e : (b - 1) * w \in Nat /\ b * w = (b - 1) * w + w /\ (b - 1) * w < n
    BY <1>1, PartsOf
  <2> QED BY <1>2, <2>1
<1> QED BY <1>1, <1>3 DEF n, w, c

\* A docid reads its own record.
LEMMA RecordIs ==
  ASSUME DocsAssumption, NEW recs, IsSeq(recs), recs # <<>>, NEW docid \in 0 .. Len(recs) - 1
  PROVE  DocRecord(SealDocs(recs), docid) = [ok |-> TRUE, rec |-> recs[docid + 1]]
<1> DEFINE n == Len(recs)
           w == DocBlockDocs
           blk == docid \div w
           at == docid % w
           b == SealDocs(recs)
           cells == RawBlock(recs, blk + 1)
           left == n - blk * w
           nrecs == IF left < w THEN left ELSE w
<1>1. n \in Nat /\ n > 0 /\ w \in Nat /\ w > 0 /\ docid \in 0 .. n - 1
  BY BlocksAre
<1>2. /\ blk \in Nat /\ at \in 0 .. w - 1 /\ docid = blk * w + at /\ blk + 1 \in 1 .. NBlocks(n)
  <2>1. \A e : e = (n + w - 1) \div w => /\ blk \in Nat /\ at \in 0 .. w - 1 /\ docid = blk * w + at
                                         /\ blk + 1 \in 1 .. e
    <3> HIDE DEF n, w
    <3> QED BY <1>1, PlaceOf
  <2> QED BY <2>1 DEF NBlocks
<1>3. blk * w \in Nat /\ blk * w < n /\ (blk + 1) * w = blk * w + w
  <2>1. ((blk + 1) - 1) * w \in Nat /\ ((blk + 1) - 1) * w < n /\ (blk + 1) * w = ((blk + 1) - 1) * w + w
    <3> HIDE DEF blk
    <3> QED BY <1>2, BlocksAre
  <2>2. (blk + 1) - 1 = blk
    BY <1>2
  <2> QED BY <2>1, <2>2
<1>4. b.data[b.offs[blk + 1] + 1] = Compress(cells, TrainDict(recs))
  <2>1. /\ b.nblocks = NBlocks(n)
        /\ \A i \in 1 .. b.nblocks : /\ b.offs[i] = i - 1
                                     /\ b.data[i] = Compress(RawBlock(recs, i), TrainDict(recs))
    <3> HIDE DEF b
    <3>1. b = SealDocs(recs)
      BY DEF b
    <3> QED BY <3>1, SealedIs
  <2> HIDE DEF b, blk, n
  <2>2. b.offs[blk + 1] = (blk + 1) - 1 /\ b.offs[blk + 1] + 1 = blk + 1
    <3>1. blk \in Nat /\ blk + 1 \in 1 .. b.nblocks
      BY <1>2, <2>1
    <3>2. b.offs[blk + 1] = (blk + 1) - 1
      BY <2>1, <3>1
    <3> QED BY <3>1, <3>2
  <2> QED BY <1>2, <2>1, <2>2
<1>5. SubSeq(b.data, b.dictOff + 1, b.dictOff + b.dictLen) = TrainDict(recs) /\ b.ndocs = n
  <2> HIDE DEF b
  <2>1. b = SealDocs(recs)
    BY DEF b
  <2> QED BY <2>1, SealedIs
<1>6. Decompress(b.data[b.offs[blk + 1] + 1], SubSeq(b.data, b.dictOff + 1, b.dictOff + b.dictLen)) = cells
  BY <1>4, <1>5 DEF Compress, Decompress
<1>7. Len(cells) = nrecs /\ cells[at + 1] = recs[docid + 1]
  <2> DEFINE from == blk * w + 1
             to == IF (blk + 1) * w < n THEN (blk + 1) * w ELSE n
  <2>1. cells = SubSeq(recs, ((blk + 1) - 1) * w + 1, to) /\ (blk + 1) - 1 = blk
    BY <1>2 DEF RawBlock
  <2>2. cells = SubSeq(recs, from, to)
    BY <2>1
  <2> HIDE DEF cells, blk, at, w, n
  <2>3. /\ from \in Nat /\ from >= 1 /\ to \in Nat /\ to <= n /\ from <= to /\ nrecs = to - from + 1
        /\ at + 1 \in 1 .. to - from + 1 /\ from + (at + 1) - 1 = docid + 1
    BY <1>1, <1>2, <1>3
  <2> HIDE DEF from, to, nrecs
  <2>4. /\ Len(cells) = IF from <= to THEN to - from + 1 ELSE 0
        /\ \A i \in 1 .. to - from + 1 : cells[i] = recs[from + i - 1]
    <3>1. to <= Len(recs)
      BY <2>3 DEF n
    <3>2. /\ Len(SubSeq(recs, from, to)) = IF from <= to THEN to - from + 1 ELSE 0
          /\ \A i \in 1 .. to - from + 1 : SubSeq(recs, from, to)[i] = recs[from + i - 1]
      BY <2>3, <3>1, Cut
    <3> QED BY <2>2, <3>2
  <2>5. Len(cells) = nrecs /\ cells[at + 1] = recs[from + (at + 1) - 1]
    BY <2>3, <2>4
  <2> QED BY <2>3, <2>5
<1>8. ~ (docid >= b.ndocs) /\ ~ (Len(cells) # nrecs)
  BY <1>1, <1>5, <1>7
<1>9. DocRecord(b, docid) =
        IF docid >= b.ndocs \/ Len(cells) # nrecs THEN [ok |-> FALSE]
        ELSE [ok |-> TRUE, rec |-> cells[at + 1]]
  <2> HIDE DEF b
  <2> QED BY <1>5, <1>6 DEF DocRecord
<1> HIDE DEF cells, nrecs, at, b
<1>10. DocRecord(b, docid) = [ok |-> TRUE, rec |-> recs[docid + 1]]
  BY <1>7, <1>8, <1>9
<1> QED BY <1>10 DEF b

\* A sealed band passes the checks it is opened with.
LEMMA OpensIs ==
  ASSUME DocsAssumption, NEW recs, IsSeq(recs), recs # <<>>
  PROVE  OpensDocs(SealDocs(recs))
<1> DEFINE b == SealDocs(recs)
<1>1. Len(recs) > 0 /\ NBlocks(Len(recs)) >= 1
  BY BlocksAre
<1> HIDE DEF b
<1>2. /\ b.ndocs = Len(recs) /\ b.nblocks = NBlocks(Len(recs)) /\ b.dictOff = b.nblocks
      /\ b.nblocks \in Nat /\ b.dictLen \in Nat /\ Len(b.data) = b.dictOff + b.dictLen
      /\ \A i \in 1 .. b.nblocks : b.offs[i] = i - 1
  <2>1. b = SealDocs(recs)
    BY DEF b
  <2> QED BY <2>1, SealedIs
<1>3. b.offs[1] = 0
  BY <1>1, <1>2
<1>4. ASSUME NEW i \in 1 .. b.nblocks PROVE b.offs[i] < b.dictOff /\ (i > 1 => b.offs[i] > b.offs[i - 1])
  <2>1. b.offs[i] = i - 1
    BY <1>2
  <2>2. ASSUME i > 1 PROVE b.offs[i - 1] = i - 2
    <3>1. i - 1 \in 1 .. b.nblocks /\ (i - 1) - 1 = i - 2
      BY <1>2, <2>2
    <3> QED BY <1>2, <3>1
  <2> QED BY <1>2, <2>1, <2>2
<1>5. b.ndocs > 0 /\ b.nblocks > 0 /\ b.nblocks = NBlocks(b.ndocs)
  BY <1>1, <1>2
<1>6. OpensDocs(b)
  BY <1>2, <1>3, <1>4, <1>5 DEF OpensDocs
<1> QED BY <1>6 DEF b

\* Two nibbles of one byte.
LEMMA Nibbles ==
  ASSUME NEW t \in 0 .. 15, NEW a \in 0 .. 15
  PROVE  (t + a * 16) % 16 = t /\ (t + a * 16) \div 16 = a
OBVIOUS

\* A docid reads its own docvalue: the nibbles come apart again.
LEMMA ValueIs ==
  ASSUME DocsAssumption, NEW vs \in Seq(DocValue), NEW docid \in 0 .. Len(vs) - 1
  PROVE  DocValueAt(EncodeDocValues(vs), docid) = vs[docid + 1]
<1> DEFINE v == vs[docid + 1]
<1>1. v \in DocValue /\ docid + 1 \in 1 .. Len(vs)
  OBVIOUS
<1>2. v \in [title : 0 .. 15, anchor : 0 .. 15]
  BY <1>1 DEF DocsAssumption
<1>3. EncodeDocValues(vs)[docid + 1] = v.title + v.anchor * 16
  BY <1>1 DEF EncodeDocValues
<1> HIDE DEF v
<1>4. v.title \in 0 .. 15 /\ v.anchor \in 0 .. 15 /\ v = [title |-> v.title, anchor |-> v.anchor]
  BY <1>2
<1>5. (v.title + v.anchor * 16) % 16 = v.title /\ (v.title + v.anchor * 16) \div 16 = v.anchor
  BY <1>4, Nibbles
<1> QED BY <1>3, <1>4, <1>5 DEF DocValueAt, v

\* The docid's width holds the sum that rounds up.
LEMMA DenseIs ==
  ASSUME DocsAssumption, NEW n \in Nat, n > 0, n <= MaxDocs
  PROVE  /\ ByteBits \in Nat /\ ByteBits > 0
         /\ DenseBytes(n) = (n + ByteBits - 1) \div ByteBits /\ DenseBytes(n) \in Nat
<1> DEFINE x == n + ByteBits - 1
<1>1. ByteBits \in Nat /\ ByteBits > 0 /\ DocidSpace \in Nat /\ MaxDocs \in Nat /\ MaxDocs + ByteBits <= DocidSpace
  BY DEF DocsAssumption
<1>2. x \in Int /\ 0 <= x /\ x < DocidSpace /\ DocidSpace > 0
  BY <1>1
<1>3. x % DocidSpace = x
  <2> HIDE DEF x
  <2>1. (DocidSpace * 0 + x) % DocidSpace = x
    BY <1>1, <1>2, DivUnique
  <2>2. DocidSpace * 0 + x = x
    BY <1>1, <1>2
  <2> QED BY <2>1, <2>2
<1>4. DenseBytes(n) = (n + ByteBits - 1) \div ByteBits
  BY <1>3 DEF DenseBytes
<1>5. \A e : e = (n + ByteBits - 1) \div ByteBits => e \in Nat
  BY <1>1, PartsOf
<1> QED BY <1>1, <1>4, <1>5

\* A docid has one bit of a bitset, up when the docid is in it, and no bit else is up.
LEMMA BitsetIs ==
  ASSUME DocsAssumption, NEW n \in Nat, n > 0, n <= MaxDocs, NEW docids \in SUBSET (0 .. n - 1),
         NEW b, b = Bitset(docids, n)
  PROVE  /\ DOMAIN b = 1 .. DenseBytes(n) /\ Len(b) = DenseBytes(n)
         /\ \A d \in 0 .. n - 1 : /\ d \div ByteBits + 1 \in DOMAIN b /\ d % ByteBits \in 0 .. ByteBits - 1
                                  /\ d % ByteBits \in b[d \div ByteBits + 1] <=> d \in docids
         /\ \A i \in DOMAIN b : \A bit \in b[i] :
              /\ bit \in 0 .. ByteBits - 1 /\ (i - 1) * ByteBits + bit \in docids
<1> DEFINE w == ByteBits
           c == DenseBytes(n)
<1>1. w \in Nat /\ w > 0 /\ c = (n + w - 1) \div w /\ c \in Nat
  BY DenseIs
<1>2. b = [i \in 1 .. c |-> {bit \in 0 .. w - 1 : (i - 1) * w + bit \in docids}]
  BY DEF Bitset
<1> HIDE DEF w, c
<1>3. DOMAIN b = 1 .. c /\ Len(b) = c
  BY <1>1, <1>2
<1>4. \A i \in 1 .. c : b[i] = {bit \in 0 .. w - 1 : (i - 1) * w + bit \in docids}
  BY <1>2
<1>5. ASSUME NEW d \in 0 .. n - 1
      PROVE  /\ d \div w + 1 \in 1 .. c /\ d % w \in 0 .. w - 1
             /\ d % w \in b[d \div w + 1] <=> d \in docids
  <2> DEFINE q == d \div w
             r == d % w
  <2>1. q \in Nat /\ r \in 0 .. w - 1 /\ d = q * w + r /\ q + 1 \in 1 .. c
    BY <1>1, PlaceOf
  <2> HIDE DEF q, r
  <2>2. (q + 1) - 1 = q
    BY <2>1
  <2>3. r \in b[q + 1] <=> ((q + 1) - 1) * w + r \in docids
    BY <1>4, <2>1
  <2>4. r \in b[q + 1] <=> d \in docids
    BY <2>1, <2>2, <2>3
  <2> QED BY <2>1, <2>4 DEF q, r
<1> QED BY <1>3, <1>4, <1>5 DEF w, c

\* As many bits are up as the bitset has docids.
LEMMA BitCount ==
  ASSUME DocsAssumption, NEW n \in Nat, n > 0, n <= MaxDocs, NEW docids \in SUBSET (0 .. n - 1),
         NEW b, b = Bitset(docids, n)
  PROVE  Cardinality({at \in (1 .. Len(b)) \X (0 .. ByteBits - 1) : at[2] \in b[at[1]]}) = Cardinality(docids)
<1> DEFINE w == ByteBits
           Up == {at \in (1 .. Len(b)) \X (0 .. w - 1) : at[2] \in b[at[1]]}
           f == [at \in Up |-> (at[1] - 1) * w + at[2]]
<1>1. w \in Nat /\ w > 0 /\ DenseBytes(n) \in Nat
  BY DenseIs
<1>2. /\ DOMAIN b = 1 .. Len(b) /\ Len(b) \in Nat
      /\ \A d \in 0 .. n - 1 : /\ d \div w + 1 \in DOMAIN b /\ d % w \in 0 .. w - 1
                               /\ d % w \in b[d \div w + 1] <=> d \in docids
      /\ \A i \in DOMAIN b : \A bit \in b[i] : bit \in 0 .. w - 1 /\ (i - 1) * w + bit \in docids
  <2> HIDE DEF Up, f
  <2>1. DOMAIN b = 1 .. DenseBytes(n) /\ Len(b) = DenseBytes(n)
    BY BitsetIs
  <2>2. \A d \in 0 .. n - 1 : d \div w + 1 \in DOMAIN b /\ d % w \in 0 .. w - 1
    <3>1. ASSUME NEW d \in 0 .. n - 1 PROVE d \div w + 1 \in DOMAIN b
      <4>1. d \div w + 1 \in 1 .. DenseBytes(n)
        BY <1>1, DenseIs, PlaceOf
      <4> QED BY <2>1, <4>1
    <3>2. \A d \in 0 .. n - 1 : d % w \in 0 .. w - 1
      BY <1>1
    <3> QED BY <3>1, <3>2
  <2>3. \A d \in 0 .. n - 1 : d % w \in b[d \div w + 1] <=> d \in docids
    BY BitsetIs
  <2>4. \A i \in DOMAIN b : \A bit \in b[i] : bit \in 0 .. w - 1 /\ (i - 1) * w + bit \in docids
    BY BitsetIs
  <2> HIDE DEF w
  <2> QED BY <1>1, <2>1, <2>2, <2>3, <2>4
<1> HIDE DEF w
<1>3. \A at \in Up : /\ at[1] \in 1 .. Len(b) /\ at[2] \in 0 .. w - 1 /\ at[2] \in b[at[1]] /\ at = <<at[1], at[2]>>
                     /\ at[1] - 1 \in Nat /\ f[at] = (at[1] - 1) * w + at[2] /\ f[at] \in docids
  BY <1>2
<1>4. DOMAIN f = Up /\ f = [at \in Up |-> f[at]]
  OBVIOUS
<1>5. \A i \in 1 .. Len(b), bit \in 0 .. w - 1 : bit \in b[i] => <<i, bit>> \in Up
  OBVIOUS
<1> HIDE DEF Up, f
<1>6. ASSUME NEW x \in Up, NEW y \in Up, f[x] = f[y] PROVE x = y
  <2>1. /\ f[x] % w = x[2] /\ f[x] \div w = x[1] - 1
    BY <1>1, <1>3, PlaceBack
  <2>2. /\ f[y] % w = y[2] /\ f[y] \div w = y[1] - 1
    BY <1>1, <1>3, PlaceBack
  <2>3. x[1] = y[1] /\ x[2] = y[2]
    BY <1>2, <1>3, <1>6, <2>1, <2>2
  <2> QED BY <1>3, <2>3
<1>7. ASSUME NEW d \in docids PROVE \E x \in Up : f[x] = d
  <2> DEFINE q == d \div w
             r == d % w
  <2>1. q \in Nat /\ r \in 0 .. w - 1 /\ d = q * w + r
    <3>1. \A e : e = (n + w - 1) \div w => q \in Nat /\ r \in 0 .. w - 1 /\ d = q * w + r
      BY <1>1, PlaceOf
    <3> QED BY <3>1
  <2>2. q + 1 \in 1 .. Len(b) /\ r \in b[q + 1]
    BY <1>2
  <2> HIDE DEF q, r
  <2>3. <<q + 1, r>> \in Up
    BY <1>5, <2>1, <2>2
  <2>4. f[<<q + 1, r>>] = ((q + 1) - 1) * w + r
    BY <1>3, <2>3
  <2>5. (q + 1) - 1 = q
    BY <2>1
  <2> QED BY <2>1, <2>3, <2>4, <2>5
<1>8. f \in Bijection(Up, docids)
  BY <1>3, <1>4, <1>6, <1>7 DEF Bijection, Injection, Surjection, IsInjective
<1>9. IsFiniteSet(docids)
  <2>1. IsFiniteSet(0 .. n - 1)
    BY FS_Interval
  <2> QED BY <2>1, FS_Subset
<1>10. IsFiniteSet(Up)
  <2>1. IsFiniteSet(1 .. Len(b)) /\ IsFiniteSet(0 .. w - 1)
    <3>1. 1 \in Int /\ Len(b) \in Int /\ 0 \in Int /\ w - 1 \in Int
      BY <1>1, <1>2
    <3> QED BY <3>1, FS_Interval
  <2>2. IsFiniteSet((1 .. Len(b)) \X (0 .. w - 1))
    BY <2>1, FS_Product
  <2>3. Up \in SUBSET ((1 .. Len(b)) \X (0 .. w - 1))
    BY DEF Up
  <2> QED BY <2>2, <2>3, FS_Subset
<1>11. Cardinality(Up) = Cardinality(docids)
  <2>1. ExistsBijection(Up, docids)
    BY <1>8 DEF ExistsBijection
  <2> QED BY <1>10, <2>1, FS_Bijection
<1> QED BY <1>11 DEF Up, w

\* The list of a set of docids: all of them, increasing.
LEMMA DocidsAre ==
  ASSUME NEW docids \in SUBSET Nat, IsFiniteSet(docids), NEW s, s = Docids(docids)
  PROVE  /\ Cardinality(docids) \in Nat /\ DOMAIN s = 1 .. Cardinality(docids) /\ Len(s) = Cardinality(docids)
         /\ \A i \in 1 .. Len(s) : s[i] \in docids
         /\ \A x \in docids : \E i \in 1 .. Len(s) : s[i] = x
         /\ \A i, j \in 1 .. Len(s) : i < j => s[i] < s[j]
<1> DEFINE R == {x \in Nat \X Nat : x[1] < x[2]}
<1>1. Orders(R, docids)
  <2>1. \A x, y \in Nat : <<x, y>> \in R <=> x < y
    OBVIOUS
  <2> HIDE DEF R
  <2>2. \A x, y \in docids : x # y => <<x, y>> \in R \/ <<y, x>> \in R
    BY <2>1
  <2>3. \A x, y, z \in docids : <<x, y>> \in R /\ <<y, z>> \in R => <<x, z>> \in R
    BY <2>1
  <2> QED BY <2>2, <2>3 DEF Orders
<1>2. PICK f \in SetToSeqs(docids) : Ascending(f, R)
  <2> HIDE DEF R
  <2> QED BY <1>1, SortExists
<1>3. \A i, j \in DOMAIN f : i < j => f[i] < f[j]
  BY <1>2 DEF Ascending
<1>4. s \in SetToSeqs(docids) /\ \A i, j \in DOMAIN s : i < j => s[i] < s[j]
  BY <1>2, <1>3 DEF Docids
<1>5. /\ Cardinality(docids) \in Nat /\ DOMAIN s = 1 .. Cardinality(docids) /\ Len(s) = Cardinality(docids)
      /\ \A i \in DOMAIN s : s[i] \in docids
      /\ \A x \in docids : \E i \in DOMAIN s : s[i] = x
  BY <1>4, EnumCovers
<1> QED BY <1>4, <1>5

\* A delta parses, as the band that is canonical for it, and names what it was made of.
LEMMA TombIs ==
  ASSUME DocsAssumption, NEW n \in Nat, n > 0, n <= MaxDocs, NEW docids \in SUBSET (0 .. n - 1)
  PROVE  /\ ParsesTombstones(EncodeTombstones(docids, n))
         /\ ParsedDocids(EncodeTombstones(docids, n)) = docids
<1> DEFINE t == EncodeTombstones(docids, n)
           m == Cardinality(docids)
<1>1. /\ t.kind = TombKind(m, n) /\ t.base = n /\ t.count = m
      /\ t.body = IF TombKind(m, n) = "sparse" THEN Docids(docids) ELSE Bitset(docids, n)
  BY DEF EncodeTombstones
<1> HIDE DEF t, m
<1>2. IsFiniteSet(docids) /\ m \in Nat /\ m <= n
  <2>1. 0 \in Int /\ n - 1 \in Int /\ ~ (0 > n - 1) /\ (n - 1) - 0 + 1 = n
    OBVIOUS
  <2>2. IsFiniteSet(0 .. n - 1) /\ Cardinality(0 .. n - 1) = n
    BY <2>1, FS_Interval
  <2> QED BY <2>2, FS_Subset, FS_CardinalityType DEF m
<1>3. t.base > 0 /\ t.count <= t.base /\ t.kind = TombKind(t.count, t.base)
  BY <1>1, <1>2
<1>4. CASE t.kind = "sparse"
  <2>1. /\ Len(t.body) = m /\ {t.body[i] : i \in 1 .. Len(t.body)} = docids
        /\ \A i, j \in 1 .. Len(t.body) : i < j => t.body[i] < t.body[j]
    <3>1. t.body = Docids(docids) /\ docids \in SUBSET Nat
      BY <1>1, <1>4
    <3>2. ASSUME NEW s, s = Docids(docids)
          PROVE  /\ Len(s) = m /\ {s[i] : i \in 1 .. Len(s)} = docids
                 /\ \A i, j \in 1 .. Len(s) : i < j => s[i] < s[j]
      <4>1. docids \in SUBSET Nat /\ IsFiniteSet(docids)
        BY <1>2, <3>1
      <4>2. Len(s) = Cardinality(docids)
        BY <3>2, <4>1, DocidsAre
      <4>3. (\A i \in 1 .. Len(s) : s[i] \in docids) /\ (\A x \in docids : \E i \in 1 .. Len(s) : s[i] = x)
        BY <3>2, <4>1, DocidsAre
      <4>4. \A i, j \in 1 .. Len(s) : i < j => s[i] < s[j]
        BY <3>2, <4>1, DocidsAre
      <4> QED BY <4>2, <4>3, <4>4 DEF m
    <3> QED BY <3>1, <3>2
  <2>2. ASSUME NEW i \in 1 .. t.count PROVE t.body[i] < t.base /\ (i > 1 => t.body[i] > t.body[i - 1])
    <3>1. i \in 1 .. Len(t.body) /\ t.body[i] \in 0 .. n - 1
      <4>1. \A k \in 1 .. Len(t.body) : t.body[k] \in docids
        BY <2>1
      <4> QED BY <1>1, <2>1, <4>1
    <3>2. ASSUME i > 1 PROVE t.body[i] > t.body[i - 1]
      <4>1. i - 1 \in 1 .. Len(t.body) /\ i - 1 < i
        BY <1>2, <2>1, <3>1, <3>2
      <4>2. t.body[i - 1] < t.body[i]
        BY <2>1, <3>1, <4>1
      <4>3. t.body[i - 1] \in docids
        BY <2>1, <4>1
      <4>4. \A x \in docids : x \in Int
        OBVIOUS
      <4> QED BY <3>1, <4>2, <4>3, <4>4
    <3>3. t.body[i] < t.base
      BY <1>1, <3>1
    <3> QED BY <3>2, <3>3
  <2> QED BY <1>1, <1>3, <1>4, <2>1, <2>2 DEF ParsesTombstones, ParsedDocids, t
<1>5. CASE t.kind # "sparse"
  <2>1. t.body = Bitset(docids, n)
    BY <1>1, <1>5
  <2>2. /\ DOMAIN t.body = 1 .. DenseBytes(n) /\ Len(t.body) = DenseBytes(n)
        /\ \A i \in DOMAIN t.body : \A bit \in t.body[i] :
             bit \in 0 .. ByteBits - 1 /\ (i - 1) * ByteBits + bit \in docids
    BY <2>1, BitsetIs
  <2>3. \A d \in 0 .. n - 1 : d % ByteBits \in t.body[d \div ByteBits + 1] <=> d \in docids
    BY <2>1, BitsetIs
  <2>4. Cardinality({at \in (1 .. Len(t.body)) \X (0 .. ByteBits - 1) : at[2] \in t.body[at[1]]}) = m
    BY <2>1, BitCount DEF m
  <2>5. ParsedDocids(t) = docids
    <3>1. ParsedDocids(t) = {d \in 0 .. n - 1 : d % ByteBits \in t.body[d \div ByteBits + 1]}
      BY <1>1, <1>5 DEF ParsedDocids
    <3> QED BY <2>3, <3>1
  <2>6. \A i \in 1 .. Len(t.body) : \A bit \in t.body[i] : (i - 1) * ByteBits + bit < t.base
    <3> SUFFICES ASSUME NEW i \in 1 .. Len(t.body), NEW bit \in t.body[i]
                 PROVE  (i - 1) * ByteBits + bit < t.base
      OBVIOUS
    <3>1. (i - 1) * ByteBits + bit \in 0 .. n - 1
      BY <2>2
    <3> QED BY <1>1, <3>1
  <2>7. ParsesTombstones(t)
    BY <1>1, <1>3, <1>5, <2>2, <2>4, <2>6 DEF ParsesTombstones
  <2> QED BY <2>5, <2>7 DEF t
<1> QED BY <1>4, <1>5

-----------------------------------------------------------------------------
(* The invariant: a sealed shard is sealed from its documents, and each    *)
(* delta was written over it.                                              *)

DocsInv ==
  /\ spool \in Seq(Record) /\ values \in Seq(DocValue) /\ Len(values) = Len(spool) /\ Len(spool) <= MaxDocs
  /\ docBand # <<>> => spool # <<>> /\ docBand = SealDocs(spool) /\ valBand = EncodeDocValues(values)
  /\ docBand = <<>> => deltas = <<>>
  /\ IsSeq(deltas) /\ IsSeq(doomed) /\ Len(deltas) = Len(doomed)
  /\ \A i \in 1 .. Len(doomed) :
       /\ docBand # <<>>
       /\ doomed[i] \in SUBSET (0 .. Len(spool) - 1)
       /\ deltas[i] = EncodeTombstones(doomed[i], Len(spool))

LEMMA DocsStart == DocsAssumption /\ DocsInit => DocsInv
<1> SUFFICES ASSUME DocsAssumption, DocsInit PROVE DocsInv
  OBVIOUS
<1>1. <<>> \in Seq(Record) /\ <<>> \in Seq(DocValue) /\ Len(<<>>) = 0 /\ IsSeq(<<>>) /\ 0 <= MaxDocs
  BY DEF DocsAssumption, IsSeq
<1> QED BY <1>1 DEF DocsInit, DocsInv

LEMMA DocsStep == DocsAssumption /\ DocsInv /\ [DocsNext]_docsVars => DocsInv'
<1> SUFFICES ASSUME DocsAssumption, DocsInv, [DocsNext]_docsVars PROVE DocsInv'
  OBVIOUS
<1>1. ASSUME NEW r \in Record, NEW v \in DocValue, DocAdd(r, v) PROVE DocsInv'
  <2>1. /\ spool' = Append(spool, r) /\ values' = Append(values, v) /\ docBand = <<>> /\ Len(spool) < MaxDocs
        /\ docBand' = docBand /\ valBand' = valBand /\ deltas' = deltas /\ doomed' = doomed
    BY <1>1 DEF DocAdd
  <2>2. /\ spool' \in Seq(Record) /\ Len(spool') = Len(spool) + 1
        /\ values' \in Seq(DocValue) /\ Len(values') = Len(values) + 1
    BY <2>1, AppendProperties DEF DocsInv
  <2>3. Len(spool') <= MaxDocs
    BY <2>1, <2>2 DEF DocsInv, DocsAssumption
  <2>4. Len(doomed) = 0
    BY <2>1 DEF DocsInv
  <2>5. \A i \in 1 .. Len(doomed') : FALSE
    BY <2>1, <2>4
  <2> QED BY <2>1, <2>2, <2>3, <2>5 DEF DocsInv
<1>2. ASSUME DocSeal PROVE DocsInv'
  <2>1. /\ spool # <<>> /\ docBand = <<>>
        /\ docBand' = SealDocs(spool) /\ valBand' = EncodeDocValues(values)
        /\ spool' = spool /\ values' = values /\ deltas' = deltas /\ doomed' = doomed
    BY <1>2 DEF DocSeal
  <2>2. deltas = <<>> /\ Len(doomed) = 0
    BY <2>1 DEF DocsInv
  <2>3. \A i \in 1 .. Len(doomed') : FALSE
    BY <2>1, <2>2
  <2> QED BY <2>1, <2>2, <2>3 DEF DocsInv
<1>3. ASSUME NEW docids \in SUBSET (0 .. Len(spool) - 1), WriteDelta(docids) PROVE DocsInv'
  <2>1. /\ docBand # <<>> /\ deltas' = Append(deltas, EncodeTombstones(docids, docBand.ndocs))
        /\ doomed' = Append(doomed, docids)
        /\ spool' = spool /\ values' = values /\ docBand' = docBand /\ valBand' = valBand
    BY <1>3 DEF WriteDelta
  <2>2. docBand.ndocs = Len(spool)
    BY <2>1 DEF DocsInv, SealDocs
  <2>3. /\ IsSeq(deltas') /\ Len(deltas') = Len(deltas) + 1
        /\ deltas'[Len(deltas) + 1] = EncodeTombstones(docids, Len(spool))
        /\ \A i \in 1 .. Len(deltas) : deltas'[i] = deltas[i]
    BY <2>1, <2>2, AppendParts DEF DocsInv
  <2>4. /\ IsSeq(doomed') /\ Len(doomed') = Len(doomed) + 1 /\ doomed'[Len(doomed) + 1] = docids
        /\ \A i \in 1 .. Len(doomed) : doomed'[i] = doomed[i]
    BY <2>1, AppendParts DEF DocsInv
  <2>5. Len(doomed) \in Nat /\ Len(deltas) = Len(doomed)
    BY SeqParts DEF DocsInv
  <2>6. ASSUME NEW i \in 1 .. Len(doomed')
        PROVE  /\ doomed'[i] \in SUBSET (0 .. Len(spool) - 1)
               /\ deltas'[i] = EncodeTombstones(doomed'[i], Len(spool))
    <3>1. CASE i = Len(doomed) + 1
      BY <2>3, <2>4, <2>5, <3>1
    <3>2. CASE i # Len(doomed) + 1
      <4>1. i \in 1 .. Len(doomed)
        BY <2>4, <2>5, <3>2
      <4> QED BY <2>3, <2>4, <2>5, <4>1 DEF DocsInv
    <3> QED BY <3>1, <3>2
  <2> QED BY <2>1, <2>3, <2>4, <2>5, <2>6 DEF DocsInv
<1>4. ASSUME UNCHANGED docsVars PROVE DocsInv'
  BY <1>4 DEF DocsInv, docsVars
<1> QED BY <1>1, <1>2, <1>3, <1>4 DEF DocsNext

LEMMA DocsRead == DocsAssumption /\ DocsInv => DocsReadBack
<1> SUFFICES ASSUME DocsAssumption, DocsInv, docBand # <<>>
             PROVE  /\ OpensDocs(docBand)
                    /\ \A d \in 0 .. Len(spool) - 1 :
                         /\ DocRecord(docBand, d) = [ok |-> TRUE, rec |-> spool[d + 1]]
                         /\ DocValueAt(valBand, d) = values[d + 1]
                    /\ \A d \in Len(spool) .. Len(spool) + DocBlockDocs : ~DocRecord(docBand, d).ok
  BY DEF DocsReadBack
<1>1. /\ spool \in Seq(Record) /\ values \in Seq(DocValue) /\ Len(values) = Len(spool)
      /\ spool # <<>> /\ docBand = SealDocs(spool) /\ valBand = EncodeDocValues(values)
  BY DEF DocsInv
<1>2. IsSeq(spool)
  BY <1>1, OwnSeq
<1>3. OpensDocs(docBand)
  BY <1>1, <1>2, OpensIs
<1>4. ASSUME NEW d \in 0 .. Len(spool) - 1
      PROVE  /\ DocRecord(docBand, d) = [ok |-> TRUE, rec |-> spool[d + 1]]
             /\ DocValueAt(valBand, d) = values[d + 1]
  <2>1. DocRecord(docBand, d) = [ok |-> TRUE, rec |-> spool[d + 1]]
    BY <1>1, <1>2, RecordIs
  <2>2. DocValueAt(valBand, d) = values[d + 1]
    BY <1>1, ValueIs
  <2> QED BY <2>1, <2>2
<1>5. ASSUME NEW d \in Len(spool) .. Len(spool) + DocBlockDocs PROVE ~DocRecord(docBand, d).ok
  <2>1. docBand.ndocs = Len(spool) /\ d >= Len(spool)
    BY <1>1 DEF SealDocs
  <2>2. DocRecord(docBand, d) = [ok |-> FALSE]
    BY <2>1 DEF DocRecord
  <2> QED BY <2>2
<1> QED BY <1>3, <1>4, <1>5

LEMMA DocsExclude == DocsAssumption /\ DocsInv => ExcludesDoomed
<1> SUFFICES ASSUME DocsAssumption, DocsInv, docBand # <<>>
             PROVE  /\ \A i \in 1 .. Len(deltas) :
                         ParsesTombstones(deltas[i]) /\ ParsedDocids(deltas[i]) = doomed[i]
                    /\ \A d \in 0 .. docBand.ndocs - 1 :
                         Excluded(BuildExclusion(docBand.ndocs, deltas), d)
                           <=> \E i \in 1 .. Len(doomed) : d \in doomed[i]
  BY DEF ExcludesDoomed
<1> DEFINE n == Len(spool)
<1>1. /\ n \in Nat /\ n > 0 /\ n <= MaxDocs /\ docBand.ndocs = n /\ Len(deltas) = Len(doomed)
      /\ \A i \in 1 .. Len(doomed) : /\ doomed[i] \in SUBSET (0 .. n - 1)
                                     /\ deltas[i] = EncodeTombstones(doomed[i], n)
  <2>1. spool \in Seq(Record) /\ spool # <<>>
    BY DEF DocsInv
  <2>2. n \in Nat /\ n > 0
    BY <2>1, EmptySeq
  <2> QED BY <2>2 DEF DocsInv, SealDocs
<1> HIDE DEF n
<1>2. \A i \in 1 .. Len(deltas) : ParsesTombstones(deltas[i]) /\ ParsedDocids(deltas[i]) = doomed[i]
  <2> SUFFICES ASSUME NEW i \in 1 .. Len(deltas)
               PROVE  ParsesTombstones(deltas[i]) /\ ParsedDocids(deltas[i]) = doomed[i]
    OBVIOUS
  <2>1. doomed[i] \in SUBSET (0 .. n - 1) /\ deltas[i] = EncodeTombstones(doomed[i], n)
    BY <1>1
  <2>2. /\ ParsesTombstones(EncodeTombstones(doomed[i], n))
        /\ ParsedDocids(EncodeTombstones(doomed[i], n)) = doomed[i]
    BY <1>1, <2>1, TombIs
  <2> QED BY <2>1, <2>2
<1>3. ASSUME NEW d \in 0 .. n - 1
      PROVE  Excluded(BuildExclusion(n, deltas), d) <=> \E i \in 1 .. Len(doomed) : d \in doomed[i]
  <2> DEFINE all == UNION {ParsedDocids(deltas[i]) : i \in 1 .. Len(deltas)}
             b == Bitset(all, n)
  <2>1. \A x : x \in all <=> \E i \in 1 .. Len(doomed) : x \in doomed[i]
    BY <1>1, <1>2
  <2>2. BuildExclusion(n, deltas) = b
    BY DEF BuildExclusion
  <2> HIDE DEF all
  <2>3. all \in SUBSET (0 .. n - 1)
    BY <1>1, <2>1
  <2>4. \A e : e = Bitset(all, n) =>
          \A x \in 0 .. n - 1 : x % ByteBits \in e[x \div ByteBits + 1] <=> x \in all
    BY <1>1, <2>3, BitsetIs
  <2>5. d % ByteBits \in b[d \div ByteBits + 1] <=> d \in all
    BY <2>4
  <2> QED BY <2>1, <2>2, <2>5 DEF Excluded
<1> QED BY <1>1, <1>2, <1>3

\* The inductive invariant of a shard's documents: the bands are those of the documents added.
THEOREM DocsInvariant == DocsSpec => []DocsInv
<1>1. DocsInit => DocsInv
  BY DocsAssumption, DocsStart
<1>2. DocsInv /\ [DocsNext]_docsVars => DocsInv'
  BY DocsAssumption, DocsStep
<1> QED BY <1>1, <1>2, PTL DEF DocsSpec

\* Whatever the blocks, the dictionary and the density make of them, a docid is one
\* document: it reads its own record and value, and a mount excludes it exactly when a
\* delta deleted it (Seal and Doc of docband.go, EncodeTombstones and BuildExclusion).
THEOREM DocsHoldAlways == DocsSpec => []DocsHold
<1>1. DocsInv => DocsHold
  BY DocsAssumption, DocsRead, DocsExclude DEF DocsHold
<1> QED BY <1>1, DocsInvariant, PTL

-----------------------------------------------------------------------------
(***************************************************************************)
(* The hot file. What a writer has streamed is laid out band by band       *)
(* (LaidOut), the finished file adds the footer that says so; so a file    *)
(* that opens is the finished one but for cells that no checksum misses.   *)
(***************************************************************************)

\* A part of a sequence is the sequence that stands there.
LEMMA CutIs ==
  ASSUME NEW s, IsSeq(s), NEW t, IsSeq(t), NEW m \in Nat, m + Len(t) <= Len(s),
         \A i \in 1 .. Len(t) : s[m + i] = t[i]
  PROVE  SubSeq(s, m + 1, m + Len(t)) = t
<1> DEFINE c == SubSeq(s, m + 1, m + Len(t))
<1>1. Len(t) \in Nat /\ Len(s) \in Nat /\ m + 1 \in Nat /\ m + Len(t) \in Nat /\ m + 1 >= 1
  BY SeqParts
<1>2. /\ IsSeq(c) /\ Len(c) = IF m + 1 <= m + Len(t) THEN (m + Len(t)) - (m + 1) + 1 ELSE 0
      /\ \A i \in 1 .. (m + Len(t)) - (m + 1) + 1 : c[i] = s[(m + 1) + i - 1]
  BY <1>1, Cut
<1> HIDE DEF c
<1>3. Len(c) = Len(t)
  BY <1>1, <1>2
<1>4. ASSUME NEW i \in 1 .. Len(t) PROVE c[i] = t[i]
  <2>1. i \in 1 .. (m + Len(t)) - (m + 1) + 1 /\ (m + 1) + i - 1 = m + i
    BY <1>1
  <2> QED BY <1>2, <2>1
<1>5. DOMAIN c = 1 .. Len(c) /\ DOMAIN t = 1 .. Len(t) /\ c = [i \in DOMAIN c |-> c[i]] /\ t = [i \in DOMAIN t |-> t[i]]
  BY <1>2, SeqParts DEF IsSeq
<1>6. c = t
  BY <1>3, <1>4, <1>5
<1> QED BY <1>6 DEF c

\* The boundary at or past x.
LEMMA AlignIs ==
  ASSUME NEW x \in Nat, x > 0
  PROVE  /\ AlignUp(x) \in Nat /\ x <= AlignUp(x) /\ AlignUp(x) < x + Align /\ AlignUp(x) % Align = 0
         /\ AlignUp(HeaderCells) = Align /\ Align \in Nat /\ Align > 2
<1> DEFINE w == Align
<1>1. w \in Nat /\ w > 0 /\ w > 2
  BY FileAssumption DEF HeaderCells
<1>2. \A n \in Nat : n > 0 =>
        LET e == (n + w - 1) \div w IN e \in Nat /\ (e - 1) * w < n /\ n <= e * w
  <2> SUFFICES ASSUME NEW n \in Nat, n > 0, NEW e, e = (n + w - 1) \div w
               PROVE  e \in Nat /\ (e - 1) * w < n /\ n <= e * w
    OBVIOUS
  <2> HIDE DEF w
  <2>1. e \in Nat
    <3>1. \A k : k = (n + w - 1) \div w => k \in Nat
      BY <1>1, PartsOf
    <3> QED BY <3>1
  <2>2. (e - 1) * w < n /\ n <= e * w
    BY <1>1, PartsOf
  <2> QED BY <2>1, <2>2
<1>3. PICK c \in Nat : AlignUp(x) = c * w /\ (c - 1) * w < x /\ x <= c * w
  BY <1>2 DEF AlignUp
<1>4. (c - 1) * w = c * w - w /\ c * w \in Nat
  BY <1>1, <1>3
<1>5. (c * w) % w = 0
  <2>1. 0 \in 0 .. w - 1
    BY <1>1
  <2>2. (c * w + 0) % w = 0
    <3> HIDE DEF w
    <3> QED BY <1>1, <2>1, PlaceBack
  <2>3. c * w + 0 = c * w
    BY <1>4
  <2> QED BY <2>2, <2>3
<1>6. AlignUp(HeaderCells) = w
  <2>1. PICK e \in Nat : AlignUp(2) = e * w /\ (e - 1) * w < 2 /\ 2 <= e * w
    <3>1. 2 \in Nat /\ 2 > 0
      OBVIOUS
    <3> QED BY <1>2, <3>1 DEF AlignUp
  <2> HIDE DEF w
  <2>2. CASE e >= 2
    <3>1. (e - 1) * w = w + (e - 2) * w /\ (e - 2) * w >= 0
      BY <1>1, <2>1, <2>2
    <3> QED BY <1>1, <2>1, <3>1
  <2>3. CASE e = 0
    <3>1. e * w = 0
      BY <1>1, <2>3
    <3> QED BY <2>1, <3>1
  <2>4. CASE e = 1
    <3>1. e * w = w
      BY <1>1, <2>4
    <3> QED BY <2>1, <3>1 DEF HeaderCells
  <2> QED BY <2>1, <2>2, <2>3, <2>4
<1> QED BY <1>1, <1>3, <1>4, <1>5, <1>6

\* What pads to the boundary.
LEMMA PaddingIs ==
  ASSUME NEW n \in Nat, n > 0
  PROVE  IsSeq(Padding(n)) /\ Len(Padding(n)) = AlignUp(n) - n /\ \A i \in 1 .. AlignUp(n) - n : Padding(n)[i] = Pad
<1>1. AlignUp(n) - n \in Nat
  <2>1. AlignUp(n) \in Nat /\ n <= AlignUp(n)
    BY AlignIs
  <2> QED BY <2>1
<1>2. Padding(n) = [i \in 1 .. AlignUp(n) - n |-> Padding(n)[i]] /\ \A i \in 1 .. AlignUp(n) - n : Padding(n)[i] = Pad
  BY DEF Padding
<1> QED BY <1>1, <1>2, FunSeq

\* Out to the boundary, padded.
LEMMA PaddedIs ==
  ASSUME NEW f, IsSeq(f), Len(f) > 0, NEW g, g = f \o Padding(Len(f))
  PROVE  /\ IsSeq(g) /\ Len(g) = AlignUp(Len(f)) /\ Len(f) \in Nat /\ Len(f) <= Len(g) /\ Len(g) \in Nat
         /\ \A k \in 1 .. Len(f) : g[k] = f[k]
         /\ \A k \in 1 .. Len(g) : k > Len(f) => g[k] = Pad
<1> DEFINE n == Len(f)
           p == Padding(n)
<1>1. n \in Nat
  BY SeqParts
<1>2. IsSeq(p) /\ Len(p) = AlignUp(n) - n /\ \A i \in 1 .. AlignUp(n) - n : p[i] = Pad
  BY <1>1, PaddingIs
<1>3. AlignUp(n) \in Nat /\ n <= AlignUp(n)
  BY <1>1, AlignIs
<1> HIDE DEF p
<1>4. /\ IsSeq(f \o p) /\ Len(f \o p) = n + Len(p)
      /\ \A i \in 1 .. n : (f \o p)[i] = f[i]
      /\ \A i \in 1 .. Len(p) : (f \o p)[n + i] = p[i]
  <2>1. IsSeq(f \o p) /\ Len(f \o p) = n + Len(p)
    BY <1>2, Joined
  <2>2. \A i \in 1 .. n : (f \o p)[i] = f[i]
    BY <1>2, Joined
  <2>3. \A i \in 1 .. Len(p) : (f \o p)[n + i] = p[i]
    BY <1>2, Joined
  <2> QED BY <2>1, <2>2, <2>3
<1>5. g = f \o p
  BY DEF p
<1> HIDE DEF n
<1>6. Len(g) = AlignUp(n) /\ \A i \in 1 .. n : g[i] = f[i]
  BY <1>1, <1>2, <1>3, <1>4, <1>5
<1>7. ASSUME NEW k \in 1 .. Len(g), k > n PROVE g[k] = Pad
  <2>0. k \in Nat /\ k <= AlignUp(n) /\ Len(p) = AlignUp(n) - n
    BY <1>2, <1>3, <1>6
  <2>1. k - n \in 1 .. Len(p) /\ n + (k - n) = k
    BY <1>1, <1>3, <1>7, <2>0
  <2>2. g[k] = p[k - n]
    BY <1>4, <1>5, <2>1
  <2> QED BY <1>2, <2>1, <2>2
<1> QED BY <1>1, <1>3, <1>4, <1>5, <1>6, <1>7 DEF n

\* A cell a writer may find in a band: sound, and no tail.
Plain(cell) == cell # Rot /\ ~HasField(cell, "footerOff")

\* Cell k of the output lies in band i.
InBand(w, i, k) == k - w.entries[i].off \in 1 .. w.entries[i].len

\* The output w of a writer that was handed the header and the bands of h: the header page,
\* then each band at the next boundary, as its entry says, and nothing else but padding.
LaidOut(w, h) ==
  /\ IsSeq(w.out) /\ Len(w.out) >= HeaderCells /\ w.out[1] = [header |-> h.header] /\ w.out[2] = [writer |-> h.header.gen]
  /\ IsSeq(w.entries) /\ IsSeq(h.bands) /\ Len(h.bands) = Len(w.entries) /\ w.next = Len(w.entries) + 1
  /\ Len(w.entries) <= NumBands
  /\ \A i \in 1 .. Len(w.entries) :
       /\ IsSeq(h.bands[i]) /\ \A j \in 1 .. Len(h.bands[i]) : Plain(h.bands[i][j])
       /\ w.entries[i] = [id |-> BandOrder[i], off |-> w.entries[i].off, len |-> Len(h.bands[i]), crc |-> h.bands[i]]
       /\ w.entries[i].off \in Nat /\ w.entries[i].off >= Align /\ w.entries[i].off + w.entries[i].len <= Len(w.out)
       /\ \A j \in 1 .. Len(h.bands[i]) : w.out[w.entries[i].off + j] = h.bands[i][j]
       /\ w.entries[i].off = IF i = 1 THEN Align ELSE AlignUp(w.entries[i - 1].off + w.entries[i - 1].len)
       /\ \A j \in 1 .. i - 1 : w.entries[j].off + w.entries[j].len <= w.entries[i].off
  /\ Len(w.out) = IF w.entries = <<>> THEN HeaderCells
                  ELSE w.entries[Len(w.entries)].off + w.entries[Len(w.entries)].len
  /\ \A k \in HeaderCells + 1 .. Len(w.out) :
       (\A i \in 1 .. Len(w.entries) : ~InBand(w, i, k)) => w.out[k] = Pad

LEMMA Within == \A a, b, c, d \in Nat : a + b <= c /\ c <= d => a + b <= d
OBVIOUS

\* One more band.
Handed(h, payload) == [header |-> h.header, bands |-> Append(h.bands, payload)]

LEMMA StreamKeeps ==
  ASSUME NEW w, NEW h, LaidOut(w, h), w.next <= NumBands,
         NEW payload, IsSeq(payload), \A j \in 1 .. Len(payload) : Plain(payload[j])
  PROVE  LaidOut(Streamed(w, BandOrder[w.next], payload), Handed(h, payload))
<1> DEFINE pad == w.out \o Padding(Len(w.out))
           n == Len(w.entries)
           e == [id |-> BandOrder[w.next], off |-> Len(pad), len |-> Len(payload), crc |-> payload]
           v == Streamed(w, BandOrder[w.next], payload)
           g == Handed(h, payload)
<1>1. /\ IsSeq(w.out) /\ Len(w.out) \in Nat /\ Len(w.out) >= 2 /\ IsSeq(w.entries) /\ n \in Nat
      /\ IsSeq(h.bands) /\ Len(h.bands) = n /\ w.next = n + 1 /\ n + 1 <= NumBands
      /\ Len(payload) \in Nat /\ (w.entries = <<>> <=> n = 0) /\ Len(w.out) > 0
      /\ w.out[1] = [header |-> h.header] /\ w.out[2] = [writer |-> h.header.gen]
  <2>1. /\ IsSeq(w.out) /\ Len(w.out) >= 2 /\ IsSeq(w.entries) /\ IsSeq(h.bands) /\ Len(h.bands) = n
        /\ w.next = n + 1 /\ w.out[1] = [header |-> h.header] /\ w.out[2] = [writer |-> h.header.gen]
    BY DEF LaidOut, HeaderCells
  <2> QED BY <2>1, SeqParts
<1>2. /\ IsSeq(pad) /\ Len(pad) = AlignUp(Len(w.out)) /\ Len(w.out) <= Len(pad) /\ Len(pad) \in Nat
      /\ \A k \in 1 .. Len(w.out) : pad[k] = w.out[k]
      /\ \A k \in 1 .. Len(pad) : k > Len(w.out) => pad[k] = Pad
  <2>1. IsSeq(w.out) /\ Len(w.out) > 0
    BY <1>1
  <2> DEFINE f == w.out
  <2>2. IsSeq(f) /\ Len(f) > 0 /\ pad = f \o Padding(Len(f))
    BY <2>1
  <2> HIDE DEF f, pad
  <2>3. /\ IsSeq(pad) /\ Len(pad) = AlignUp(Len(f)) /\ Len(f) <= Len(pad) /\ Len(pad) \in Nat
    BY <2>2, PaddedIs
  <2>4. \A k \in 1 .. Len(f) : pad[k] = f[k]
    BY <2>2, PaddedIs
  <2>5. \A k \in 1 .. Len(pad) : k > Len(f) => pad[k] = Pad
    BY <2>2, PaddedIs
  <2> QED BY <2>3, <2>4, <2>5 DEF f
<1>3. /\ v.out = pad \o payload /\ v.next = w.next + 1 /\ v.entries = Append(w.entries, e)
      /\ g.header = h.header /\ g.bands = Append(h.bands, payload)
  BY DEF Streamed, Handed
<1> HIDE DEF pad, v, g
<1>4. /\ IsSeq(v.out) /\ Len(v.out) = Len(pad) + Len(payload)
      /\ \A k \in 1 .. Len(pad) : v.out[k] = pad[k]
      /\ \A j \in 1 .. Len(payload) : v.out[Len(pad) + j] = payload[j]
  <2>1. IsSeq(pad \o payload) /\ Len(pad \o payload) = Len(pad) + Len(payload)
    BY <1>2, Joined
  <2>2. \A k \in 1 .. Len(pad) : (pad \o payload)[k] = pad[k]
    BY <1>2, Joined
  <2>3. \A j \in 1 .. Len(payload) : (pad \o payload)[Len(pad) + j] = payload[j]
    BY <1>2, Joined
  <2> QED BY <1>3, <2>1, <2>2, <2>3
<1>5. /\ IsSeq(v.entries) /\ Len(v.entries) = n + 1 /\ v.entries[n + 1] = e
      /\ \A i \in 1 .. n : v.entries[i] = w.entries[i]
  BY <1>1, <1>3, AppendParts
<1>6. /\ IsSeq(g.bands) /\ Len(g.bands) = n + 1 /\ g.bands[n + 1] = payload
      /\ \A i \in 1 .. n : g.bands[i] = h.bands[i]
  <2>1. /\ IsSeq(Append(h.bands, payload)) /\ Len(Append(h.bands, payload)) = Len(h.bands) + 1
        /\ Append(h.bands, payload)[Len(h.bands) + 1] = payload
        /\ \A i \in 1 .. Len(h.bands) : Append(h.bands, payload)[i] = h.bands[i]
    BY <1>1, AppendParts
  <2> QED BY <1>1, <1>3, <2>1
<1>7. e.id = BandOrder[n + 1] /\ e.off = Len(pad) /\ e.len = Len(payload) /\ e.crc = payload
  BY <1>1
<1> HIDE DEF e
<1>8. /\ Align \in Nat /\ Align > 2 /\ AlignUp(2) = Align
  <2>1. \A x \in Nat : x > 0 => AlignUp(HeaderCells) = Align /\ Align \in Nat /\ Align > 2
    BY AlignIs
  <2>2. 1 \in Nat /\ 1 > 0
    OBVIOUS
  <2> QED BY <2>1, <2>2 DEF HeaderCells
\* The bands that were there.
<1>9. ASSUME NEW i \in 1 .. n
      PROVE  /\ IsSeq(h.bands[i]) /\ \A j \in 1 .. Len(h.bands[i]) : Plain(h.bands[i][j])
             /\ w.entries[i] = [id |-> BandOrder[i], off |-> w.entries[i].off, len |-> Len(h.bands[i]), crc |-> h.bands[i]]
             /\ w.entries[i].off \in Nat /\ w.entries[i].off >= Align /\ w.entries[i].off + w.entries[i].len <= Len(w.out)
             /\ \A j \in 1 .. Len(h.bands[i]) : w.out[w.entries[i].off + j] = h.bands[i][j]
             /\ w.entries[i].off = IF i = 1 THEN Align ELSE AlignUp(w.entries[i - 1].off + w.entries[i - 1].len)
             /\ \A j \in 1 .. i - 1 : w.entries[j].off + w.entries[j].len <= w.entries[i].off
  BY DEF LaidOut
<1>10. \A i \in 1 .. n : w.entries[i].len = Len(h.bands[i]) /\ Len(h.bands[i]) \in Nat
  <2> SUFFICES ASSUME NEW i \in 1 .. n PROVE w.entries[i].len = Len(h.bands[i]) /\ Len(h.bands[i]) \in Nat
    OBVIOUS
  <2>1. IsSeq(h.bands[i])
    BY <1>9
  <2>2. w.entries[i] = [id |-> BandOrder[i], off |-> w.entries[i].off, len |-> Len(h.bands[i]), crc |-> h.bands[i]]
    BY <1>9
  <2>3. w.entries[i].len = Len(h.bands[i])
    BY <2>2
  <2> QED BY <2>1, <2>3, SeqParts
<1>11. Len(pad) >= Align /\ (n = 0 => Len(pad) = Align)
       /\ (n > 0 => Len(pad) = AlignUp(w.entries[n].off + w.entries[n].len))
  <2>1. CASE n = 0
    <3>1. Len(w.out) = 2
      BY <1>1, <2>1 DEF LaidOut, HeaderCells
    <3> QED BY <1>2, <1>8, <2>1, <3>1
  <2>2. CASE n > 0
    <3>1. Len(w.out) = w.entries[n].off + w.entries[n].len
      BY <1>1, <2>2 DEF LaidOut
    <3>2. n \in 1 .. n
      BY <1>1, <2>2
    <3>3. w.entries[n].off >= Align /\ w.entries[n].off \in Nat /\ w.entries[n].len \in Nat
      BY <1>9, <1>10, <3>2
    <3> QED BY <1>2, <1>8, <2>2, <3>1, <3>3
  <2> QED BY <1>1, <2>1, <2>2
<1>12. ASSUME NEW i \in 1 .. n + 1
       PROVE  /\ IsSeq(g.bands[i]) /\ \A j \in 1 .. Len(g.bands[i]) : Plain(g.bands[i][j])
              /\ v.entries[i] = [id |-> BandOrder[i], off |-> v.entries[i].off, len |-> Len(g.bands[i]), crc |-> g.bands[i]]
              /\ v.entries[i].off \in Nat /\ v.entries[i].off >= Align /\ v.entries[i].off + v.entries[i].len <= Len(v.out)
              /\ \A j \in 1 .. Len(g.bands[i]) : v.out[v.entries[i].off + j] = g.bands[i][j]
              /\ v.entries[i].off = IF i = 1 THEN Align ELSE AlignUp(v.entries[i - 1].off + v.entries[i - 1].len)
              /\ \A j \in 1 .. i - 1 : v.entries[j].off + v.entries[j].len <= v.entries[i].off
  <2>1. CASE i = n + 1
    <3>1. g.bands[i] = payload /\ v.entries[i] = e
      BY <1>5, <1>6, <2>1
    <3>2. e = [id |-> BandOrder[i], off |-> e.off, len |-> Len(payload), crc |-> payload]
      BY <1>1, <2>1 DEF e
    <3>3. /\ e.off \in Nat /\ e.off >= Align /\ e.off + e.len <= Len(v.out)
          /\ \A j \in 1 .. Len(payload) : v.out[e.off + j] = payload[j]
      BY <1>1, <1>2, <1>4, <1>7, <1>11
    <3>4. e.off = IF i = 1 THEN Align ELSE AlignUp(v.entries[i - 1].off + v.entries[i - 1].len)
      <4>1. CASE n = 0
        BY <1>7, <1>11, <2>1, <4>1
      <4>2. CASE n > 0
        <5>1. i - 1 = n /\ i # 1 /\ n \in 1 .. n
          BY <1>1, <2>1, <4>2
        <5>2. v.entries[i - 1] = w.entries[n]
          BY <1>5, <5>1
        <5> QED BY <1>7, <1>11, <4>2, <5>1, <5>2
      <4> QED BY <1>1, <4>1, <4>2
    <3>5. ASSUME NEW j \in 1 .. i - 1 PROVE v.entries[j].off + v.entries[j].len <= e.off
      <4>1. j \in 1 .. n /\ v.entries[j] = w.entries[j]
        BY <1>1, <1>5, <2>1
      <4>2. w.entries[j].off + w.entries[j].len <= Len(w.out) /\ w.entries[j].off \in Nat /\ w.entries[j].len \in Nat
        BY <1>9, <1>10, <4>1
      <4>3. Len(w.out) <= e.off /\ e.off \in Nat /\ Len(w.out) \in Nat
        BY <1>1, <1>2, <1>7
      <4>4. w.entries[j].off + w.entries[j].len <= e.off
        BY <4>2, <4>3, Within, Zenon
      <4> QED BY <4>1, <4>4
    <3> QED BY <3>1, <3>2, <3>3, <3>4, <3>5
  <2>2. CASE i # n + 1
    <3>1. i \in 1 .. n /\ g.bands[i] = h.bands[i] /\ v.entries[i] = w.entries[i]
      <4>1. i \in 1 .. n
        BY <1>1, <2>2
      <4> QED BY <1>5, <1>6, <4>1
    <3>2. /\ IsSeq(h.bands[i]) /\ \A j \in 1 .. Len(h.bands[i]) : Plain(h.bands[i][j])
          /\ w.entries[i] = [id |-> BandOrder[i], off |-> w.entries[i].off, len |-> Len(h.bands[i]), crc |-> h.bands[i]]
          /\ w.entries[i].off \in Nat /\ w.entries[i].off >= Align
          /\ w.entries[i].len = Len(h.bands[i]) /\ Len(h.bands[i]) \in Nat
      BY <1>9, <1>10, <3>1
    <3>3. w.entries[i].off + w.entries[i].len <= Len(w.out)
      BY <1>9, <3>1
    <3>4. w.entries[i].off + w.entries[i].len <= Len(v.out)
      <4>1. Len(w.out) <= Len(v.out) /\ Len(w.out) \in Nat /\ Len(v.out) \in Nat
        BY <1>1, <1>2, <1>4
      <4>2. w.entries[i].off \in Nat /\ w.entries[i].len \in Nat
        BY <3>2
      <4> QED BY <3>3, <4>1, <4>2, Within, Zenon
    <3>5. ASSUME NEW j \in 1 .. Len(h.bands[i]) PROVE v.out[w.entries[i].off + j] = h.bands[i][j]
      <4>1. w.entries[i].off + j \in 1 .. Len(w.out)
        <5>1. w.entries[i].off \in Nat /\ w.entries[i].len \in Nat /\ j \in 1 .. w.entries[i].len
          BY <3>2
        <5>2. \A a, b, c \in Nat : \A x \in 1 .. b : a + b <= c => a + x \in 1 .. c
          OBVIOUS
        <5> QED BY <1>1, <3>3, <5>1, <5>2, Zenon
      <4>2. w.out[w.entries[i].off + j] = h.bands[i][j]
        BY <1>9, <3>1
      <4>3. w.entries[i].off + j \in 1 .. Len(pad)
        BY <1>1, <1>2, <4>1
      <4> QED BY <1>2, <1>4, <4>1, <4>2, <4>3
    <3>6. w.entries[i].off = IF i = 1 THEN Align ELSE AlignUp(v.entries[i - 1].off + v.entries[i - 1].len)
      <4>1. w.entries[i].off = IF i = 1 THEN Align ELSE AlignUp(w.entries[i - 1].off + w.entries[i - 1].len)
        BY <1>9, <3>1
      <4>2. i # 1 => v.entries[i - 1] = w.entries[i - 1]
        <5>1. i # 1 => i - 1 \in 1 .. n
          BY <1>1, <3>1
        <5> QED BY <1>5, <5>1
      <4> QED BY <4>1, <4>2
    <3>7. ASSUME NEW j \in 1 .. i - 1 PROVE v.entries[j].off + v.entries[j].len <= w.entries[i].off
      <4>1. j \in 1 .. n
        BY <1>1, <3>1
      <4>2. v.entries[j] = w.entries[j]
        BY <1>5, <4>1
      <4>3. w.entries[j].off + w.entries[j].len <= w.entries[i].off
        BY <1>9, <3>1
      <4> QED BY <4>2, <4>3
    <3> QED BY <3>1, <3>2, <3>4, <3>5, <3>6, <3>7
  <2> QED BY <2>1, <2>2
<1>13. ASSUME NEW k \in HeaderCells + 1 .. Len(v.out), \A i \in 1 .. n + 1 : ~InBand(v, i, k)
       PROVE  v.out[k] = Pad
  <2>1. k \in Nat /\ k > 2 /\ k <= Len(pad) + Len(payload)
    BY <1>1, <1>2, <1>4 DEF HeaderCells
  <2>2. k <= Len(pad)
    <3>1. n + 1 \in 1 .. n + 1
      BY <1>1
    <3>2. ~InBand(v, n + 1, k)
      BY <1>13, <3>1
    <3>3. k - Len(pad) \notin 1 .. Len(payload)
      BY <1>5, <1>7, <3>2 DEF InBand
    <3> QED BY <1>1, <1>2, <2>1, <3>3
  <2>3. v.out[k] = pad[k]
    BY <1>4, <2>1, <2>2
  <2>4. CASE k <= Len(w.out)
    <3>1. k \in HeaderCells + 1 .. Len(w.out) /\ k \in 1 .. Len(w.out)
      BY <1>1, <2>1, <2>4 DEF HeaderCells
    <3>2. \A i \in 1 .. n : ~InBand(w, i, k)
      <4> SUFFICES ASSUME NEW i \in 1 .. n PROVE ~InBand(w, i, k)
        OBVIOUS
      <4>1. i \in 1 .. n + 1 /\ v.entries[i] = w.entries[i]
        BY <1>1, <1>5
      <4> QED BY <1>13, <4>1 DEF InBand
    <3>3. w.out[k] = Pad
      BY <3>1, <3>2 DEF LaidOut
    <3> QED BY <1>2, <2>3, <3>1, <3>3
  <2>5. CASE k > Len(w.out)
    <3>1. k \in 1 .. Len(pad) /\ k > Len(w.out)
      BY <1>1, <1>2, <2>1, <2>2, <2>5
    <3> QED BY <1>2, <2>3, <3>1
  <2> QED BY <1>1, <2>1, <2>4, <2>5
<1>14. /\ Len(v.out) >= 2 /\ v.out[1] = [header |-> g.header] /\ v.out[2] = [writer |-> g.header.gen]
  <2>1. 1 \in 1 .. Len(w.out) /\ 2 \in 1 .. Len(w.out) /\ 1 \in 1 .. Len(pad) /\ 2 \in 1 .. Len(pad)
    BY <1>1, <1>2
  <2> QED BY <1>1, <1>2, <1>3, <1>4, <2>1
<1>15. Len(v.out) = v.entries[n + 1].off + v.entries[n + 1].len /\ v.entries # <<>> /\ v.next = n + 2
  <2>1. v.entries # <<>>
    BY <1>1, <1>5, SeqParts
  <2>2. v.next = n + 2
    BY <1>1, <1>3
  <2> QED BY <1>4, <1>5, <1>7, <2>1, <2>2
<1>16. LaidOut(v, g)
  <2> HIDE DEF n
  <2>1. Len(v.entries) = n + 1 /\ Len(g.bands) = Len(v.entries) /\ v.next = Len(v.entries) + 1 /\ Len(v.entries) <= NumBands
    BY <1>1, <1>5, <1>6, <1>15
  <2> QED BY <1>4, <1>5, <1>6, <1>12, <1>13, <1>14, <1>15, <2>1 DEF LaidOut, HeaderCells
<1> QED BY <1>16 DEF v, g

\* A band that the caller hands over holds nothing that passes for rot or a tail.
LEMMA GivenIs ==
  /\ \A m \in Meta \cup Stats : IsSeq(<<m>>) /\ Len(<<m>>) = 1 /\ \A j \in 1 .. 1 : <<m>>[j] = m /\ Plain(<<m>>[j])
  /\ \A p \in Payload : IsSeq(p) /\ \A j \in 1 .. Len(p) : Plain(p[j])
<1>1. \A p \in Payload : p \in Seq({p[i] : i \in DOMAIN p})
  BY FileAssumption
<1>2. \A cell \in Meta \cup Stats \cup UNION {{p[i] : i \in DOMAIN p} : p \in Payload} : Plain(cell)
  BY FileAssumption DEF Plain
<1>3. ASSUME NEW m \in Meta \cup Stats
      PROVE  IsSeq(<<m>>) /\ Len(<<m>>) = 1 /\ \A j \in 1 .. 1 : <<m>>[j] = m /\ Plain(<<m>>[j])
  <2>1. Plain(m)
    BY <1>2, Zenon
  <2>2. <<m>> \in Seq({m}) /\ Len(<<m>>) = 1 /\ <<m>>[1] = m
    OBVIOUS
  <2>3. IsSeq(<<m>>)
    BY <2>2, OwnSeq
  <2>4. \A j \in 1 .. 1 : j = 1
    OBVIOUS
  <2> QED BY <2>1, <2>2, <2>3, <2>4
<1>4. ASSUME NEW p \in Payload PROVE IsSeq(p) /\ \A j \in 1 .. Len(p) : Plain(p[j])
  <2>1. IsSeq(p)
    BY <1>1 DEF IsSeq
  <2>2. ASSUME NEW j \in 1 .. Len(p) PROVE Plain(p[j])
    <3>1. j \in DOMAIN p
      BY <2>1, SeqParts
    <3>2. p[j] \in {p[i] : i \in DOMAIN p}
      BY <3>1
    <3>3. p[j] \in UNION {{q[i] : i \in DOMAIN q} : q \in Payload}
      BY <3>2
    <3> QED BY <1>2, <3>3, Zenon
  <2> QED BY <2>1, <2>2
<1> QED BY <1>3, <1>4

\* A new writer has laid out the header and nothing else, then meta and fieldstats.
Opened(hdr) == [out |-> HeaderPage(hdr), next |-> 1, entries |-> <<>>]

LEMMA OpenedIs == ASSUME NEW hdr PROVE LaidOut(Opened(hdr), [header |-> hdr, bands |-> <<>>])
<1> DEFINE w == Opened(hdr)
           h == [header |-> hdr, bands |-> <<>>]
<1>1. w.out = <<[header |-> hdr], [writer |-> hdr.gen]>> /\ w.next = 1 /\ w.entries = <<>>
      /\ h.header = hdr /\ h.bands = <<>>
  BY DEF Opened, HeaderPage
<1>2. \A a, b : <<a, b>> \in Seq({a, b}) /\ Len(<<a, b>>) = 2 /\ <<a, b>>[1] = a /\ <<a, b>>[2] = b
  OBVIOUS
<1>3. Len(w.out) = 2 /\ w.out[1] = [header |-> hdr] /\ w.out[2] = [writer |-> hdr.gen]
  BY <1>1
<1>4. IsSeq(w.out)
  <2>1. \A a, b : IsSeq(<<a, b>>)
    <3> TAKE a, b
    <3>1. <<a, b>> \in Seq({a, b})
      BY <1>2
    <3> QED BY <3>1, OwnSeq
  <2> QED BY <1>1, <2>1
<1>5. IsSeq(<<>>) /\ Len(<<>>) = 0
  BY DEF IsSeq
<1>6. NumBands \in Nat
  BY FileAssumption
<1> HIDE DEF w, h
<1>7. \A i \in 1 .. 0 : FALSE
  OBVIOUS
<1>8. \A k \in 3 .. 2 : FALSE
  OBVIOUS
<1> QED BY <1>1, <1>3, <1>4, <1>5, <1>6, <1>7, <1>8 DEF LaidOut, HeaderCells, w, h

\* A writer under way: at least meta and fieldstats are out, and they agree with the header.
Begun(w, h) ==
  /\ LaidOut(w, h) /\ Len(w.entries) >= 2 /\ h = [header |-> h.header, bands |-> h.bands]
  /\ Len(h.bands[1]) = 1 /\ Len(h.bands[2]) = 1
  /\ TrioAgrees(h.header, h.bands[1][1], h.bands[2][1])

LEMMA Begins ==
  ASSUME NEW hdr, NEW m \in Meta, NEW s \in Stats, TrioAgrees(hdr, m, s),
         NEW w, w = Streamed(Streamed(Opened(hdr), BandOrder[1], <<m>>), BandOrder[2], <<s>>)
  PROVE  Begun(w, [header |-> hdr, bands |-> <<<<m>>, <<s>>>>])
<1> DEFINE a == Opened(hdr)
           h0 == [header |-> hdr, bands |-> <<>>]
           b == Streamed(a, BandOrder[1], <<m>>)
           h1 == Handed(h0, <<m>>)
           h2 == Handed(h1, <<s>>)
<1>1. NumBands \in Nat /\ NumBands >= 2
  BY FileAssumption
<1>2. IsSeq(<<m>>) /\ (\A j \in 1 .. Len(<<m>>) : Plain(<<m>>[j])) /\ IsSeq(<<s>>) /\ (\A j \in 1 .. Len(<<s>>) : Plain(<<s>>[j]))
  BY GivenIs
<1>3. LaidOut(a, h0) /\ a.next = 1
  BY OpenedIs DEF Opened
<1>4. b = Streamed(a, BandOrder[a.next], <<m>>)
  BY <1>3
<1>5. LaidOut(b, h1)
  <2> HIDE DEF a, h0
  <2>1. a.next <= NumBands
    BY <1>1, <1>3
  <2>2. LaidOut(Streamed(a, BandOrder[a.next], <<m>>), Handed(h0, <<m>>))
    BY <1>2, <1>3, <2>1, StreamKeeps
  <2> QED BY <1>4, <2>2
<1>6. b.next = 2
  <2> HIDE DEF a
  <2> QED BY <1>3 DEF Streamed
<1>7. LaidOut(w, h2)
  <2>1. w = Streamed(b, BandOrder[b.next], <<s>>)
    BY <1>6
  <2> HIDE DEF b, h1
  <2>2. b.next <= NumBands
    BY <1>1, <1>6
  <2>3. LaidOut(Streamed(b, BandOrder[b.next], <<s>>), Handed(h1, <<s>>))
    BY <1>2, <1>5, <2>2, StreamKeeps
  <2> QED BY <2>1, <2>3
<1>8. h2 = [header |-> hdr, bands |-> <<<<m>>, <<s>>>>]
  <2>1. \A x, y : Append(Append(<<>>, x), y) = <<x, y>>
    <3> TAKE x, y
    <3> DEFINE f == Append(<<>>, x)
               g == Append(f, y)
    <3>1. IsSeq(<<>>) /\ Len(<<>>) = 0
      BY DEF IsSeq
    <3>2. IsSeq(f) /\ Len(f) = Len(<<>>) + 1 /\ f[Len(<<>>) + 1] = x
      <4> DEFINE e == <<>>
      <4>1. IsSeq(e)
        BY <3>1
      <4> HIDE DEF e
      <4>2. IsSeq(Append(e, x)) /\ Len(Append(e, x)) = Len(e) + 1 /\ Append(e, x)[Len(e) + 1] = x
        BY <4>1, AppendParts
      <4> QED BY <4>2 DEF e
    <3>6. Len(f) = 1 /\ f[1] = x
      BY <3>1, <3>2
    <3> HIDE DEF f
    <3> HIDE DEF g
    <3>8. IsSeq(f)
      BY <3>2
    <3>7. /\ IsSeq(Append(f, y)) /\ Len(Append(f, y)) = Len(f) + 1 /\ Append(f, y)[Len(f) + 1] = y
          /\ \A i \in 1 .. Len(f) : Append(f, y)[i] = f[i]
      BY <3>8, AppendParts
    <3>3. IsSeq(g) /\ Len(g) = 2 /\ g[2] = y /\ g[1] = x
      BY <3>6, <3>7 DEF g
    <3>4. DOMAIN g = 1 .. 2 /\ g = [i \in 1 .. 2 |-> g[i]]
      BY <3>3, SeqParts DEF IsSeq
    <3>5. g = <<x, y>>
      BY <3>3, <3>4
    <3> QED BY <3>5 DEF g, f
  <2> QED BY <2>1 DEF Handed
<1>9. Len(w.entries) = 2
  <2>1. Len(h2.bands) = 2
    BY <1>8
  <2> HIDE DEF h2
  <2> QED BY <1>7, <2>1 DEF LaidOut
<1> DEFINE h == [header |-> hdr, bands |-> <<<<m>>, <<s>>>>]
<1>16. h = [header |-> h.header, bands |-> h.bands]
  OBVIOUS
<1>10. h.header = hdr /\ h.bands[1] = <<m>> /\ h.bands[2] = <<s>>
  OBVIOUS
<1>11. LaidOut(w, h)
  BY <1>7, <1>8
<1>12. Len(h.bands[1]) = 1 /\ Len(h.bands[2]) = 1 /\ h.bands[1][1] = m /\ h.bands[2][1] = s
  BY <1>10
<1> HIDE DEF h
<1>13. TrioAgrees(h.header, h.bands[1][1], h.bands[2][1])
  BY <1>10, <1>12
<1>14. Len(w.entries) >= 2
  BY <1>9
<1>15. Begun(w, h)
  BY <1>11, <1>12, <1>13, <1>14, <1>16 DEF Begun
<1> QED BY <1>15 DEF h

LEMMA GoesOn ==
  ASSUME NEW w, NEW h, Begun(w, h), w.next <= NumBands, NEW payload \in Payload
  PROVE  Begun(Streamed(w, BandOrder[w.next], payload), Handed(h, payload))
<1> DEFINE v == Streamed(w, BandOrder[w.next], payload)
           g == Handed(h, payload)
<1>1. IsSeq(payload) /\ \A j \in 1 .. Len(payload) : Plain(payload[j])
  BY GivenIs
<1>2. LaidOut(v, g)
  BY <1>1, StreamKeeps DEF Begun
<1>3. IsSeq(h.bands) /\ Len(h.bands) = Len(w.entries) /\ Len(w.entries) >= 2 /\ Len(h.bands) \in Nat
  BY SeqParts DEF Begun, LaidOut
<1>8. g = [header |-> g.header, bands |-> g.bands]
  BY DEF Handed
<1>4. g.header = h.header /\ g.bands = Append(h.bands, payload)
  BY DEF Handed
<1> HIDE DEF v, g
<1>5. Len(g.bands) = Len(h.bands) + 1 /\ g.bands[1] = h.bands[1] /\ g.bands[2] = h.bands[2]
  <2>1. 1 \in 1 .. Len(h.bands) /\ 2 \in 1 .. Len(h.bands)
    BY <1>3
  <2> QED BY <1>3, <1>4, <2>1, AppendParts
<1>6. Len(v.entries) >= 2
  BY <1>2, <1>3, <1>5 DEF LaidOut
<1>7. Begun(v, g)
  BY <1>2, <1>4, <1>5, <1>6, <1>8 DEF Begun
<1> QED BY <1>7 DEF v, g

\* F is the output of w to the boundary off, the footer and the tail.
IsFinished(F, w, off) ==
  /\ IsSeq(F) /\ off \in Nat /\ Len(w.out) <= off /\ off = AlignUp(Len(w.out)) /\ off % Align = 0 /\ Len(F) = off + 2
  /\ \A k \in 1 .. Len(w.out) : F[k] = w.out[k]
  /\ \A k \in 1 .. off : k > Len(w.out) => F[k] = Pad
  /\ F[off + 1] = Footer(w.entries, 0) /\ F[off + 2] = Tail_(off)

LEMMA FinishedIs ==
  ASSUME NEW w, IsSeq(w.out), Len(w.out) > 0
  PROVE  IsFinished(Finished(w, 0), w, AlignUp(Len(w.out)))
<1> DEFINE f == w.out
           g == f \o Padding(Len(f))
           F == Finished(w, 0)
           a == Footer(w.entries, 0)
           b == Tail_(Len(g))
           t == <<a, b>>
           off == AlignUp(Len(f))
<1>1. F = g \o t
  BY DEF Finished
<1>2. IsSeq(f) /\ Len(f) > 0 /\ g = f \o Padding(Len(f))
  OBVIOUS
<1>19. off = AlignUp(Len(f))
  OBVIOUS
<1> HIDE DEF f, g, F, off, a, b, t
<1>3. IsSeq(g) /\ Len(g) = off /\ Len(f) \in Nat /\ Len(f) <= Len(g) /\ Len(g) \in Nat
  BY <1>2, <1>19, PaddedIs
<1>4. \A k \in 1 .. Len(f) : g[k] = f[k]
  BY <1>2, PaddedIs
<1>5. \A k \in 1 .. Len(g) : k > Len(f) => g[k] = Pad
  BY <1>2, PaddedIs
<1>6. off % Align = 0
  BY <1>2, <1>3, <1>19, AlignIs
<1>7. IsSeq(t) /\ Len(t) = 2 /\ t[1] = a /\ t[2] = b
  <2> HIDE DEF a, b
  <2>1. <<a, b>> \in Seq({a, b}) /\ Len(<<a, b>>) = 2 /\ <<a, b>>[1] = a /\ <<a, b>>[2] = b
    OBVIOUS
  <2> QED BY <2>1, OwnSeq DEF t
<1>20. IsSeq(g) /\ IsSeq(t)
  BY <1>3, <1>7
<1>8. IsSeq(g \o t) /\ Len(g \o t) = Len(g) + Len(t)
  BY <1>20, Joined
<1>9. \A k \in 1 .. Len(g) : (g \o t)[k] = g[k]
  BY <1>20, Joined
<1>10. \A k \in 1 .. Len(t) : (g \o t)[Len(g) + k] = t[k]
  BY <1>20, Joined
<1>11. IsSeq(F) /\ Len(F) = off + 2 /\ off \in Nat /\ Len(f) <= off
  BY <1>1, <1>3, <1>7, <1>8
<1>12. F[off + 1] = a /\ F[off + 2] = b
  <2>1. 1 \in 1 .. Len(t) /\ 2 \in 1 .. Len(t)
    BY <1>7
  <2> QED BY <1>1, <1>3, <1>7, <1>10, <2>1
<1>13. \A k \in 1 .. off : F[k] = g[k]
  BY <1>1, <1>3, <1>9
<1>14. \A k \in 1 .. Len(f) : F[k] = f[k]
  BY <1>4, <1>11, <1>13, <1>3
<1>15. \A k \in 1 .. off : k > Len(f) => F[k] = Pad
  BY <1>3, <1>5, <1>13
<1>16. b = Tail_(off)
  BY <1>3 DEF b
<1>18. IsFinished(F, w, off)
  BY <1>6, <1>11, <1>12, <1>14, <1>15, <1>16, <1>19 DEF IsFinished, a, f
<1> QED BY <1>18 DEF F, off, f

\* No cell before the last passes for a tail, and nothing opens without one.
LEMMA NoTail ==
  ASSUME NEW w, NEW h, LaidOut(w, h)
  PROVE  \A k \in 1 .. Len(w.out) : ~HasField(w.out[k], "footerOff")
<1> SUFFICES ASSUME NEW k \in 1 .. Len(w.out) PROVE ~HasField(w.out[k], "footerOff")
  OBVIOUS
<1>1. /\ IsSeq(w.out) /\ Len(w.out) \in Nat /\ w.out[1] = [header |-> h.header] /\ w.out[2] = [writer |-> h.header.gen]
      /\ IsSeq(w.entries) /\ Len(w.entries) \in Nat
  BY SeqParts DEF LaidOut
<1>2. /\ \A x : ~HasField([header |-> x], "footerOff") /\ ~HasField([writer |-> x], "footerOff")
      /\ ~HasField(Pad, "footerOff")
  BY DEF HasField, Pad
<1>3. CASE k = 1
  BY <1>1, <1>2, <1>3
<1>4. CASE k = 2
  BY <1>1, <1>2, <1>4
<1>5. CASE k > 2
  <2>1. k \in HeaderCells + 1 .. Len(w.out)
    BY <1>1, <1>5 DEF HeaderCells
  <2>2. CASE \A i \in 1 .. Len(w.entries) : ~InBand(w, i, k)
    <3>1. w.out[k] = Pad
      BY <2>1, <2>2 DEF LaidOut
    <3> QED BY <1>2, <3>1
  <2>3. CASE \E i \in 1 .. Len(w.entries) : InBand(w, i, k)
    <3>1. PICK i \in 1 .. Len(w.entries) : InBand(w, i, k)
      BY <2>3
    <3> DEFINE j == k - w.entries[i].off
    <3>2. /\ w.entries[i] = [id |-> BandOrder[i], off |-> w.entries[i].off, len |-> Len(h.bands[i]), crc |-> h.bands[i]]
          /\ w.entries[i].off \in Nat
          /\ \A q \in 1 .. Len(h.bands[i]) : w.out[w.entries[i].off + q] = h.bands[i][q] /\ Plain(h.bands[i][q])
      BY DEF LaidOut
    <3>3. j \in 1 .. Len(h.bands[i]) /\ w.entries[i].off + j = k
      <4>1. w.entries[i].len = Len(h.bands[i])
        BY <3>2
      <4>2. j \in 1 .. Len(h.bands[i])
        BY <3>1, <4>1 DEF InBand
      <4> QED BY <1>1, <3>2, <4>2
    <3> HIDE DEF j
    <3>4. w.out[k] = h.bands[i][j] /\ Plain(h.bands[i][j])
      BY <3>2, <3>3
    <3> QED BY <3>4 DEF Plain
  <2> QED BY <2>2, <2>3
<1> QED BY <1>1, <1>3, <1>4, <1>5

LEMMA NotOpen == \A D : Len(D) > 0 /\ Opens(D) => HasField(D[Len(D)], "footerOff")
BY DEF Opens, TailFits

\* D is F but for cells that rotted.
Worn(D, F) == IsSeq(D) /\ Len(D) = Len(F) /\ \A k \in 1 .. Len(F) : D[k] \in {F[k], Rot}

LEMMA RotIs == \A name \in {"footerOff", "body", "header"} : ~HasField(Rot, name)
BY DEF HasField, Rot

\* What a worn file has left of its frame.
LEMMA FrameIs ==
  ASSUME NEW w, NEW off, NEW F, IsFinished(F, w, off), NEW D, Worn(D, F)
  PROVE  /\ HasField(D[Len(D)], "footerOff") => D[Len(D)] = Tail_(off) /\ D[Len(D)].footerOff = off
         /\ HasField(D[off + 1], "body") => D[off + 1] = Footer(w.entries, 0) /\ D[off + 1].body.bands = w.entries
<1>1. /\ off \in Nat /\ Len(D) = off + 2 /\ F[off + 1] = Footer(w.entries, 0) /\ F[off + 2] = Tail_(off) /\ Len(F) = off + 2
      /\ \A k \in 1 .. Len(F) : D[k] \in {F[k], Rot}
  BY DEF IsFinished, Worn
<1>2. off + 1 \in 1 .. Len(F) /\ off + 2 \in 1 .. Len(F)
  BY <1>1
<1>3. D[off + 1] \in {F[off + 1], Rot} /\ D[off + 2] \in {F[off + 2], Rot}
  BY <1>1, <1>2
<1>4. Tail_(off).footerOff = off
  BY DEF Tail_
<1>5. Footer(w.entries, 0).body.bands = w.entries
  BY DEF Footer
<1> QED BY <1>1, <1>3, <1>4, <1>5, RotIs

\* The entries of a worn file that opens are the writer's.
LEMMA EntriesAre ==
  ASSUME NEW w, NEW off, NEW F, IsFinished(F, w, off), NEW D, Worn(D, F), Opens(D)
  PROVE  /\ Entries(D) = w.entries
         /\ D[off + 1] = Footer(w.entries, 0) /\ D[off + 2] = Tail_(off) /\ HasField(D[1], "header")
<1>1. Len(D) = off + 2
  BY DEF IsFinished, Worn
<1>2. HasField(D[Len(D)], "footerOff") /\ HasField(D[1], "header")
  BY DEF Opens, TailFits
<1>3. D[Len(D)] = Tail_(off) /\ D[Len(D)].footerOff = off
  BY <1>2, FrameIs
<1>4. HasField(D[off + 1], "body")
  BY <1>3 DEF Opens, FooterFits
<1>5. D[off + 1] = Footer(w.entries, 0) /\ D[off + 1].body.bands = w.entries
  BY <1>4, FrameIs
<1> QED BY <1>1, <1>2, <1>3, <1>5 DEF Entries

\* What the entries of a writer say.
LEMMA BandIs ==
  ASSUME NEW w, NEW h, LaidOut(w, h), NEW i \in 1 .. Len(w.entries)
  PROVE  /\ IsSeq(h.bands[i]) /\ Len(h.bands[i]) \in Nat /\ \A j \in 1 .. Len(h.bands[i]) : Plain(h.bands[i][j])
         /\ w.entries[i].id = BandOrder[i] /\ w.entries[i].len = Len(h.bands[i]) /\ w.entries[i].crc = h.bands[i]
         /\ w.entries[i].off \in Nat /\ w.entries[i].off >= Align /\ w.entries[i].off + Len(h.bands[i]) <= Len(w.out)
         /\ \A j \in 1 .. Len(h.bands[i]) : w.out[w.entries[i].off + j] = h.bands[i][j]
         /\ w.entries[i].off = IF i = 1 THEN Align ELSE AlignUp(w.entries[i - 1].off + w.entries[i - 1].len)
<1>1. /\ IsSeq(h.bands[i]) /\ \A j \in 1 .. Len(h.bands[i]) : Plain(h.bands[i][j])
      /\ w.entries[i] = [id |-> BandOrder[i], off |-> w.entries[i].off, len |-> Len(h.bands[i]), crc |-> h.bands[i]]
      /\ w.entries[i].off \in Nat /\ w.entries[i].off >= Align /\ w.entries[i].off + w.entries[i].len <= Len(w.out)
      /\ \A j \in 1 .. Len(h.bands[i]) : w.out[w.entries[i].off + j] = h.bands[i][j]
      /\ w.entries[i].off = IF i = 1 THEN Align ELSE AlignUp(w.entries[i - 1].off + w.entries[i - 1].len)
  BY DEF LaidOut
<1>2. Len(h.bands[i]) \in Nat
  BY <1>1, SeqParts
<1>3. w.entries[i].id = BandOrder[i] /\ w.entries[i].len = Len(h.bands[i]) /\ w.entries[i].crc = h.bands[i]
  BY <1>1
<1> QED BY <1>1, <1>2, <1>3

\* A finished file opens, with every band as it was handed over.
LEMMA WholeOpens ==
  ASSUME NEW w, NEW h, Begun(w, h), Len(w.entries) = NumBands, NEW off, NEW F, IsFinished(F, w, off)
  PROVE  /\ Opens(F) /\ VerifyBands(F) /\ F[1].header = h.header
         /\ \A i \in 1 .. NumBands : ReadBand(F, i) = h.bands[i]
<1>1. /\ IsSeq(F) /\ off \in Nat /\ Len(w.out) <= off /\ off = AlignUp(Len(w.out)) /\ off % Align = 0 /\ Len(F) = off + 2
      /\ \A k \in 1 .. Len(w.out) : F[k] = w.out[k]
      /\ F[off + 1] = Footer(w.entries, 0) /\ F[off + 2] = Tail_(off)
  BY DEF IsFinished
<1>2. LaidOut(w, h) /\ IsSeq(w.out) /\ Len(w.out) \in Nat /\ Len(w.out) >= 2 /\ w.out[1] = [header |-> h.header]
  BY SeqParts DEF Begun, LaidOut, HeaderCells
<1>3. NumBands \in Nat /\ NumBands >= 2 /\ 1 \in 1 .. NumBands /\ 2 \in 1 .. NumBands /\ NumBands \in 1 .. NumBands /\ Align \in Nat
  BY FileAssumption
<1>4. Worn(F, F)
  BY <1>1 DEF Worn
<1>5. F[Len(F)] = Tail_(off) /\ HasField(Tail_(off), "footerOff") /\ Tail_(off).footerOff = off /\ Tail_(off).footerLen = 1
      /\ Tail_(off).crc = <<off, 1>>
  BY <1>1 DEF HasField, Tail_
<1>6. HasField(F[off + 1], "body") /\ F[off + 1].crc = F[off + 1].body /\ F[off + 1].body.bands = w.entries
  BY <1>1 DEF HasField, Footer
<1>7. Entries(F) = w.entries
  BY <1>5, <1>6 DEF Entries
<1>8. ASSUME NEW i \in 1 .. NumBands PROVE ReadsBand(F, i) /\ ReadBand(F, i) = h.bands[i]
  <2> DEFINE t == h.bands[i]
             m == w.entries[i].off
  <2>1. i \in 1 .. Len(w.entries)
    OBVIOUS
  <2>2. /\ IsSeq(t) /\ Len(t) \in Nat /\ w.entries[i].len = Len(t) /\ w.entries[i].crc = t
        /\ m \in Nat /\ m + Len(t) <= Len(w.out) /\ \A j \in 1 .. Len(t) : w.out[m + j] = t[j]
    BY <1>2, <2>1, BandIs
  <2> HIDE DEF t, m
  <2>3. m + Len(t) <= Len(F)
    BY <1>1, <1>2, <2>2
  <2>4. ASSUME NEW j \in 1 .. Len(t) PROVE F[m + j] = t[j]
    <3>1. m + j \in 1 .. Len(w.out)
      BY <1>2, <2>2
    <3> QED BY <1>1, <2>2, <3>1
  <2>8. IsSeq(F) /\ IsSeq(t) /\ m \in Nat
    BY <1>1, <2>2
  <2>5. SubSeq(F, m + 1, m + Len(t)) = t
    BY <2>3, <2>4, <2>8, CutIs
  <2>6. ReadAt(F, m, w.entries[i].len) = t
    BY <2>2, <2>5 DEF ReadAt
  <2>7. ReadAt(F, Entries(F)[i].off, Entries(F)[i].len) = t /\ Entries(F)[i].crc = t
    BY <1>7, <2>2, <2>6 DEF m
  <2> QED BY <2>7 DEF ReadsBand, ReadBand, t
<1>9. off >= Align + 1
  <2>1. w.entries[1].off >= Align /\ w.entries[1].off \in Nat /\ w.entries[1].off + Len(h.bands[1]) <= Len(w.out)
    <3>1. 1 \in 1 .. Len(w.entries)
      BY <1>3
    <3> QED BY <1>2, <3>1, BandIs
  <2>2. Len(h.bands[1]) = 1
    BY DEF Begun
  <2> QED BY <1>1, <1>2, <1>3, <2>1, <2>2
<1>10. TailFits(F)
  <2>1. Len(F) >= HeaderCells + Align + 1
    BY <1>1, <1>3, <1>9 DEF HeaderCells
  <2> QED BY <1>1, <1>5, <2>1 DEF TailFits
<1>11. FooterFits(F)
  <2>1. F[Len(F)].footerOff = off
    BY <1>5
  <2>2. ASSUME NEW i \in 1 .. NumBands
        PROVE  /\ w.entries[i].id = BandOrder[i]
               /\ w.entries[i].off = IF i = 1 THEN Align ELSE AlignUp(w.entries[i - 1].off + w.entries[i - 1].len)
               /\ w.entries[i].off + w.entries[i].len <= off
    <3>1. i \in 1 .. Len(w.entries)
      OBVIOUS
    <3>2. /\ w.entries[i].id = BandOrder[i] /\ w.entries[i].len = Len(h.bands[i]) /\ Len(h.bands[i]) \in Nat
          /\ w.entries[i].off \in Nat /\ w.entries[i].off + Len(h.bands[i]) <= Len(w.out)
          /\ w.entries[i].off = IF i = 1 THEN Align ELSE AlignUp(w.entries[i - 1].off + w.entries[i - 1].len)
      BY <1>2, <3>1, BandIs
    <3>3. w.entries[i].off + w.entries[i].len <= Len(w.out) /\ w.entries[i].len \in Nat
      BY <3>2
    <3>4. w.entries[i].off + w.entries[i].len <= off
      BY <1>1, <1>2, <3>2, <3>3, Within, Zenon
    <3> QED BY <3>2, <3>4
  <2>3. AlignUp(w.entries[NumBands].off + w.entries[NumBands].len) = off
    <3>1. w.entries # <<>>
      <4>1. IsSeq(w.entries)
        BY <1>2 DEF LaidOut
      <4> QED BY <1>3, <4>1, SeqParts
    <3>2. Len(w.out) = w.entries[NumBands].off + w.entries[NumBands].len
      BY <1>2, <3>1 DEF LaidOut
    <3> QED BY <1>1, <3>2
  <2> QED BY <1>6, <2>1, <2>2, <2>3 DEF FooterFits
<1>12. F[1] = [header |-> h.header]
  <2>1. 1 \in 1 .. Len(w.out)
    BY <1>2
  <2> QED BY <1>1, <1>2, <2>1
<1>13. HasField(F[1], "header") /\ F[1].header = h.header
  BY <1>12 DEF HasField
<1>14. TrioAgrees(F[1].header, ReadBand(F, 1)[1], ReadBand(F, 2)[1]) /\ HeaderValid(F[1].header)
  <2>1. TrioAgrees(h.header, h.bands[1][1], h.bands[2][1])
    BY DEF Begun
  <2>2. ReadBand(F, 1) = h.bands[1] /\ ReadBand(F, 2) = h.bands[2]
    BY <1>3, <1>8
  <2>3. HeaderValid(h.header)
    BY <2>1 DEF TrioAgrees
  <2> QED BY <1>13, <2>1, <2>2, <2>3
<1>15. Opens(F)
  <2>1. Len(F) > 0
    BY <1>1
  <2> QED BY <1>3, <1>8, <1>10, <1>11, <1>13, <1>14, <2>1 DEF Opens
<1> QED BY <1>8, <1>13, <1>15 DEF VerifyBands

\* A worn file that opens has the header and, of the bands that read, those that were
\* handed over; when all of them read, what rotted is under no checksum.
LEMMA WornReads ==
  ASSUME NEW w, NEW h, Begun(w, h), Len(w.entries) = NumBands, NEW off, NEW F, IsFinished(F, w, off),
         NEW D, Worn(D, F), Opens(D)
  PROVE  /\ D[1].header = h.header
         /\ \A i \in 1 .. NumBands : ReadsBand(D, i) => ReadBand(D, i) = h.bands[i]
         /\ VerifyBands(D) => \A k \in 1 .. Len(D) : D[k] = Rot => k = HeaderCells \/ F[k] = Pad
<1>1. /\ IsSeq(F) /\ off \in Nat /\ Len(w.out) <= off /\ Len(F) = off + 2
      /\ \A k \in 1 .. Len(w.out) : F[k] = w.out[k]
      /\ \A k \in 1 .. off : k > Len(w.out) => F[k] = Pad
      /\ F[off + 1] = Footer(w.entries, 0) /\ F[off + 2] = Tail_(off)
  BY DEF IsFinished
<1>2. LaidOut(w, h) /\ IsSeq(w.out) /\ Len(w.out) \in Nat /\ Len(w.out) >= 2 /\ w.out[1] = [header |-> h.header]
  BY SeqParts DEF Begun, LaidOut, HeaderCells
<1>3. IsSeq(D) /\ Len(D) = off + 2 /\ \A k \in 1 .. Len(F) : D[k] \in {F[k], Rot}
  BY <1>1 DEF Worn
<1>4. Entries(D) = w.entries /\ D[off + 1] = Footer(w.entries, 0) /\ D[off + 2] = Tail_(off) /\ HasField(D[1], "header")
  BY EntriesAre
<1>5. D[1] = [header |-> h.header]
  <2>1. 1 \in 1 .. Len(w.out) /\ 1 \in 1 .. Len(F)
    BY <1>1, <1>2
  <2>2. F[1] = [header |-> h.header] /\ D[1] \in {F[1], Rot}
    BY <1>1, <1>2, <1>3, <2>1
  <2> QED BY <1>4, <2>2, RotIs
<1>6. ASSUME NEW i \in 1 .. NumBands, ReadsBand(D, i)
      PROVE  ReadBand(D, i) = h.bands[i] /\ SubSeq(D, w.entries[i].off + 1, w.entries[i].off + w.entries[i].len) = h.bands[i]
  <2>1. w.entries[i].crc = h.bands[i]
    BY <1>2, BandIs
  <2>2. ReadAt(D, w.entries[i].off, w.entries[i].len) = h.bands[i]
    BY <1>4, <1>6, <2>1 DEF ReadsBand
  <2> QED BY <1>4, <2>2 DEF ReadBand, ReadAt
<1>7. ASSUME VerifyBands(D), NEW k \in 1 .. Len(D), D[k] = Rot PROVE k = HeaderCells \/ F[k] = Pad
  <2>1. k \in Nat /\ k >= 1 /\ k <= off + 2
    BY <1>1, <1>3
  <2>2. /\ HasField(Footer(w.entries, 0), "body") /\ HasField(Tail_(off), "footerOff")
        /\ HasField([header |-> h.header], "header")
    BY DEF HasField, Footer, Tail_
  <2>3. k # off + 1 /\ k # off + 2 /\ k # 1
    BY <1>4, <1>5, <1>7, <2>2, RotIs
  <2>4. CASE k > Len(w.out)
    BY <1>1, <1>2, <2>1, <2>3, <2>4
  <2>5. CASE k <= Len(w.out) /\ k # 2
    <3>1. k \in HeaderCells + 1 .. Len(w.out) /\ k \in 1 .. Len(w.out)
      BY <1>2, <2>1, <2>3, <2>5 DEF HeaderCells
    <3>2. ASSUME NEW i \in 1 .. Len(w.entries), InBand(w, i, k) PROVE FALSE
      <4> DEFINE t == h.bands[i]
                 m == w.entries[i].off
                 j == k - m
                 c == SubSeq(D, m + 1, m + w.entries[i].len)
      <4>1. i \in 1 .. NumBands /\ ReadsBand(D, i)
        BY <1>7 DEF VerifyBands
      <4>2. c = t
        BY <1>6, <4>1
      <4>3. /\ Len(t) \in Nat /\ w.entries[i].len = Len(t) /\ m \in Nat /\ m + Len(t) <= Len(w.out)
            /\ \A q \in 1 .. Len(t) : Plain(t[q])
        <5>1. LaidOut(w, h)
          BY <1>2
        <5> HIDE DEF j, c
        <5>2. /\ Len(h.bands[i]) \in Nat /\ w.entries[i].len = Len(h.bands[i]) /\ w.entries[i].off \in Nat
              /\ w.entries[i].off + Len(h.bands[i]) <= Len(w.out)
          BY <5>1, BandIs
        <5>3. \A q \in 1 .. Len(h.bands[i]) : Plain(h.bands[i][q])
          BY <5>1, BandIs
        <5> QED BY <5>2, <5>3
      <4>4. j \in 1 .. Len(t)
        BY <3>2, <4>3 DEF InBand
      <4>5. c = SubSeq(D, m + 1, m + Len(t))
        BY <4>3
      <4> HIDE DEF t, m, c
      <4>6. m + 1 \in Nat /\ m + Len(t) \in Nat /\ m + 1 >= 1 /\ m + Len(t) <= Len(D)
        <5>1. Len(t) \in Nat /\ m \in Nat /\ m + Len(t) <= Len(w.out)
          BY <4>3
        <5>2. Len(w.out) <= Len(D) /\ Len(w.out) \in Nat /\ Len(D) \in Nat
          BY <1>1, <1>2, <1>3
        <5>3. m + Len(t) <= Len(D)
          BY <5>1, <5>2, Within, Zenon
        <5> QED BY <5>1, <5>3
      <4>7. \A q \in 1 .. (m + Len(t)) - (m + 1) + 1 : c[q] = D[(m + 1) + q - 1]
        BY <1>3, <4>5, <4>6, Cut
      <4>8. j \in 1 .. (m + Len(t)) - (m + 1) + 1 /\ (m + 1) + j - 1 = k
        BY <2>1, <4>3, <4>4
      <4>9. c[j] = D[k]
        BY <4>7, <4>8
      <4>10. Plain(t[j])
        BY <4>3, <4>4
      <4> QED BY <1>7, <4>2, <4>9, <4>10 DEF Plain
    <3>3. w.out[k] = Pad
      BY <1>2, <3>1, <3>2 DEF LaidOut
    <3> QED BY <1>1, <3>1, <3>3
  <2> QED BY <1>2, <2>1, <2>4, <2>5 DEF HeaderCells
<1>8. D[1].header = h.header
  BY <1>5
<1> QED BY <1>6, <1>7, <1>8

\* The assembler places the bands where the writer did, and the footer behind them.
LEMMA StartsAre ==
  ASSUME NEW w, NEW h, LaidOut(w, h), Len(w.entries) = NumBands
  PROVE  /\ \A i \in 1 .. NumBands : Starts(h.bands)[i] = w.entries[i].off
         /\ Starts(h.bands)[NumBands + 1] = AlignUp(Len(w.out))
<1> DEFINE N == NumBands
           Z == AlignUp(Len(w.out))
           b == h.bands
           Placed(t) == t = [i \in 1 .. N + 1 |-> IF i = 1 THEN Align ELSE AlignUp(t[i - 1] + Len(b[i - 1]))]
           s == [i \in 1 .. N + 1 |-> IF i <= N THEN w.entries[i].off ELSE Z]
           T == Starts(h.bands)
<1>1. N \in Nat /\ N >= 2
  BY FileAssumption
<1>2. ASSUME NEW i \in 1 .. N + 1
      PROVE  s[i] = IF i = 1 THEN Align ELSE AlignUp(s[i - 1] + Len(b[i - 1]))
  <2>1. CASE i <= N
    <3>1. i \in 1 .. Len(w.entries)
      BY <1>1, <2>1
    <3>2. w.entries[i].off = IF i = 1 THEN Align ELSE AlignUp(w.entries[i - 1].off + w.entries[i - 1].len)
      BY <3>1, BandIs
    <3>3. ASSUME i # 1 PROVE s[i - 1] = w.entries[i - 1].off /\ w.entries[i - 1].len = Len(b[i - 1])
      <4>1. i - 1 \in 1 .. Len(w.entries) /\ i - 1 \in 1 .. N + 1 /\ i - 1 <= N
        BY <1>1, <2>1, <3>3
      <4>2. w.entries[i - 1].len = Len(h.bands[i - 1])
        BY <4>1, BandIs
      <4> QED BY <4>1, <4>2
    <3>4. s[i] = w.entries[i].off
      BY <2>1
    <3> HIDE DEF s, b
    <3> QED BY <3>2, <3>3, <3>4
  <2>2. CASE i = N + 1
    <3>1. N \in 1 .. Len(w.entries) /\ N \in 1 .. N + 1 /\ i # 1 /\ i - 1 = N /\ ~ (i <= N)
      BY <1>1, <2>2
    <3>2. w.entries[N].len = Len(h.bands[N])
      BY <3>1, BandIs
    <3>3. s[N] = w.entries[N].off /\ s[i] = Z
      BY <1>1, <3>1
    <3>4. Len(w.out) = w.entries[N].off + w.entries[N].len
      <4>1. IsSeq(w.entries)
        BY DEF LaidOut
      <4>2. w.entries # <<>>
        BY <1>1, <4>1, SeqParts
      <4> QED BY <4>2 DEF LaidOut
    <3> HIDE DEF s
    <3> QED BY <3>1, <3>2, <3>3, <3>4
  <2> QED BY <1>1, <2>1, <2>2
<1>3. Placed(s)
  <2>1. s = [i \in 1 .. N + 1 |-> s[i]]
    OBVIOUS
  <2> HIDE DEF s
  <2> QED BY <1>2, <2>1
<1>4. Placed(T)
  <2>1. T = CHOOSE t : Placed(t)
    BY DEF Starts
  <2> HIDE DEF Placed, s, T
  <2> QED BY <1>3, <2>1
<1>5. \A i \in 1 .. N + 1 : T[i] = IF i = 1 THEN Align ELSE AlignUp(T[i - 1] + Len(b[i - 1]))
  <2> HIDE DEF T
  <2> QED BY <1>4
<1> HIDE DEF s, T, b, Placed
<1> DEFINE S == {n \in Nat : n + 1 \in 1 .. N + 1 => T[n + 1] = s[n + 1]}
<1>6. 0 \in S
  <2>1. 1 \in 1 .. N + 1
    BY <1>1
  <2>2. T[1] = s[1]
    BY <1>2, <1>5, <2>1
  <2> QED BY <2>2
<1>7. ASSUME NEW n \in Nat, n \in S PROVE n + 1 \in S
  <2>1. ASSUME (n + 1) + 1 \in 1 .. N + 1 PROVE T[(n + 1) + 1] = s[(n + 1) + 1]
    <3>1. n + 1 \in 1 .. N + 1 /\ (n + 1) + 1 # 1 /\ ((n + 1) + 1) - 1 = n + 1
      BY <1>1, <2>1
    <3>2. T[n + 1] = s[n + 1]
      BY <1>7, <3>1
    <3>3. T[(n + 1) + 1] = AlignUp(T[n + 1] + Len(b[n + 1]))
      BY <1>5, <2>1, <3>1
    <3>4. s[(n + 1) + 1] = AlignUp(s[n + 1] + Len(b[n + 1]))
      BY <1>2, <2>1, <3>1
    <3> QED BY <3>2, <3>3, <3>4
  <2> QED BY <2>1
<1>8. Nat \subseteq S
  <2> HIDE DEF S
  <2> QED BY <1>6, <1>7, NatRise
<1>9. ASSUME NEW i \in 1 .. N + 1 PROVE T[i] = s[i]
  <2>1. i - 1 \in Nat /\ (i - 1) + 1 = i
    BY <1>1
  <2>2. i - 1 \in S
    BY <1>8, <2>1
  <2> QED BY <2>1, <2>2
<1>10. /\ \A i \in 1 .. N : T[i] = w.entries[i].off
       /\ T[N + 1] = Z
  <2>1. \A i \in 1 .. N : i \in 1 .. N + 1 /\ i <= N
    BY <1>1
  <2>2. N + 1 \in 1 .. N + 1 /\ ~ (N + 1 <= N)
    BY <1>1
  <2>3. \A i \in 1 .. N + 1 : s[i] = IF i <= N THEN w.entries[i].off ELSE Z
    BY DEF s
  <2> QED BY <1>9, <2>1, <2>2, <2>3
<1> QED BY <1>10 DEF T, b

\* Two sequences of one length with the same cells are one.
LEMMA SameSeq ==
  ASSUME NEW f, IsSeq(f), NEW g, IsSeq(g), Len(f) = Len(g), \A k \in 1 .. Len(f) : f[k] = g[k]
  PROVE  f = g
<1>1. DOMAIN f = 1 .. Len(f) /\ DOMAIN g = 1 .. Len(g) /\ f = [k \in DOMAIN f |-> f[k]] /\ g = [k \in DOMAIN g |-> g[k]]
  BY SeqParts DEF IsSeq
<1> QED BY <1>1

\* Assembled from memory or streamed, a file has the same cells.
LEMMA TwinIs ==
  ASSUME NEW w, NEW h, LaidOut(w, h), Len(w.entries) = NumBands, NEW F, IsFinished(F, w, AlignUp(Len(w.out)))
  PROVE  F = EncodeFile(h.header, h.bands, 0)
<1> DEFINE N == NumBands
           off == AlignUp(Len(w.out))
           b == h.bands
           T == Starts(h.bands)
           entry(i) == [id |-> BandOrder[i], off |-> T[i], len |-> Len(b[i]), crc |-> b[i]]
           In(k, i) == k \in T[i] .. T[i] + Len(b[i]) - 1
           cell(k) == IF \E i \in 1 .. N : In(k, i)
                      THEN b[CHOOSE i \in 1 .. N : In(k, i)][k - T[CHOOSE i \in 1 .. N : In(k, i)] + 1]
                      ELSE IF k < HeaderCells THEN HeaderPage(h.header)[k + 1] ELSE Pad
           p == [k \in 1 .. off |-> cell(k - 1)]
           foot == Footer([i \in 1 .. N |-> entry(i)], 0)
           tail == Tail_(T[N + 1])
           t == <<foot, tail>>
           G == EncodeFile(h.header, h.bands, 0)
<1>1. /\ IsSeq(F) /\ off \in Nat /\ Len(w.out) <= off /\ Len(F) = off + 2
      /\ \A k \in 1 .. Len(w.out) : F[k] = w.out[k]
      /\ \A k \in 1 .. off : k > Len(w.out) => F[k] = Pad
      /\ F[off + 1] = Footer(w.entries, 0) /\ F[off + 2] = Tail_(off)
  BY DEF IsFinished
<1>2. /\ IsSeq(w.out) /\ Len(w.out) \in Nat /\ Len(w.out) >= 2 /\ IsSeq(w.entries)
      /\ w.out[1] = [header |-> h.header] /\ w.out[2] = [writer |-> h.header.gen]
  BY SeqParts DEF LaidOut, HeaderCells
<1>3. N \in Nat
  BY FileAssumption
<1>4. (\A i \in 1 .. N : T[i] = w.entries[i].off) /\ T[N + 1] = off
  BY StartsAre
<1>5. G = p \o t
  <2>1. p = [k \in 1 .. T[N + 1] |-> cell(k - 1)]
    <3> HIDE DEF cell, T, off
    <3> QED BY <1>4
  <2> HIDE DEF p
  <2> QED BY <2>1 DEF EncodeFile
<1>6. tail = Tail_(off)
  <2> HIDE DEF T, off
  <2> QED BY <1>4
<1>7. foot = Footer(w.entries, 0)
  <2> DEFINE e == [i \in 1 .. N |-> entry(i)]
  <2>1. ASSUME NEW i \in 1 .. N PROVE entry(i) = w.entries[i]
    <3>1. i \in 1 .. Len(w.entries)
      OBVIOUS
    <3>2. w.entries[i] = [id |-> BandOrder[i], off |-> w.entries[i].off, len |-> Len(h.bands[i]), crc |-> h.bands[i]]
      BY <3>1 DEF LaidOut
    <3>3. T[i] = w.entries[i].off
      BY <1>4
    <3> HIDE DEF T
    <3> QED BY <3>2, <3>3
  <2>2. w.entries = [i \in 1 .. N |-> w.entries[i]]
    <3>1. DOMAIN w.entries = 1 .. N /\ w.entries = [i \in DOMAIN w.entries |-> w.entries[i]]
      BY <1>2, SeqParts DEF IsSeq
    <3> QED BY <3>1
  <2> HIDE DEF entry
  <2>3. e = w.entries
    BY <2>1, <2>2
  <2> HIDE DEF e
  <2>4. Footer(e, 0) = Footer(w.entries, 0)
    BY <2>3
  <2> QED BY <2>4 DEF e
\* A cell of the assembler, whichever band it falls in.
<1>8. ASSUME NEW k \in 1 .. off PROVE cell(k - 1) = F[k]
  <2>1. k \in Nat /\ k >= 1 /\ k <= off
    BY <1>1
  <2>2. ASSUME NEW i \in 1 .. N
        PROVE  In(k - 1, i) <=> InBand(w, i, k)
    <3>1. w.entries[i].len = Len(h.bands[i]) /\ Len(h.bands[i]) \in Nat /\ w.entries[i].off \in Nat
      BY BandIs
    <3>2. T[i] = w.entries[i].off
      BY <1>4
    <3> HIDE DEF T
    <3>3. In(k - 1, i) <=> k - 1 \in w.entries[i].off .. w.entries[i].off + Len(h.bands[i]) - 1
      BY <3>2
    <3>4. InBand(w, i, k) <=> k - w.entries[i].off \in 1 .. Len(h.bands[i])
      BY <3>1 DEF InBand
    <3>5. \A x, y \in Nat : k - 1 \in x .. x + y - 1 <=> k - x \in 1 .. y
      BY <2>1
    <3>6. k - 1 \in w.entries[i].off .. w.entries[i].off + Len(h.bands[i]) - 1 <=> k - w.entries[i].off \in 1 .. Len(h.bands[i])
      BY <3>1, <3>5, Zenon
    <3> HIDE DEF In
    <3> QED BY <3>3, <3>4, <3>6, Zenon
  <2>3. ASSUME NEW i \in 1 .. N, In(k - 1, i) PROVE b[i][(k - 1) - T[i] + 1] = F[k]
    <3> DEFINE m == w.entries[i].off
               q == k - m
    <3>1. /\ w.entries[i].len = Len(b[i]) /\ Len(b[i]) \in Nat /\ m \in Nat /\ m + Len(b[i]) <= Len(w.out)
      BY BandIs
    <3>2. \A x \in 1 .. Len(b[i]) : w.out[m + x] = b[i][x]
      BY BandIs
    <3>3. T[i] = m
      BY <1>4
    <3>4. InBand(w, i, k)
      BY <2>2, <2>3
    <3> HIDE DEF T, b, In
    <3>5. q \in 1 .. Len(b[i])
      BY <3>1, <3>4 DEF InBand
    <3> HIDE DEF m
    <3>6. m + q = k /\ (k - 1) - m + 1 = q /\ k \in 1 .. Len(w.out)
      <4>1. q \in Nat /\ q >= 1 /\ q <= Len(b[i]) /\ k = m + q
        BY <2>1, <3>1, <3>5
      <4> HIDE DEF q
      <4> QED BY <1>2, <2>1, <3>1, <4>1
    <3> HIDE DEF q
    <3>7. w.out[k] = b[i][q]
      BY <3>2, <3>5, <3>6
    <3> QED BY <1>1, <3>3, <3>6, <3>7
  <2>4. CASE \E i \in 1 .. N : In(k - 1, i)
    <3> DEFINE c == CHOOSE i \in 1 .. N : In(k - 1, i)
    <3>1. c \in 1 .. N /\ In(k - 1, c)
      <4> HIDE DEF In
      <4> QED BY <2>4
    <3> HIDE DEF c
    <3>2. b[c][(k - 1) - T[c] + 1] = F[k]
      BY <2>3, <3>1
    <3>3. cell(k - 1) = b[c][(k - 1) - T[c] + 1]
      <4> HIDE DEF In, T, b
      <4> QED BY <2>4 DEF c
    <3> QED BY <3>2, <3>3
  <2>5. CASE ~ \E i \in 1 .. N : In(k - 1, i)
    <3>1. cell(k - 1) = IF k - 1 < HeaderCells THEN HeaderPage(h.header)[(k - 1) + 1] ELSE Pad
      <4> HIDE DEF In
      <4> QED BY <2>5
    <3>2. \A i \in 1 .. N : ~InBand(w, i, k)
      <4> HIDE DEF In
      <4> QED BY <2>2, <2>5
    <3> HIDE DEF cell
    <3>3. CASE k <= 2
      <4>1. k \in 1 .. Len(w.out) /\ k - 1 < HeaderCells /\ (k - 1) + 1 = k /\ (k = 1 \/ k = 2)
        BY <1>2, <2>1, <3>3 DEF HeaderCells
      <4>2. HeaderPage(h.header)[1] = [header |-> h.header] /\ HeaderPage(h.header)[2] = [writer |-> h.header.gen]
        BY DEF HeaderPage
      <4>3. cell(k - 1) = HeaderPage(h.header)[k] /\ F[k] = w.out[k]
        BY <1>1, <3>1, <4>1
      <4>4. HeaderPage(h.header)[k] = w.out[k]
        BY <1>2, <4>1, <4>2
      <4> QED BY <4>3, <4>4
    <3>4. CASE k > 2
      <4>1. ~ (k - 1 < HeaderCells)
        BY <2>1, <3>4 DEF HeaderCells
      <4>2. cell(k - 1) = Pad
        BY <3>1, <4>1
      <4>3. CASE k <= Len(w.out)
        <5>1. k \in HeaderCells + 1 .. Len(w.out) /\ k \in 1 .. Len(w.out)
          BY <1>2, <2>1, <3>4, <4>3 DEF HeaderCells
        <5>2. w.out[k] = Pad
          BY <3>2, <5>1 DEF LaidOut
        <5> QED BY <1>1, <4>2, <5>1, <5>2
      <4>4. CASE k > Len(w.out)
        BY <1>1, <4>2, <4>4
      <4> QED BY <1>2, <2>1, <4>3, <4>4
    <3> QED BY <2>1, <3>3, <3>4
  <2> QED BY <2>4, <2>5
<1>9. IsSeq(p) /\ Len(p) = off /\ \A k \in 1 .. off : p[k] = F[k]
  <2>1. \A k \in 1 .. off : p[k] = F[k]
    <3> HIDE DEF cell
    <3> QED BY <1>8
  <2>2. p = [k \in 1 .. off |-> p[k]]
    <3> HIDE DEF cell
    <3> QED OBVIOUS
  <2> HIDE DEF p
  <2>3. IsSeq(p) /\ Len(p) = off
    <3> HIDE DEF off
    <3> QED BY <1>1, <2>2, FunSeq
  <2> QED BY <2>1, <2>3
<1> HIDE DEF p, foot, tail
<1>10. IsSeq(t) /\ Len(t) = 2 /\ t[1] = foot /\ t[2] = tail
  <2>1. \A x, y : <<x, y>> \in Seq({x, y}) /\ Len(<<x, y>>) = 2 /\ <<x, y>>[1] = x /\ <<x, y>>[2] = y
    OBVIOUS
  <2>2. \A x, y : IsSeq(<<x, y>>)
    <3> TAKE x, y
    <3>1. <<x, y>> \in Seq({x, y})
      BY <2>1
    <3> QED BY <3>1, OwnSeq
  <2> QED BY <2>1, <2>2
<1> HIDE DEF t, G, off
<1>11. IsSeq(p) /\ IsSeq(t)
  BY <1>9, <1>10
<1>12. IsSeq(p \o t) /\ Len(p \o t) = Len(p) + Len(t)
  BY <1>11, Joined
<1>13. \A k \in 1 .. Len(p) : (p \o t)[k] = p[k]
  BY <1>11, Joined
<1>14. \A k \in 1 .. Len(t) : (p \o t)[Len(p) + k] = t[k]
  BY <1>11, Joined
<1>15. IsSeq(G) /\ Len(G) = off + 2
  BY <1>5, <1>9, <1>10, <1>12
<1>16. ASSUME NEW k \in 1 .. off + 2 PROVE F[k] = G[k]
  <2>1. CASE k \in 1 .. off
    BY <1>5, <1>9, <1>13, <2>1
  <2>2. CASE k = off + 1 \/ k = off + 2
    <3>1. 1 \in 1 .. Len(t) /\ 2 \in 1 .. Len(t)
      BY <1>10
    <3>2. G[off + 1] = foot /\ G[off + 2] = tail
      BY <1>5, <1>9, <1>10, <1>14, <3>1
    <3> QED BY <1>1, <1>6, <1>7, <2>2, <3>2
  <2> QED BY <1>1, <2>1, <2>2
<1>17. F = G
  BY <1>1, <1>15, <1>16, SameSeq
<1> QED BY <1>17 DEF G

\* The inductive invariant of a file: the writer is where its output and what it was handed
\* say, and the disk has that output, the finished file, or what damage left of it.
FileInv ==
  /\ phase \in {"idle", "writing", "sealed", "damaged"}
  /\ phase = "idle" => device = <<>>
  /\ phase # "idle" => Begun(fw, handed)
  /\ phase = "writing" => device = fw.out
  /\ phase \in {"sealed", "damaged"} => Len(fw.entries) = NumBands
  /\ phase = "sealed" => device = Finished(fw, 0)
  /\ phase = "damaged" =>
       \/ Worn(device, Finished(fw, 0))
       \/ /\ IsSeq(device) /\ Len(device) < Len(Finished(fw, 0))
          /\ \A k \in 1 .. Len(device) : device[k] = Finished(fw, 0)[k]

LEMMA SealedFile ==
  ASSUME NEW w, NEW h, Begun(w, h), NEW F, F = Finished(w, 0)
  PROVE  IsFinished(F, w, AlignUp(Len(w.out))) /\ IsSeq(F) /\ Len(F) \in Nat
<1>1. IsSeq(w.out) /\ Len(w.out) >= 2
  BY DEF Begun, LaidOut, HeaderCells
<1>2. Len(w.out) > 0
  BY <1>1, SeqParts
<1>3. IsFinished(Finished(w, 0), w, AlignUp(Len(w.out)))
  BY <1>1, <1>2, FinishedIs
<1>4. IsFinished(F, w, AlignUp(Len(w.out)))
  BY <1>3
<1>5. IsSeq(F)
  BY <1>4 DEF IsFinished
<1> QED BY <1>4, <1>5, SeqParts

LEMMA FileStep == FileInv /\ [FileNext]_fileVars => FileInv'
<1> SUFFICES ASSUME FileInv, [FileNext]_fileVars PROVE FileInv'
  OBVIOUS
<1>1. ASSUME NEW h \in Header, NEW m \in Meta, NEW s \in Stats, NewFileWriter(h, m, s) PROVE FileInv'
  <2>1. /\ fw' = Streamed(Streamed(Opened(h), BandOrder[1], <<m>>), BandOrder[2], <<s>>)
        /\ handed' = [header |-> h, bands |-> <<<<m>>, <<s>>>>] /\ device' = fw'.out /\ phase' = "writing"
        /\ TrioAgrees(h, m, s)
    BY <1>1 DEF NewFileWriter, Opened
  <2>2. Begun(fw', handed')
    BY <2>1, Begins
  <2> QED BY <2>1, <2>2 DEF FileInv
<1>2. ASSUME NEW payload \in Payload, WriteBand(payload) PROVE FileInv'
  <2>1. /\ phase = "writing" /\ fw.next <= NumBands /\ fw' = Streamed(fw, BandOrder[fw.next], payload)
        /\ handed' = [handed EXCEPT !.bands = Append(@, payload)] /\ device' = fw'.out /\ phase' = phase
    BY <1>2 DEF WriteBand
  <2>2. Begun(fw, handed)
    BY <2>1 DEF FileInv
  <2>3. handed' = Handed(handed, payload)
    <3>1. handed = [header |-> handed.header, bands |-> handed.bands]
      BY <2>2 DEF Begun
    <3> QED BY <2>1, <3>1 DEF Handed
  <2>4. Begun(fw', handed')
    BY <2>1, <2>2, <2>3, GoesOn
  <2> QED BY <2>1, <2>4 DEF FileInv
<1>3. ASSUME NEW prov \in {0}, Finish(prov) PROVE FileInv'
  <2>1. /\ phase = "writing" /\ fw.next = NumBands + 1 /\ device' = Finished(fw, 0) /\ phase' = "sealed"
        /\ fw' = fw /\ handed' = handed
    BY <1>3 DEF Finish
  <2>2. Begun(fw, handed)
    BY <2>1 DEF FileInv
  <2>3. fw.next = Len(fw.entries) + 1 /\ Len(fw.entries) \in Nat
    BY <2>2, SeqParts DEF Begun, LaidOut
  <2>4. Len(fw.entries) = NumBands
    BY <2>1, <2>3, FileAssumption
  <2> QED BY <2>1, <2>2, <2>4 DEF FileInv
<1>4. ASSUME NEW k \in 1 .. Len(device), Decay(k) PROVE FileInv'
  <2>1. /\ phase = "sealed" /\ device' = [device EXCEPT ![k] = Rot] /\ phase' = "damaged" /\ fw' = fw /\ handed' = handed
    BY <1>4 DEF Decay
  <2>2. Begun(fw, handed) /\ Len(fw.entries) = NumBands /\ device = Finished(fw, 0)
    BY <2>1 DEF FileInv
  <2> DEFINE F == Finished(fw, 0)
  <2>3. IsSeq(F) /\ Len(F) \in Nat
    BY <2>2, SealedFile
  <2>4. DOMAIN F = 1 .. Len(F) /\ F = [i \in 1 .. Len(F) |-> F[i]]
    BY <2>3, SeqParts DEF IsSeq
  <2>5. device' = [F EXCEPT ![k] = Rot]
    BY <2>1, <2>2
  <2> HIDE DEF F
  <2>6. device' = [i \in 1 .. Len(F) |-> device'[i]] /\ \A i \in 1 .. Len(F) : device'[i] \in {F[i], Rot}
    BY <2>4, <2>5
  <2>7. IsSeq(device') /\ Len(device') = Len(F)
    BY <2>3, <2>6, FunSeq
  <2>8. Worn(device', F)
    BY <2>6, <2>7 DEF Worn
  <2> QED BY <2>1, <2>2, <2>8 DEF FileInv, F
<1>5. ASSUME NEW n \in 0 .. Len(device) - 1, CutShort(n) PROVE FileInv'
  <2>1. /\ phase = "sealed" /\ device' = SubSeq(device, 1, n) /\ phase' = "damaged" /\ fw' = fw /\ handed' = handed
    BY <1>5 DEF CutShort
  <2>2. Begun(fw, handed) /\ Len(fw.entries) = NumBands /\ device = Finished(fw, 0)
    BY <2>1 DEF FileInv
  <2> DEFINE F == Finished(fw, 0)
  <2>3. IsSeq(F) /\ Len(F) \in Nat
    BY <2>2, SealedFile
  <2>4. n \in 0 .. Len(F) - 1 /\ device' = SubSeq(F, 1, n)
    BY <2>1, <2>2
  <2> HIDE DEF F
  <2>5. n \in Nat /\ n <= Len(F) /\ n < Len(F) /\ 1 \in Nat /\ 1 >= 1
    BY <2>3, <2>4
  <2>6. /\ IsSeq(SubSeq(F, 1, n)) /\ Len(SubSeq(F, 1, n)) = IF 1 <= n THEN n - 1 + 1 ELSE 0
        /\ \A i \in 1 .. n - 1 + 1 : SubSeq(F, 1, n)[i] = F[1 + i - 1]
    BY <2>3, <2>5, Cut
  <2>7. IsSeq(device') /\ Len(device') = n
    BY <2>4, <2>5, <2>6
  <2>8. \A i \in 1 .. n : device'[i] = F[i]
    <3> SUFFICES ASSUME NEW i \in 1 .. n PROVE device'[i] = F[i]
      OBVIOUS
    <3>1. i \in 1 .. n - 1 + 1 /\ 1 + i - 1 = i
      BY <2>5
    <3> QED BY <2>4, <2>6, <3>1
  <2> QED BY <2>1, <2>2, <2>5, <2>7, <2>8 DEF FileInv, F
<1>6. CASE UNCHANGED fileVars
  BY <1>6 DEF fileVars, FileInv
<1> QED BY <1>1, <1>2, <1>3, <1>4, <1>5, <1>6 DEF FileNext

\* A file opens only whole, and what it gives out is what was put in.
LEMMA FileOpens == FileInv => OpensOnlyWhole
<1> SUFFICES ASSUME FileInv PROVE OpensOnlyWhole
  OBVIOUS
<1> DEFINE F == Finished(fw, 0)
           off == AlignUp(Len(fw.out))
<1>1. ASSUME phase \in {"idle", "writing"} PROVE ~Opens(device)
  <2>1. CASE phase = "idle"
    <3>1. Len(device) = 0
      BY <2>1 DEF FileInv
    <3> QED BY <3>1 DEF Opens
  <2>2. CASE phase = "writing"
    <3>1. LaidOut(fw, handed) /\ device = fw.out
      BY <2>2 DEF FileInv, Begun
    <3>2. Len(fw.out) \in Nat /\ Len(fw.out) >= 2
      BY <3>1, SeqParts DEF LaidOut, HeaderCells
    <3>3. Len(fw.out) \in 1 .. Len(fw.out) /\ Len(fw.out) > 0
      BY <3>2
    <3>4. ~HasField(device[Len(device)], "footerOff")
      BY <3>1, <3>3, NoTail
    <3> QED BY <3>1, <3>3, <3>4, NotOpen
  <2> QED BY <1>1, <2>1, <2>2
<1>2. ASSUME phase \in {"sealed", "damaged"}
      PROVE  /\ Begun(fw, handed) /\ Len(fw.entries) = NumBands
             /\ IsFinished(F, fw, off) /\ IsSeq(F) /\ Len(F) \in Nat
  <2>1. Begun(fw, handed) /\ Len(fw.entries) = NumBands
    BY <1>2 DEF FileInv
  <2>2. IsFinished(F, fw, off) /\ IsSeq(F) /\ Len(F) \in Nat
    BY <2>1, SealedFile
  <2> QED BY <2>1, <2>2
<1> HIDE DEF F, off
<1>3. ASSUME phase = "sealed" PROVE Opens(device) /\ VerifyBands(device)
  <2>1. device = F
    BY <1>3 DEF FileInv, F
  <2>2. /\ Begun(fw, handed) /\ Len(fw.entries) = NumBands /\ IsFinished(F, fw, off)
    BY <1>2, <1>3
  <2>3. Opens(F) /\ VerifyBands(F)
    BY <2>2, WholeOpens
  <2> QED BY <2>1, <2>3
<1>4. ASSUME phase \in {"sealed", "damaged"}, Opens(device)
      PROVE  /\ device[1].header = handed.header
             /\ \A i \in 1 .. NumBands : ReadsBand(device, i) => ReadBand(device, i) = handed.bands[i]
             /\ VerifyBands(device) =>
                  \A k \in 1 .. Len(device) : device[k] = Rot => k = HeaderCells \/ F[k] = Pad
  <2>1. /\ Begun(fw, handed) /\ Len(fw.entries) = NumBands /\ IsFinished(F, fw, off) /\ IsSeq(F) /\ Len(F) \in Nat
    BY <1>2, <1>4
  <2>2. CASE Worn(device, F)
    BY <1>4, <2>1, <2>2, WornReads
  <2>3. CASE phase = "sealed"
    <3>1. device = F
      BY <2>3 DEF FileInv, F
    <3>2. Worn(device, F)
      BY <2>1, <3>1 DEF Worn
    <3> QED BY <2>2, <3>2
  <2>4. CASE IsSeq(device) /\ Len(device) < Len(F) /\ \A k \in 1 .. Len(device) : device[k] = F[k]
    <3>1. /\ off \in Nat /\ Len(fw.out) <= off /\ Len(F) = off + 2
          /\ \A k \in 1 .. Len(fw.out) : F[k] = fw.out[k]
          /\ \A k \in 1 .. off : k > Len(fw.out) => F[k] = Pad
          /\ F[off + 1] = Footer(fw.entries, 0)
      BY <2>1 DEF IsFinished
    <3>2. LaidOut(fw, handed) /\ Len(fw.out) \in Nat
      BY <2>1, SeqParts DEF Begun, LaidOut
    <3> DEFINE n == Len(device)
    <3>3. n \in Nat /\ n > 0
      <4>1. n > 0
        BY <1>4 DEF Opens
      <4> QED BY <2>4, <4>1, SeqParts
    <3>4. n <= off + 1 /\ device[n] = F[n] /\ HasField(F[n], "footerOff")
      <4>1. HasField(device[n], "footerOff")
        BY <1>4 DEF Opens, TailFits
      <4> HIDE DEF n
      <4>2. n \in 1 .. n
        BY <3>3
      <4>3. device[n] = F[n]
        BY <2>4, <4>2 DEF n
      <4>4. n <= off + 1
        BY <2>4, <3>1, <3>3 DEF n
      <4> QED BY <4>1, <4>3, <4>4
    <3> HIDE DEF n
    <3>5. ~HasField(Footer(fw.entries, 0), "footerOff") /\ ~HasField(Pad, "footerOff")
      BY DEF HasField, Footer, Pad
    <3>6. CASE n <= Len(fw.out)
      <4>1. n \in 1 .. Len(fw.out)
        BY <3>2, <3>3, <3>6
      <4>2. F[n] = fw.out[n] /\ ~HasField(fw.out[n], "footerOff")
        BY <3>1, <3>2, <4>1, NoTail
      <4> QED BY <3>4, <4>2
    <3>7. CASE n > Len(fw.out) /\ n <= off
      <4>1. n \in 1 .. off
        BY <3>1, <3>3, <3>7
      <4> QED BY <3>1, <3>4, <3>5, <3>7, <4>1
    <3>8. CASE n = off + 1
      BY <3>1, <3>4, <3>5, <3>8
    <3> QED BY <3>1, <3>2, <3>3, <3>4, <3>6, <3>7, <3>8
  <2>5. phase = "damaged" =>
          Worn(device, F) \/ (IsSeq(device) /\ Len(device) < Len(F) /\ \A k \in 1 .. Len(device) : device[k] = F[k])
    BY DEF FileInv, F
  <2> QED BY <1>4, <2>2, <2>3, <2>4, <2>5
<1> QED BY <1>1, <1>3, <1>4 DEF OpensOnlyWhole, F

\* Streamed or assembled, a file is the same.
LEMMA FileTwins == FileInv => StreamedTwin
<1> SUFFICES ASSUME FileInv, phase = "sealed" PROVE device = EncodeFile(handed.header, handed.bands, 0)
  BY DEF StreamedTwin
<1>1. Begun(fw, handed) /\ Len(fw.entries) = NumBands /\ device = Finished(fw, 0)
  BY DEF FileInv
<1>2. IsFinished(device, fw, AlignUp(Len(fw.out))) /\ LaidOut(fw, handed)
  BY <1>1, SealedFile DEF Begun
<1> QED BY <1>1, <1>2, TwinIs

\* The inductive invariant, for any header, bands, alignment and damage.
THEOREM FileInvariant == FileSpec => []FileInv
<1>1. FileInit => FileInv
  BY DEF FileInit, FileInv
<1>2. FileInv /\ [FileNext]_fileVars => FileInv'
  BY FileStep
<1> QED BY <1>1, <1>2, PTL DEF FileSpec

\* FileHolds: a file opens only if the writer finished it, a band that reads is the band
\* that was handed over, and the streaming writer and EncodeFile write the same file.
THEOREM FileHoldsAlways == FileSpec => []FileHolds
<1>1. FileInv => FileHolds
  BY FileOpens, FileTwins DEF FileHolds
<1> QED BY <1>1, FileInvariant, PTL
=============================================================================
