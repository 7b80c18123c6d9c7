------------------------------ MODULE HotDocs ------------------------------
(***************************************************************************)
(* hotfmt/docband.go, docvalues.go, tombstones.go: what a shard keeps per  *)
(* document. Records are spooled, compressed in blocks against a           *)
(* dictionary sampled from them, and read back one by one; deltas name     *)
(* documents that died, as a list or as a bitset, whichever is smaller,    *)
(* and a mount merges them.                                                *)
(*                                                                         *)
(* A record is one cell of a raw block. Compression is [raw, dict]: it     *)
(* yields raw again only with the dictionary it was made with, and takes   *)
(* one cell. A byte of a bitset is the set of bits that are up.            *)
(***************************************************************************)
EXTENDS Naturals, Sequences, FiniteSets, SequencesExt

CONSTANTS
    Record,        \* display records; the ones with an empty URL have url = 0
    DocValue,      \* docvalues: [title, anchor], nibbles
    MaxDocs,       \* bound on the documents of a shard
    MaxDeltas,     \* bound on the deltas over it
    DocBlockDocs, DictMinSamples, DictSamples, DictMaxSize,
    ByteBits,      \* 8 in the code
    DocidBytes,    \* 4 in the code
    DocidSpace     \* 2^32 in the code, where tombDenseBytes rounds up

ASSUME DocsAssumption ==
    /\ {DocBlockDocs, DictSamples, ByteBits, DocidBytes} \subseteq Nat \ {0}
    /\ {DictMinSamples, DictMaxSize, MaxDocs, DocidSpace} \subseteq Nat
    /\ MaxDocs + ByteBits <= DocidSpace
    /\ DocValue \subseteq [title : 0..15, anchor : 0..15]

VARIABLES
    spool,    \* the records, in docid order
    values,   \* the docvalues beside them
    docBand,  \* the sealed band, or <<>>
    valBand,
    deltas,   \* encoded tombstone bands
    doomed    \* history: what each delta was told to delete

docsVars == <<spool, values, docBand, valBand, deltas, doomed>>

\* ------------------------------------------------------------- doc band --

\* trainDict: records at a stride, joined until the cap, cut at it.
TrainDict(recs) ==
    LET n == Len(recs)
        stride == IF n \div DictSamples > 1 THEN n \div DictSamples ELSE 1
        joined == [k \in 1..(n + stride - 1) \div stride |-> recs[(k - 1) * stride + 1]]
    IN IF n < DictMinSamples THEN <<>>
       ELSE SubSeq(joined, 1, IF Len(joined) < DictMaxSize THEN Len(joined) ELSE DictMaxSize)

Compress(raw, dict) == [raw |-> raw, dict |-> dict]

\* DecodeAll: garbage (nothing here) when the dictionary is not the one it was made with.
Decompress(z, dict) == IF z.dict = dict THEN z.raw ELSE <<>>

NBlocks(n) == (n + DocBlockDocs - 1) \div DocBlockDocs

RawBlock(recs, b) ==
    SubSeq(recs, (b - 1) * DocBlockDocs + 1,
           IF b * DocBlockDocs < Len(recs) THEN b * DocBlockDocs ELSE Len(recs))

\* Seal: blocks, dictionary, offsets, trailer.
SealDocs(recs) ==
    LET d == TrainDict(recs)
        blocks == [b \in 1..NBlocks(Len(recs)) |-> Compress(RawBlock(recs, b), d)]
    IN [data |-> blocks \o d, offs |-> [b \in 1..Len(blocks) |-> b - 1],
        dictOff |-> Len(blocks), dictLen |-> Len(d), nblocks |-> Len(blocks),
        ndocs |-> Len(recs)]

\* OpenDocBand's checks.
OpensDocs(b) ==
    /\ b.ndocs > 0 /\ b.nblocks > 0
    /\ b.nblocks = NBlocks(b.ndocs)
    /\ b.dictOff + b.dictLen = Len(b.data)
    /\ b.offs[1] = 0
    /\ \A i \in 1..b.nblocks : /\ b.offs[i] < b.dictOff
                               /\ i > 1 => b.offs[i] > b.offs[i - 1]

\* Doc: the block that holds docid, which must hold exactly its share of records.
DocRecord(b, docid) ==
    LET blk == docid \div DocBlockDocs
        raw == Decompress(b.data[b.offs[blk + 1] + 1],
                          SubSeq(b.data, b.dictOff + 1, b.dictOff + b.dictLen))
        left == b.ndocs - blk * DocBlockDocs
        nrecs == IF left < DocBlockDocs THEN left ELSE DocBlockDocs
    IN IF docid >= b.ndocs \/ Len(raw) # nrecs THEN [ok |-> FALSE]
       ELSE [ok |-> TRUE, rec |-> raw[(docid % DocBlockDocs) + 1]]

\* ------------------------------------------------------------ docvalues --

\* EncodeDocValues: two nibbles share a byte.
EncodeDocValues(vs) == [i \in 1..Len(vs) |-> vs[i].title + vs[i].anchor * 16]

\* At.
DocValueAt(data, docid) ==
    [title |-> data[docid + 1] % 16, anchor |-> data[docid + 1] \div 16]

\* ----------------------------------------------------------- tombstones --

\* tombDenseBytes, rounding up in a docid's width.
DenseBytes(n) == ((n + ByteBits - 1) % DocidSpace) \div ByteBits

TombKind(count, n) == IF count * DocidBytes > DenseBytes(n) THEN "dense" ELSE "sparse"

Bitset(docids, n) ==
    [i \in 1..DenseBytes(n) |->
        {bit \in 0..ByteBits - 1 : (i - 1) * ByteBits + bit \in docids}]

\* A delta's docids in increasing order.
Docids(S) == CHOOSE s \in SetToSeqs(S) : \A i, j \in DOMAIN s : i < j => s[i] < s[j]

EncodeTombstones(docids, n) ==
    [kind |-> TombKind(Cardinality(docids), n), base |-> n, count |-> Cardinality(docids),
     body |-> IF TombKind(Cardinality(docids), n) = "sparse"
              THEN Docids(docids) ELSE Bitset(docids, n)]

\* ParseTombstones: what the band names, if it is the canonical band for its density.
ParsesTombstones(t) ==
    /\ t.base > 0 /\ t.count <= t.base
    /\ t.kind = TombKind(t.count, t.base)
    /\ IF t.kind = "sparse"
       THEN /\ Len(t.body) = t.count
            /\ \A i \in 1..t.count : t.body[i] < t.base /\ (i > 1 => t.body[i] > t.body[i - 1])
       ELSE /\ Len(t.body) = DenseBytes(t.base)
            /\ Cardinality({at \in (1..Len(t.body)) \X (0..ByteBits - 1) :
                               at[2] \in t.body[at[1]]}) = t.count
            /\ \A i \in 1..Len(t.body) : \A bit \in t.body[i] :
                  (i - 1) * ByteBits + bit < t.base

ParsedDocids(t) ==
    IF t.kind = "sparse" THEN {t.body[i] : i \in 1..Len(t.body)}
    ELSE {d \in 0..t.base - 1 : d % ByteBits \in t.body[d \div ByteBits + 1]}

\* Mutant: each delta replaces the ones before it.
NewestExclusion(n, ts) == Bitset(IF ts = <<>> THEN {} ELSE ParsedDocids(Last(ts)), n)

\* BuildExclusion: the union of the live deltas, one bit per docid.
BuildExclusion(n, ts) ==
    Bitset(UNION {ParsedDocids(ts[i]) : i \in 1..Len(ts)}, n)

Excluded(set, docid) == docid % ByteBits \in set[docid \div ByteBits + 1]

\* ----------------------------------------------------------- the system --

DocsInit ==
    /\ spool = <<>> /\ values = <<>> /\ docBand = <<>> /\ valBand = <<>>
    /\ deltas = <<>> /\ doomed = <<>>

\* DocBandWriter.Add, and the docvalue the shard pass keeps beside it.
DocAdd(r, v) ==
    /\ docBand = <<>> /\ Len(spool) < MaxDocs
    /\ r.url # 0
    /\ spool' = Append(spool, r)
    /\ values' = Append(values, v)
    /\ UNCHANGED <<docBand, valBand, deltas, doomed>>

DocSeal ==
    /\ docBand = <<>> /\ spool # <<>>
    /\ docBand' = SealDocs(spool)
    /\ valBand' = EncodeDocValues(values)
    /\ UNCHANGED <<spool, values, deltas, doomed>>

\* A delta is written over the sealed base.
WriteDelta(docids) ==
    /\ docBand # <<>> /\ Len(deltas) < MaxDeltas
    /\ deltas' = Append(deltas, EncodeTombstones(docids, docBand.ndocs))
    /\ doomed' = Append(doomed, docids)
    /\ UNCHANGED <<spool, values, docBand, valBand>>

DocsNext ==
    \/ \E r \in Record, v \in DocValue : DocAdd(r, v)
    \/ DocSeal
    \/ \E docids \in SUBSET (0..Len(spool) - 1) : WriteDelta(docids)

DocsSpec == DocsInit /\ [][DocsNext]_docsVars

\* ---------------------------------------------------------- properties --

\* Whatever the number of documents makes of blocks, stride and dictionary, every docid
\* of a sealed band reads its own record and its own docvalue, and a docid past the band
\* reads no record, be its block there or not.
DocsReadBack ==
    docBand # <<>> =>
      /\ OpensDocs(docBand)
      /\ \A d \in 0..Len(spool) - 1 :
           /\ DocRecord(docBand, d) = [ok |-> TRUE, rec |-> spool[d + 1]]
           /\ DocValueAt(valBand, d) = values[d + 1]
      /\ \A d \in Len(spool)..Len(spool) + DocBlockDocs : ~DocRecord(docBand, d).ok

\* Whether written as lists or as bitsets, the deltas of a mount exclude exactly the
\* documents they were told to delete, and each parses as the canonical band it is.
ExcludesDoomed ==
    docBand # <<>> =>
      /\ \A i \in 1..Len(deltas) :
           ParsesTombstones(deltas[i]) /\ ParsedDocids(deltas[i]) = doomed[i]
      /\ \A d \in 0..docBand.ndocs - 1 :
           Excluded(BuildExclusion(docBand.ndocs, deltas), d)
             <=> \E i \in 1..Len(doomed) : d \in doomed[i]

\* A docid is one document: its record and value are its own, and it is excluded exactly
\* when a delta deleted it.
DocsHold == DocsReadBack /\ ExcludesDoomed
=============================================================================
