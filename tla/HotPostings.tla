---------------------------- MODULE HotPostings ----------------------------
(***************************************************************************)
(* hotfmt/postings.go, skips.go, positions.go: one term's postings in      *)
(* blocks, the skip region derived from them, and its position runs.       *)
(*                                                                         *)
(* A full block packs gaps and term frequencies at the width that makes it *)
(* smallest, with a few patched exceptions; the last, shorter block is     *)
(* vbyte coded. A packed stream is the number its bits spell, least        *)
(* significant value first, as the accumulator of appendPacked builds it.  *)
(* A coded list maps the byte offset of each block to the block.           *)
(***************************************************************************)
EXTENDS Naturals, Integers, Sequences, FiniteSets, SequencesExt

CONSTANTS
    PostingsBlockLen,  \* entries of a full block
    SkipFanout,        \* skipL2Fanout
    Widths,            \* docidWidths: the bit widths a header can name
    MaxPatches,        \* maxPatches
    PatchCost,         \* the bytes one patch takes (5 in the code)
    HeaderSize,        \* postingsHeaderSize
    MaxDocid           \* the largest docid (2^32 - 1 in the code)

ASSUME PostingsAssumption ==
    /\ PostingsBlockLen \in Nat \ {0}
    /\ SkipFanout \in Nat \ {0}
    /\ \A i \in DOMAIN Widths : Widths[i] \in Nat

Peak(S) == IF S = {} THEN 0 ELSE CHOOSE x \in S : \A y \in S : y <= x

\* ------------------------------------------------------------- packing --

\* bits.Len8.
BitLen(v) == CHOOSE n \in 0..v : 2^n > v /\ (n = 0 \/ 2^(n - 1) <= v)

PackedLen(n, w) == (n * w + 7) \div 8

\* appendPacked: each value is shifted in above the ones before it.
Pack(vals, w) ==
    LET P[i \in 0..Len(vals)] == IF i = 0 THEN 0 ELSE P[i - 1] + vals[i] * 2^(w * (i - 1))
    IN IF w = 0 THEN 0 ELSE P[Len(vals)]

Unpack(stream, n, w) ==
    [i \in 1..n |-> IF w = 0 THEN 0 ELSE (stream \div 2^(w * (i - 1))) % 2^w]

\* appendUvarint's length.
VarintLen(v) == IF v < 128 THEN 1 ELSE IF v < 128 * 128 THEN 2 ELSE 3

\* ------------------------------------------------------------- encoding --

\* blockGaps: a gap is the number of docids skipped, the first one from prev.
Gaps(block, prev) ==
    [i \in 1..Len(block) |->
        block[i].docid - (IF i = 1 THEN prev ELSE block[i - 1].docid) - 1]

\* Mutant: a gap of exactly 2^w is taken to fit.
ExceptionsPast(gaps, w) == {i \in 1..Len(gaps) : gaps[i] > 2^w}

Exceptions(gaps, w) == {i \in 1..Len(gaps) : gaps[i] >= 2^w}

\* chooseWidth: the first width that makes packed bytes plus patches fewest.
ChooseWidth(gaps) ==
    LET fits == {c \in DOMAIN Widths : Cardinality(Exceptions(gaps, Widths[c])) <= MaxPatches}
        cost(c) == PackedLen(Len(gaps), Widths[c])
                     + PatchCost * Cardinality(Exceptions(gaps, Widths[c]))
    IN CHOOSE c \in fits : \A d \in fits : cost(c) < cost(d) \/ (cost(c) = cost(d) /\ c <= d)

BlockImpact(block) == Peak({block[i].impact : i \in 1..Len(block)})

MixedMasks(block) == \E i \in 1..Len(block) : block[i].mask # 1

Masks(block) == IF MixedMasks(block) THEN [i \in 1..Len(block) |-> block[i].mask] ELSE <<>>

FORBlock(block, prev) ==
    LET gaps == Gaps(block, prev)
        c    == ChooseWidth(gaps)
        exc  == Exceptions(gaps, Widths[c])
        tfs  == [i \in 1..Len(block) |-> block[i].tf - 1]
        tfw  == BitLen(Peak({tfs[i] : i \in 1..Len(block)}))
    IN [last |-> block[Len(block)].docid, impact |-> BlockImpact(block), n |-> Len(block),
        tail |-> FALSE, width |-> c, tfw |-> tfw,
        patches |-> [i \in exc |-> gaps[i]],
        gaps |-> Pack([i \in 1..Len(gaps) |-> IF i \in exc THEN 0 ELSE gaps[i]], Widths[c]),
        tfs |-> Pack(tfs, tfw),
        masks |-> Masks(block)]

VbyteBlock(block, prev) ==
    [last |-> block[Len(block)].docid, impact |-> BlockImpact(block), n |-> Len(block),
     tail |-> TRUE, width |-> 0, tfw |-> 0, patches |-> <<>>,
     gaps |-> Gaps(block, prev),
     tfs |-> [i \in 1..Len(block) |-> block[i].tf],
     masks |-> Masks(block)]

BlockSize(b) ==
    LET vlen[i \in 0..b.n] == IF i = 0 THEN 0 ELSE vlen[i - 1] + VarintLen(b.gaps[i])
    IN HeaderSize + Len(b.masks)
         + IF b.tail THEN vlen[b.n] + b.n
           ELSE PatchCost * Cardinality(DOMAIN b.patches)
                  + PackedLen(b.n, Widths[b.width]) + PackedLen(b.n, b.tfw)

\* The postings EncodePostings puts in its i-th block, and the chain base before it.
BlockOf(ps, i) ==
    SubSeq(ps, (i - 1) * PostingsBlockLen + 1,
           IF i * PostingsBlockLen < Len(ps) THEN i * PostingsBlockLen ELSE Len(ps))

Blocks(ps) ==
    [i \in 1..(Len(ps) + PostingsBlockLen - 1) \div PostingsBlockLen |->
        LET prev == IF i = 1 THEN -1 ELSE ps[(i - 1) * PostingsBlockLen].docid
            b == BlockOf(ps, i)
        IN IF Len(b) = PostingsBlockLen THEN FORBlock(b, prev) ELSE VbyteBlock(b, prev)]

\* EncodePostings refuses an empty list, docids out of order, and a zero tf or mask.
Encodable(ps) ==
    /\ ps # <<>>
    /\ \A i \in 1..Len(ps) : /\ ps[i].tf > 0 /\ ps[i].mask > 0
                             /\ i > 1 => ps[i].docid > ps[i - 1].docid

EncodePostings(ps) ==
    LET bs == Blocks(ps)
        off[i \in 1..Len(bs)] == IF i = 1 THEN 0 ELSE off[i - 1] + BlockSize(bs[i - 1])
    IN [blocks |-> [o \in {off[i] : i \in 1..Len(bs)} |->
                       bs[CHOOSE i \in 1..Len(bs) : off[i] = o]],
        l1 |-> [i \in 1..Len(bs) |->
                  [last |-> bs[i].last, impact |-> bs[i].impact, off |-> off[i]]]]

\* ------------------------------------------------------------- decoding --

\* The gaps of a block, patches put back into slots that must be empty.
DecodedGaps(b) ==
    IF b.tail THEN b.gaps
    ELSE LET packed == Unpack(b.gaps, b.n, Widths[b.width])
         IN [i \in 1..b.n |-> IF i \in DOMAIN b.patches THEN packed[i] + b.patches[i]
                              ELSE packed[i]]

DecodedDocids(b, prev) ==
    LET gap == DecodedGaps(b)
        d[i \in 0..b.n] == IF i = 0 THEN prev ELSE d[i - 1] + gap[i] + 1
    IN [i \in 1..b.n |-> d[i]]

\* DecodePostingsBlock's checks on a block read behind prev.
DecodesBlock(b, prev) ==
    LET docids == DecodedDocids(b, prev) IN
    /\ b.n \in 1..PostingsBlockLen
    /\ ~b.tail => /\ b.n = PostingsBlockLen
                  /\ b.tfw <= 8
                  /\ Cardinality(DOMAIN b.patches) <= MaxPatches
                  /\ \A i \in DOMAIN b.patches : Unpack(b.gaps, b.n, Widths[b.width])[i] = 0
    /\ \A i \in 1..b.n : docids[i] <= MaxDocid
    /\ docids[b.n] = b.last
    /\ b.tail => \A i \in 1..b.n : b.tfs[i] > 0

DecodePostingsBlock(b, prev) ==
    LET docids == DecodedDocids(b, prev)
        tfs == IF b.tail THEN b.tfs
               ELSE [i \in 1..b.n |-> Unpack(b.tfs, b.n, b.tfw)[i] + 1]
    IN [i \in 1..b.n |-> [docid |-> docids[i], tf |-> tfs[i],
                          mask |-> IF b.masks = <<>> THEN 1 ELSE b.masks[i]]]

\* ---------------------------------------------------------------- skips --

SkipCounts(df) ==
    LET nb == (df + PostingsBlockLen - 1) \div PostingsBlockLen
    IN [l1 |-> nb, l2 |-> (nb + SkipFanout - 1) \div SkipFanout]

\* The superskip entries EncodeSkips derives, and ParseSkips derives again.
Superskips(l1) ==
    [g \in 1..(Len(l1) + SkipFanout - 1) \div SkipFanout |->
        LET end == IF g * SkipFanout < Len(l1) THEN g * SkipFanout ELSE Len(l1)
            from == (g - 1) * SkipFanout + 1
        IN [last |-> l1[end].last, impact |-> Peak({l1[i].impact : i \in from..end}),
            index |-> from - 1]]

EncodeSkips(l1, posOffs) == [l1 |-> l1, pos |-> posOffs, l2 |-> Superskips(l1)]

\* SkipBound: the largest impact, from the superskips alone.
SkipBound(region, df) == Peak({region.l2[g].impact : g \in 1..SkipCounts(df).l2})

\* ParseSkips accepts the region of a term with df postings.
ParsesSkips(region, df) ==
    /\ Len(region.l1) = SkipCounts(df).l1 /\ Len(region.pos) = Len(region.l1)
    /\ Len(region.l1) > 0
    /\ \A i \in 2..Len(region.l1) : /\ region.l1[i].last > region.l1[i - 1].last
                                    /\ region.l1[i].off > region.l1[i - 1].off
    /\ region.l2 = Superskips(region.l1)

\* ------------------------------------------------------------ positions --

\* AppendPositionRun: per field a count, then each position as its distance from the one
\* before. fields is a sequence of position sequences, in field order, none empty.
AppendPositionRun(fields) ==
    FlattenSeq([f \in 1..Len(fields) |->
        <<Len(fields[f])>> \o
        [i \in 1..Len(fields[f]) |->
            fields[f][i] - (IF i = 1 THEN -1 ELSE fields[f][i - 1]) - 1]])

\* DecodePositionRun from offset at: nf fields, which the posting's mask tells.
DecodePositionRun(cells, at, nf) ==
    LET start[f \in 1..nf + 1] ==
          IF f = 1 THEN at ELSE start[f - 1] + 1 + cells[start[f - 1] + 1]
        position(f) ==
          LET p[i \in 0..cells[start[f] + 1]] ==
                IF i = 0 THEN -1 ELSE p[i - 1] + cells[start[f] + 1 + i] + 1
          IN [i \in 1..cells[start[f] + 1] |-> p[i]]
    IN [fields |-> [f \in 1..nf |-> position(f)], end |-> start[nf + 1]]
=============================================================================
