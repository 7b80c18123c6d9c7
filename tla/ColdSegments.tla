---------------------------- MODULE ColdSegments ----------------------------
(***************************************************************************)
(* coldfmt: page, docmap, graph, raw and frontier segments. A writer       *)
(* gathers rows, seals them into blocks behind a footer index, and readers *)
(* find their way back from the index alone: by column, by fingerprint, by *)
(* stream offset, by section id, or by walking.                            *)
(*                                                                         *)
(* A run of the model is one writer. A block is what appendBlock framed:   *)
(* compressed when that pays. Offsets in the file are left out, a footer   *)
(* holds its blocks; sizes are kept, since they decide where blocks break. *)
(***************************************************************************)
EXTENDS Naturals, Sequences, FiniteSets, SequencesExt

CONSTANTS
    PageRow,       \* [fp, fetch, text, links]: text a length, links a set of [dst, anchor]
    DocmapRow,     \* [fp, doc]
    Source,        \* [src, dsts]: dsts a sequence, increasing
    RawDoc,        \* [fp, len]
    Section,       \* [id, raw]
    MaxRows,       \* bound on the rows of one segment
    BlockTarget,   \* BlockTarget, in the units of the sizes below
    PerBlock,      \* docmap rows of a block
    MaxAnchorLen,
    Pays,          \* the raw size from which zstd makes a block smaller
    BloomBlocks    \* 512-bit blocks of a segment's bloom (nblocks of bloomBuild)

ASSUME ColdAssumption ==
    /\ {BlockTarget, PerBlock, BloomBlocks} \subseteq Nat \ {0}
    /\ Pays \in Nat

VARIABLES
    kind,   \* which writer this is
    rows,   \* what it was given
    seg     \* the sealed segment, or Unsealed

coldVars == <<kind, rows, seg>>

Unsealed == [nrows |-> 0]
Column == <<"fp", "fetch", "text", "links">>

\* --------------------------------------------------------------- blocks --

\* appendBlock: compressed, unless that does not make it smaller.
AppendBlock(raw, size) ==
    IF size >= Pays THEN [comp |-> "zstd", rawlen |-> size, payload |-> [zstd |-> raw]]
    ELSE [comp |-> "stored", rawlen |-> size, payload |-> raw]

DecodeBlock(b) == IF b.comp = "zstd" THEN b.payload.zstd ELSE b.payload

\* Where a writer that flushes at the target begins its blocks. size[i, s] is what row i
\* adds to a block it starts (s) or continues.
BlockStarts(n, size) ==
    LET filled[i \in 1..n] == \* bytes in the block once row i is in it
          IF i = 1 \/ filled[i - 1] >= BlockTarget THEN size[i, TRUE]
          ELSE filled[i - 1] + size[i, FALSE]
    IN {i \in 1..n : i = 1 \/ filled[i - 1] >= BlockTarget}

\* The row past the block that starts at s.
BlockEnd(starts, s, n) ==
    IF \E t \in starts : t > s THEN CHOOSE t \in starts : t > s /\ \A u \in starts : u > s => t <= u
    ELSE n + 1

InOrder(starts) == SetToSortSeq(starts, <)

\* Block first rows as every footer parser wants them: from 0, increasing, below n.
IndexFits(firstrows, n) ==
    /\ firstrows # <<>> /\ firstrows[1] = 0
    /\ \A i \in 1..Len(firstrows) :
          firstrows[i] < n /\ (i > 1 => firstrows[i] > firstrows[i - 1])

\* ---------------------------------------------------------------- pages --

VarintSize(v) == IF v < 128 THEN 1 ELSE 2

Clip(a) == IF a > MaxAnchorLen THEN MaxAnchorLen ELSE a

\* Mutant: the chain of fetch times runs on over block boundaries.
PageCellChained(c, i, start) ==
    CASE c = "fp"    -> rows[i].fp
      [] c = "fetch" -> IF i = 1 THEN rows[i].fetch ELSE rows[i].fetch - rows[i - 1].fetch
      [] c = "text"  -> rows[i].text
      [] c = "links" -> {[l EXCEPT !.anchor = Clip(@)] : l \in rows[i].links}

\* appendPageCell: fetch_ms restarts its delta chain at a block, anchors are cut.
PageCell(c, i, start) ==
    CASE c = "fp"    -> rows[i].fp
      [] c = "fetch" -> IF start THEN rows[i].fetch ELSE rows[i].fetch - rows[i - 1].fetch
      [] c = "text"  -> rows[i].text
      [] c = "links" -> {[l EXCEPT !.anchor = Clip(@)] : l \in rows[i].links}

PageCellSize(c, i, start) ==
    CASE c = "fp"    -> 1
      [] c = "fetch" -> VarintSize(PageCell(c, i, start))
      [] c = "text"  -> 1 + rows[i].text
      [] c = "links" -> 1 + 2 * Cardinality(rows[i].links)

\* bloomBuild and bloomTest: the block a fingerprint picks, then its bits.
BloomBit(fp) == <<fp % BloomBlocks, fp>>
MayContain(s, fp) == BloomBit(fp) \in s.bloom

\* Seal: each column breaks into blocks where its own bytes reach the target.
SealPages ==
    LET n == Len(rows)
        starts(c) == BlockStarts(n, [i \in 1..n, s \in BOOLEAN |-> PageCellSize(c, i, s)])
        block(c, from) ==
          LET to == BlockEnd(starts(c), from, n)
              cells == [k \in 1..to - from |-> PageCell(c, from + k - 1, k = 1)]
          IN [firstrow |-> from - 1, data |-> AppendBlock(cells, to - from)]
    IN [nrows |-> n, first |-> rows[1].fetch, last |-> rows[n].fetch,
        index |-> [c \in Range(Column) |->
                     [b \in 1..Cardinality(starts(c)) |-> block(c, InOrder(starts(c))[b])]],
        bloom |-> {BloomBit(rows[i].fp) : i \in 1..n}]

\* decodeColumn: the cells of each block, as many as its index entry leaves it.
DecodeColumn(s, c) ==
    LET blocks == s.index[c]
        count(b) == (IF b < Len(blocks) THEN blocks[b + 1].firstrow ELSE s.nrows)
                      - blocks[b].firstrow
        values(b) ==
          LET cells == DecodeBlock(blocks[b].data)
              v[k \in 1..Len(cells)] ==
                IF c = "fetch" /\ k > 1 THEN v[k - 1] + cells[k] ELSE cells[k]
          IN [k \in 1..Len(cells) |-> v[k]]
    IN IF \E b \in 1..Len(blocks) : Len(DecodeBlock(blocks[b].data)) # count(b)
       THEN [ok |-> FALSE]
       ELSE [ok |-> TRUE, cells |-> FlattenSeq([b \in 1..Len(blocks) |-> values(b)])]

\* Rows: column 0 says how many, every later one must agree.
PageRows(s) ==
    [i \in 1..s.nrows |->
       [fp |-> DecodeColumn(s, "fp").cells[i], fetch |-> DecodeColumn(s, "fetch").cells[i],
        text |-> DecodeColumn(s, "text").cells[i], links |-> DecodeColumn(s, "links").cells[i]]]

\* --------------------------------------------------------------- docmap --

SealDocmap ==
    LET n == Len(rows)
        nb == (n + PerBlock - 1) \div PerBlock
        from(b) == (b - 1) * PerBlock + 1
        to(b) == IF b < nb THEN b * PerBlock ELSE n
    IN [nrows |-> n,
        blocks |-> [b \in 1..nb |->
            [firstrow |-> from(b) - 1, firstfp |-> rows[from(b)].fp,
             data |-> AppendBlock(SubSeq(rows, from(b), to(b)), to(b) - from(b) + 1)]]]

\* Find: one block by its first fingerprint, then a binary search for the first row not
\* below fp.
DocmapFind(s, fp) ==
    LET bi == Cardinality({b \in 1..Len(s.blocks) : s.blocks[b].firstfp <= fp})
        raw == DecodeBlock(s.blocks[bi].data)
        ri == Cardinality({k \in 1..Len(raw) : raw[k].fp < fp}) + 1
    IN IF bi = 0 THEN <<>>
       ELSE IF ri > Len(raw) THEN <<>>
       ELSE IF raw[ri].fp # fp THEN <<>> ELSE <<raw[ri]>>

DocmapRows(s) == FlattenSeq([b \in 1..Len(s.blocks) |-> DecodeBlock(s.blocks[b].data)])

\* ---------------------------------------------------------------- graph --

\* A source's cells: its own id, absolute at the start of a block, its degree, its
\* destinations delta-coded.
GraphCells(i, start) ==
    LET d == rows[i].dsts
    IN <<IF start THEN rows[i].src ELSE rows[i].src - rows[i - 1].src, Len(d)>>
         \o [j \in 1..Len(d) |-> IF j = 1 THEN d[1] ELSE d[j] - d[j - 1]]

SealGraph ==
    LET n == Len(rows)
        starts == BlockStarts(n, [i \in 1..n, s \in BOOLEAN |-> Len(GraphCells(i, s))])
        block(from) ==
          LET to == BlockEnd(starts, from, n)
              raw == FlattenSeq([k \in 1..to - from |-> GraphCells(from + k - 1, k = 1)])
          IN [firstrow |-> rows[from].src, data |-> AppendBlock(raw, Len(raw))]
        degree[i \in 0..n] == IF i = 0 THEN 0 ELSE degree[i - 1] + Len(rows[i].dsts)
    IN [nrows |-> n, nedges |-> degree[n], first |-> rows[1].src, last |-> rows[n].src,
        blocks |-> [b \in 1..Cardinality(starts) |-> block(InOrder(starts)[b])]]

\* Walk over one block: from each source's cells to the next one's, until none are left.
WalkBlock(raw) ==
    LET w[i \in 0..Len(raw)] == \* after i sources: where the next begins, what was seen
          IF i = 0 THEN [at |-> 1, prev |-> 0, seen |-> <<>>]
          ELSE LET p == w[i - 1]
               IN IF p.at > Len(raw) THEN p
                  ELSE LET src == (IF i = 1 THEN 0 ELSE p.prev) + raw[p.at]
                           deg == raw[p.at + 1]
                           dst[j \in 0..deg] ==
                             IF j = 0 THEN 0 ELSE dst[j - 1] + raw[p.at + 1 + j]
                       IN [at |-> p.at + 2 + deg, prev |-> src,
                           seen |-> Append(p.seen,
                                      [src |-> src, dsts |-> [j \in 1..deg |-> dst[j]]])]
    IN w[Len(raw)].seen

GraphWalk(s) == FlattenSeq([b \in 1..Len(s.blocks) |-> WalkBlock(DecodeBlock(s.blocks[b].data))])

\* The checks Walk makes on the way, against index and footer.
WalkAgrees(s) ==
    LET seen == GraphWalk(s)
        edges[i \in 0..Len(seen)] == IF i = 0 THEN 0 ELSE edges[i - 1] + Len(seen[i].dsts)
    IN /\ \A b \in 1..Len(s.blocks) :
            WalkBlock(DecodeBlock(s.blocks[b].data))[1].src = s.blocks[b].firstrow
       /\ \A i \in 2..Len(seen) : seen[i].src > seen[i - 1].src
       /\ Len(seen) = s.nrows /\ edges[Len(seen)] = s.nedges

\* ------------------------------------------------------------------ raw --

\* The decoded HTML of document i: as many bytes as its length, all its own.
Html(i) == [k \in 1..rows[i].len |-> <<i, k>>]

\* Seal: blocks break between documents, the index carries stream offsets.
SealRaw ==
    LET n == Len(rows)
        starts == BlockStarts(n, [i \in 1..n, s \in BOOLEAN |-> rows[i].len])
        off[i \in 1..n] == IF i = 1 THEN 0 ELSE off[i - 1] + rows[i - 1].len
        block(from) ==
          LET to == BlockEnd(starts, from, n)
              raw == FlattenSeq([k \in 1..to - from |-> Html(from + k - 1)])
          IN [firstrow |-> from - 1, data |-> AppendBlock(raw, Len(raw))]
    IN [nrows |-> n,
        docs |-> [i \in 1..n |-> [fp |-> rows[i].fp, off |-> off[i], len |-> rows[i].len]],
        blocks |-> [b \in 1..Cardinality(starts) |-> block(InOrder(starts)[b])]]

\* HTML: the last block whose first document starts no later than d.
RawHtml(s, d) ==
    LET firstOff(b) == s.docs[s.blocks[b].firstrow + 1].off
        later == {b \in 2..Len(s.blocks) : firstOff(b) <= d.off}
        bi == IF later = {} THEN 1 ELSE CHOOSE b \in later : \A c \in later : c <= b
        raw == DecodeBlock(s.blocks[bi].data)
        start == d.off - firstOff(bi)
    IN IF start + d.len > Len(raw) THEN [ok |-> FALSE]
       ELSE [ok |-> TRUE, html |-> SubSeq(raw, start + 1, start + d.len)]

\* parseFooter: offsets contiguous, and the blocks hold the whole stream.
RawFits(s) ==
    LET sum[b \in 0..Len(s.blocks)] ==
          IF b = 0 THEN 0 ELSE sum[b - 1] + s.blocks[b].data.rawlen
    IN /\ s.docs[1].off = 0
       /\ \A i \in 2..s.nrows : s.docs[i].off = s.docs[i - 1].off + s.docs[i - 1].len
       /\ sum[Len(s.blocks)] = s.docs[s.nrows].off + s.docs[s.nrows].len

\* ------------------------------------------------------------- frontier --

SealFrontier ==
    [nrows |-> Len(rows),
     sections |-> [i \in 1..Len(rows) |->
        [id |-> rows[i].id, data |-> AppendBlock(rows[i].raw, Len(rows[i].raw))]]]

FrontierSection(s, id) ==
    LET hits == {i \in 1..s.nrows : s.sections[i].id = id}
    IN IF hits = {} THEN <<>>
       ELSE <<DecodeBlock(s.sections[CHOOSE i \in hits : \A j \in hits : i <= j].data)>>

\* ----------------------------------------------------------- the system --

ColdInit ==
    /\ kind \in {"page", "docmap", "graph", "raw", "frontier"}
    /\ rows = <<>> /\ seg = Unsealed

Gather(row) ==
    /\ seg = Unsealed /\ Len(rows) < MaxRows
    /\ rows' = Append(rows, row)
    /\ UNCHANGED <<kind, seg>>

\* Add takes any row, but the graph's, which checks its order at once.
PageAdd == kind = "page" /\ \E r \in PageRow : Gather(r)
DocmapAdd == kind = "docmap" /\ \E r \in DocmapRow : Gather(r)
RawAdd == kind = "raw" /\ \E r \in RawDoc : Gather(r)
AddSection == kind = "frontier" /\ \E r \in Section : Gather(r)
GraphAdd == /\ kind = "graph"
            /\ \E r \in Source : /\ rows # <<>> => r.src > rows[Len(rows)].src
                                 /\ Gather(r)

\* What Seal refuses: nothing at all, and rows out of the format's order.
Sealable ==
    /\ rows # <<>>
    /\ kind = "page" => \A i \in 2..Len(rows) : rows[i].fetch >= rows[i - 1].fetch
    /\ kind = "docmap" => \A i \in 2..Len(rows) : rows[i].fp > rows[i - 1].fp
    /\ kind = "frontier" => \A i, j \in 1..Len(rows) : i # j => rows[i].id # rows[j].id

ColdSeal ==
    /\ seg = Unsealed /\ Sealable
    /\ seg' = CASE kind = "page"     -> SealPages
                [] kind = "docmap"   -> SealDocmap
                [] kind = "graph"    -> SealGraph
                [] kind = "raw"      -> SealRaw
                [] kind = "frontier" -> SealFrontier
    /\ UNCHANGED <<kind, rows>>

ColdNext == PageAdd \/ DocmapAdd \/ GraphAdd \/ RawAdd \/ AddSection \/ ColdSeal

ColdSpec == ColdInit /\ [][ColdNext]_coldVars

\* ----------------------------------------------------------- properties --

\* The row as the store-time rules leave it.
Stored(r) == [r EXCEPT !.links = {[l EXCEPT !.anchor = Clip(@)] : l \in r.links}]

\* Columns break into blocks at different rows, and the fetch times start afresh in each;
\* still every column of a page segment decodes to one cell a row, and the rows are the
\* ones that were added. The bloom never denies a page that is there, and the footer's
\* times span the rows.
ColumnsAlign ==
    kind = "page" /\ seg # Unsealed =>
      /\ \A c \in Range(Column) :
           /\ IndexFits([b \in 1..Len(seg.index[c]) |-> seg.index[c][b].firstrow], seg.nrows)
           /\ DecodeColumn(seg, c).ok
           /\ Len(DecodeColumn(seg, c).cells) = seg.nrows
      /\ PageRows(seg) = [i \in 1..Len(rows) |-> Stored(rows[i])]
      /\ \A i \in 1..Len(rows) : /\ MayContain(seg, rows[i].fp)
                                 /\ rows[i].fetch \in seg.first..seg.last

\* The other segments read back too: every fingerprint finds its docmap row and no other
\* finds any; a graph walks to the sources and edges it was given; a document's HTML comes
\* out of one block, empty ones included; a section comes back under its own id.
SegmentReadsBack ==
    seg # Unsealed =>
      CASE kind = "docmap" ->
             /\ IndexFits([b \in 1..Len(seg.blocks) |-> seg.blocks[b].firstrow], seg.nrows)
             /\ DocmapRows(seg) = rows
             /\ \A fp \in {r.fp : r \in DocmapRow} :
                  DocmapFind(seg, fp) = SelectSeq(rows, LAMBDA r : r.fp = fp)
        [] kind = "graph" -> WalkAgrees(seg) /\ GraphWalk(seg) = rows
        [] kind = "raw" ->
             /\ RawFits(seg)
             /\ IndexFits([b \in 1..Len(seg.blocks) |-> seg.blocks[b].firstrow], seg.nrows)
             /\ \A i \in 1..Len(rows) :
                  RawHtml(seg, seg.docs[i]) = [ok |-> TRUE, html |-> Html(i)]
        [] kind = "frontier" ->
             \A r \in Section :
               FrontierSection(seg, r.id) =
                 IF \E i \in 1..Len(rows) : rows[i].id = r.id
                 THEN <<rows[CHOOSE i \in 1..Len(rows) : rows[i].id = r.id].raw>> ELSE <<>>
        [] OTHER -> TRUE

\* Every cold segment, of whatever kind, gives back what was put into it.
SegmentsHold == ColumnsAlign /\ SegmentReadsBack
=============================================================================
