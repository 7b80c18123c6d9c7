------------------------------ MODULE HotDict ------------------------------
(***************************************************************************)
(* hotfmt/dict.go: the dictionary band. DictWriter front-codes terms into  *)
(* blocks, each followed by its fixed-size entries, and seals the blocks   *)
(* with an index of first terms. Two readers walk a block: scanBlockEnd    *)
(* (Lookup, Walk) reads it front to back, LookupInto knows where the       *)
(* entries start from where the next block does and stops early.           *)
(*                                                                         *)
(* The blocks area is a sequence of cells: one per byte of a coded term,   *)
(* and one per entry (dictEntrySize is one cell). An offset counts cells   *)
(* from 0. Add's error returns leave the writer alone and are no steps.    *)
(***************************************************************************)
EXTENDS Naturals, Sequences, FiniteSets, SequencesExt

CONSTANTS
    TermByte,         \* the bytes terms are made of, numbers
    MaxTermLen,      \* maxTermLen
    DictBlockTerms,  \* dictBlockTerms
    InlineDF,        \* entries up to this df keep their postings inline (4 in the code)
    MaxMask,         \* maxFieldMask
    MaxU48,          \* the largest offset an entry holds
    Entry            \* the entries callers hand to Add

ASSUME DictAssumption ==
    /\ TermByte \subseteq Nat
    /\ {MaxTermLen, DictBlockTerms} \subseteq Nat \ {0}

VARIABLES
    dictw,   \* DictWriter
    added,   \* the terms and entries it accepted, in order
    band     \* the sealed band, or NoBand

dictVars == <<dictw, added, band>>

NoBand == [nterms |-> 0]

DictTerm == UNION {[1..n -> TermByte] : n \in 1..MaxTermLen}

\* bytes.Compare(s, t) < 0.
TermLess(s, t) ==
    \/ IsStrictPrefix(s, t)
    \/ \E i \in 1..(IF Len(s) < Len(t) THEN Len(s) ELSE Len(t)) :
          s[i] < t[i] /\ \A j \in 1..i - 1 : s[j] = t[j]

\* ------------------------------------------------------------- entries --

\* DictEntry.validate.
EntryValid(e) ==
    /\ e.df > 0
    /\ IF e.df <= InlineDF
       THEN /\ Len(e.inline) = e.df
            /\ e.cf = 0 /\ e.postings = 0 /\ e.len = 0 /\ e.skip = 0
            /\ \A i \in 1..Len(e.inline) :
                  /\ i > 1 => e.inline[i].docid > e.inline[i - 1].docid
                  /\ e.inline[i].tf > 0
                  /\ e.inline[i].mask \in 1..MaxMask
       ELSE /\ e.inline = <<>>
            /\ e.cf >= e.df
            /\ e.cf <= MaxU48 /\ e.postings <= MaxU48 /\ e.skip <= MaxU48

\* appendDictEntry: df, a flag, and one area that holds either union member.
EncodeEntry(e) ==
    [df |-> e.df, inlined |-> e.inline # <<>>,
     area |-> IF e.inline # <<>> THEN e.inline ELSE <<e.cf, e.postings, e.len, e.skip>>]

\* parseDictEntryInto: the entry, or one that fails its validation.
ParseEntry(c) ==
    IF c.inlined
    THEN [df |-> c.df, cf |-> 0, postings |-> 0, len |-> 0, skip |-> 0,
          inline |-> SubSeq(c.area, 1, c.df)]
    ELSE [df |-> c.df, cf |-> c.area[1], postings |-> c.area[2], len |-> c.area[3],
          skip |-> c.area[4], inline |-> <<>>]

\* -------------------------------------------------------------- writer --

\* The longest common prefix Add codes a term against.
CommonPrefix(s, t) ==
    Cardinality({i \in 1..Len(s) : i <= Len(t) /\ \A j \in 1..i : s[j] = t[j]})

\* What Add appends for a term: the whole first term of a block, else a suffix.
CodeTerm(w, t) ==
    IF w.entries = <<>>
    THEN <<Len(t)>> \o t
    ELSE LET lcp == CommonPrefix(t, w.prev)
         IN <<lcp, Len(t) - lcp>> \o SubSeq(t, lcp + 1, Len(t))

FlushBlock(w) ==
    [w EXCEPT !.area = w.area \o w.terms \o w.entries,
              !.terms = <<>>, !.entries = <<>>, !.nblocks = @ + 1]

NewDictWriter ==
    [area |-> <<>>, index |-> <<>>, prev |-> <<>>, nterms |-> 0, nblocks |-> 0,
     terms |-> <<>>, entries |-> <<>>]

DictAdd(t, e) ==
    /\ band = NoBand
    /\ dictw.nterms > 0 => TermLess(dictw.prev, t)
    /\ EntryValid(e)
    /\ LET w == [dictw EXCEPT
                   !.index = IF dictw.entries = <<>>
                             THEN Append(@, [off |-> Len(dictw.area), term |-> t])
                             ELSE @,
                   !.terms = @ \o CodeTerm(dictw, t),
                   !.entries = Append(@, EncodeEntry(e)),
                   !.prev = t,
                   !.nterms = @ + 1]
       IN dictw' = IF Len(w.entries) = DictBlockTerms THEN FlushBlock(w) ELSE w
    /\ added' = Append(added, [term |-> t, entry |-> e])
    /\ UNCHANGED band

DictSeal ==
    /\ band = NoBand
    /\ dictw.nterms > 0
    /\ dictw' = IF dictw.entries # <<>> THEN FlushBlock(dictw) ELSE dictw
    /\ band' = [area |-> dictw'.area, index |-> dictw'.index,
                nblocks |-> dictw'.nblocks, nterms |-> dictw'.nterms]
    /\ UNCHANGED added

\* ------------------------------------------------------------- readers --

\* OpenDict's checks on the trailer and the index.
OpensDict(d) ==
    /\ d.nterms > 0 /\ d.nblocks > 0
    /\ d.nblocks = (d.nterms + DictBlockTerms - 1) \div DictBlockTerms
    /\ Len(d.index) = d.nblocks
    /\ d.index[1].off = 0
    /\ \A i \in 1..d.nblocks :
          /\ Len(d.index[i].term) \in 1..MaxTermLen
          /\ d.index[i].off < Len(d.area)
          /\ i > 1 => /\ d.index[i].off > d.index[i - 1].off
                      /\ TermLess(d.index[i - 1].term, d.index[i].term)

\* Mutant: a block is entered only past its first term.
BlockForPast(d, t) == Cardinality({i \in 1..d.nblocks : TermLess(d.index[i].term, t)})

\* The binary search of both lookups: the last block whose first term is not past t.
BlockFor(d, t) == Cardinality({i \in 1..d.nblocks : ~TermLess(t, d.index[i].term)})

TermsIn(d, b) ==
    IF b = d.nblocks THEN d.nterms - (b - 1) * DictBlockTerms ELSE DictBlockTerms

NextBlock(d, b) == IF b < d.nblocks THEN d.index[b + 1].off ELSE Len(d.area)

BrokenDict == [ok |-> FALSE, at |-> 0, term |-> <<>>]

\* One step of either walk: the coded term at offset at of the block, whose terms may
\* reach up to limit, after the term prev (the block's first term when prev is empty).
ReadTerm(d, b, at, limit, prev) ==
    LET cell == [i \in 0..limit - 1 |-> d.area[d.index[b].off + i + 1]]
        lcp  == IF prev = <<>> THEN 0 ELSE cell[at]
        from == IF prev = <<>> THEN at + 1 ELSE at + 2
        sl   == cell[from - 1]
        t    == SubSeq(prev, 1, lcp) \o [i \in 1..sl |-> cell[from + i - 1]]
    IN IF \/ from > limit
          \/ lcp > Len(prev) \/ sl = 0 \/ lcp + sl > MaxTermLen
          \/ from + sl > limit
          \/ prev = <<>> /\ t # d.index[b].term
          \/ lcp < Len(prev) /\ cell[from] <= prev[lcp + 1]
       THEN BrokenDict
       ELSE [ok |-> TRUE, at |-> from + sl, term |-> t]

\* The terms of block b, one after the other; a broken one breaks those behind it.
WalkTerms(d, b, n, limit) ==
    LET W[i \in 0..n] ==
          IF i = 0 THEN [ok |-> TRUE, at |-> 0, term |-> <<>>]
          ELSE LET p == W[i - 1]
               IN IF p.ok THEN ReadTerm(d, b, p.at, limit, p.term) ELSE BrokenDict
    IN [i \in 1..n |-> W[i]]

\* scanBlockEnd: every term, then the entries right behind the last one.
ScanBlock(d, b) ==
    LET n == TermsIn(d, b)
        w == WalkTerms(d, b, n, Len(d.area) - d.index[b].off)
        end == d.index[b].off + w[n].at
        es == [i \in 1..n |-> ParseEntry(d.area[end + i])]
    IN IF ~w[n].ok \/ end + n > Len(d.area) \/ \E i \in 1..n : ~EntryValid(es[i])
       THEN [ok |-> FALSE]
       ELSE [ok |-> TRUE, end |-> end + n,
             seen |-> [i \in 1..n |-> [term |-> w[i].term, entry |-> es[i]]]]

Absent == [ok |-> TRUE, found |-> FALSE]
Failed == [ok |-> FALSE, found |-> FALSE]
Found(e) == [ok |-> TRUE, found |-> TRUE, entry |-> e]

Lookup(d, t) ==
    LET b == BlockFor(d, t)
        s == ScanBlock(d, b)
        hits == {i \in DOMAIN s.seen : s.seen[i].term = t}
    IN CASE b = 0      -> Absent
         [] b > 0 /\ ~s.ok -> Failed
         [] OTHER      -> IF hits = {} THEN Absent
                          ELSE Found(s.seen[CHOOSE i \in hits : TRUE].entry)

\* LookupInto: the entries are found from the next block's offset, and the walk stops
\* at the first term that is not before t.
LookupInto(d, t) ==
    LET b == BlockFor(d, t)
        n == TermsIn(d, b)
        entriesAt == NextBlock(d, b) - d.index[b].off - n
        w == WalkTerms(d, b, n, entriesAt)
        stops == {i \in 1..n : ~w[i].ok \/ ~TermLess(w[i].term, t)}
        i == CHOOSE k \in stops : \A j \in stops : k <= j
        e == ParseEntry(d.area[d.index[b].off + entriesAt + i])
    IN CASE b = 0                      -> Absent
         [] b > 0 /\ entriesAt < 1     -> Failed
         [] b > 0 /\ entriesAt >= 1    ->
              CASE stops = {}          -> Absent
                [] stops # {} /\ ~w[i].ok -> Failed
                [] stops # {} /\ w[i].ok  ->
                     IF w[i].term # t THEN Absent
                     ELSE IF EntryValid(e) THEN Found(e) ELSE Failed

\* Walk: every block's terms in order, and each block ends where the next begins.
Walk(d) ==
    LET s == [b \in 1..d.nblocks |-> ScanBlock(d, b)]
    IN IF \E b \in 1..d.nblocks : ~s[b].ok \/ s[b].end # NextBlock(d, b)
       THEN [ok |-> FALSE]
       ELSE [ok |-> TRUE, seen |-> FlattenSeq([b \in 1..d.nblocks |-> s[b].seen])]

\* ---------------------------------------------------------- the system --

DictInit == dictw = NewDictWriter /\ added = <<>> /\ band = NoBand

DictNext == DictSeal \/ \E t \in DictTerm, e \in Entry : DictAdd(t, e)

DictSpec == DictInit /\ [][DictNext]_dictVars

\* ---------------------------------------------------------- properties --

Truth(t) ==
    IF \E i \in DOMAIN added : added[i].term = t
    THEN Found(added[CHOOSE i \in DOMAIN added : added[i].term = t].entry)
    ELSE Absent

\* A sealed band opens; the serving lookup (which never looks behind the term it wants)
\* and the full scan answer alike for every term there could be, the entry that was
\* added or nothing; and Walk hands the merge path back exactly what was added.
DictAnswers ==
    band # NoBand =>
      /\ OpensDict(band)
      /\ \A t \in DictTerm : Lookup(band, t) = Truth(t) /\ LookupInto(band, t) = Truth(t)
      /\ Walk(band) = [ok |-> TRUE, seen |-> added]
=============================================================================
