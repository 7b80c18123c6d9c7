----------------------------- MODULE IndexBuild -----------------------------
(***************************************************************************)
(* From pages to a sealed index: the shard pass, its spilled runs and the  *)
(* merge of src/build/shardpass.go, run.go and emit.go.                    *)
(*                                                                         *)
(* A page is the tokens of its two fields, 0 for one that admission drops. *)
(* A record takes one byte of a run file and one unit of the spill budget; *)
(* a reader's decoder takes chunk bytes at a time. Of the bands, those of  *)
(* the terms are kept: the dictionary, postings, skips and positions.      *)
(***************************************************************************)
EXTENDS HotPostings

CONSTANTS
  Page,          \* the pages that may arrive: [body, title], sequences of terms
  MaxPages,      \* bound: pages in the shard
  Budget,        \* ShardPass.budget, in records
  InlineMax,     \* the largest df of an inline entry (4 in the code)
  MaxTF,         \* the largest stored tf (255 in the code)
  MaxPosition,   \* the largest stored position (65535 in the code)
  PunchChunk,    \* punchChunk, in records
  Chunk          \* how much a decoder may take at a time

VARIABLES
  pages,    \* the pages added; a docid is the arrival index
  recs,     \* ShardPass.recs
  runs,     \* the run files and, once the merge has opened them, their readers
  chunk,    \* what decoders take at a time in this build; 0 before the merge
  cur,      \* termState: the term the merge is in
  bands,    \* the spools and the dictionary so far
  stage     \* "pass", "merge" or "sealed"

buildVars == <<pages, recs, runs, chunk, cur, bands, stage>>

Field == <<"body", "title">>
Bit(f) == 2 ^ (f - 1)
Punched == [hole |-> TRUE]       \* what a punched byte reads as
NoRec == [term |-> 0]         \* a reader that has no record yet

-----------------------------------------------------------------------------
(* The shard pass.                                                         *)

\* addField: where term stands, positions past the largest clamped to one of it.
Positions(tokens, term) ==
  LET at == SetToSortSeq({i - 1 : i \in {j \in DOMAIN tokens : tokens[j] = term}}, <)
      stored == SelectSeq(at, LAMBDA p : p <= MaxPosition)
  IN IF Len(stored) < Len(at) /\ (stored = <<>> \/ Last(stored) < MaxPosition)
     THEN Append(stored, MaxPosition) ELSE stored

TFIn(tokens, term) == Cardinality({i \in DOMAIN tokens : tokens[i] = term})

TermsOf(page) == (ToSet(page.body) \cup ToSet(page.title)) \ {0}

RecOf(page, docid, term) ==
  [term |-> term, docid |-> docid,
   tf |-> TFIn(page.body, term) + TFIn(page.title, term),
   mask |-> (IF TFIn(page.body, term) > 0 THEN Bit(1) ELSE 0) + (IF TFIn(page.title, term) > 0 THEN Bit(2) ELSE 0),
   pos |-> <<Positions(page.body, term), Positions(page.title, term)>>]

Earlier(a, b) == a.term < b.term \/ (a.term = b.term /\ a.docid < b.docid)

\* spill: one more run, sorted by term and docid.
Spilled(rs) ==
  IF rs = <<>> THEN runs
  ELSE Append(runs, [bytes |-> SortSeq(rs, Earlier), on |-> TRUE, taken |-> 0, punched |-> 0,
                     dead |-> FALSE, ahead |-> <<>>, head |-> NoRec])

AddRow(page) ==
  LET docid == Len(pages)
      terms == SetToSortSeq(TermsOf(page), <)
      held  == recs \o [k \in DOMAIN terms |-> RecOf(page, docid, terms[k])]
      full  == Len(held) >= Budget
  IN /\ stage = "pass" /\ Len(pages) < MaxPages
     /\ pages' = Append(pages, page)
     /\ recs' = IF full THEN <<>> ELSE held
     /\ runs' = IF full THEN Spilled(held) ELSE runs
     /\ UNCHANGED <<chunk, cur, bands, stage>>

-----------------------------------------------------------------------------
(* Readers.                                                                *)

AtEnd(r) == r.ahead = <<>> /\ r.taken = Len(r.bytes)

\* RunReader.Next: the record in front, out of the decoder's memory.
NextRec(r, n) ==
  LET upto  == IF r.taken + n < Len(r.bytes) THEN r.taken + n ELSE Len(r.bytes)
      ahead == IF r.ahead # <<>> THEN r.ahead ELSE SubSeq(r.bytes, r.taken + 1, upto)
  IN IF AtEnd(r) THEN [r EXCEPT !.on = FALSE, !.head = NoRec]
     ELSE [r EXCEPT !.head = Head(ahead), !.ahead = Tail(ahead),
                    !.taken = IF r.ahead = <<>> THEN upto ELSE @]

\* Reclaim: the prefix the decoder has taken gives its space back; the file system may
\* refuse, once for all.
Reclaimed(r) ==
  IF r.dead \/ r.taken - r.punched < PunchChunk THEN {r}
  ELSE { [r EXCEPT !.bytes = [i \in DOMAIN @ |-> IF i \in r.punched + 1 .. r.taken THEN Punched ELSE @[i]],
                   !.punched = r.taken],
         [r EXCEPT !.dead = TRUE] }

-----------------------------------------------------------------------------
(* The merge.                                                              *)

NewTerm(term) == [term |-> term, ps |-> <<>>, cf |-> 0, posBuf |-> <<>>, runOffs |-> <<>>]

\* Mutant: position offsets count from the term's own first run.
FlushTermLocal(c, b) ==
  LET df  == Len(c.ps)
      enc == EncodePostings(c.ps)
      posOffs == [i \in DOMAIN enc.l1 |-> c.runOffs[(i - 1) * PostingsBlockLen + 1]]
  IN IF df = 0 THEN b
     ELSE IF df <= InlineMax
     THEN [b EXCEPT !.dict = Append(@, [term |-> c.term, df |-> df, inline |-> c.ps])]
     ELSE [dict |-> Append(b.dict, [term |-> c.term, df |-> df, cf |-> c.cf, inline |-> <<>>,
                                    postingsOff |-> Len(b.postings), skipOff |-> Len(b.skips)]),
           postings |-> Append(b.postings, enc.blocks),
           skips |-> Append(b.skips, EncodeSkips(enc.l1, posOffs)),
           positions |-> b.positions \o c.posBuf]

\* flushTerm: a rare term goes into its dictionary entry, positions dropped; another one
\* into the spools, its entry and each block's skip entry naming where.
FlushTerm(c, b) ==
  LET df  == Len(c.ps)
      enc == EncodePostings(c.ps)
      posOffs == [i \in DOMAIN enc.l1 |-> Len(b.positions) + c.runOffs[(i - 1) * PostingsBlockLen + 1]]
  IN IF df = 0 THEN b
     ELSE IF df <= InlineMax
     THEN [b EXCEPT !.dict = Append(@, [term |-> c.term, df |-> df, inline |-> c.ps])]
     ELSE [dict |-> Append(b.dict, [term |-> c.term, df |-> df, cf |-> c.cf, inline |-> <<>>,
                                    postingsOff |-> Len(b.postings), skipOff |-> Len(b.skips)]),
           postings |-> Append(b.postings, enc.blocks),
           skips |-> Append(b.skips, EncodeSkips(enc.l1, posOffs)),
           positions |-> b.positions \o c.posBuf]

\* consume, once the record's term is the current one.
TakeRec(c, r) ==
  LET tf == IF r.tf < MaxTF THEN r.tf ELSE MaxTF
      fields == SelectSeq(r.pos, LAMBDA p : p # <<>>)
  IN [c EXCEPT !.cf = @ + r.tf,
               !.runOffs = Append(@, Len(c.posBuf)),
               !.posBuf = @ \o AppendPositionRun(fields),
               !.ps = Append(@, [docid |-> r.docid, tf |-> tf, mask |-> r.mask, impact |-> tf])]

\* Finish and the opening of the runs: each reader decodes its first record. Emit refuses
\* a shard without runs.
OpenRuns(n) ==
  LET all == Spilled(recs)
  IN /\ stage = "pass" /\ all # <<>>
     /\ runs' = [i \in DOMAIN all |-> NextRec(all[i], n)]
     /\ recs' = <<>> /\ chunk' = n /\ stage' = "merge"
     /\ UNCHANGED <<pages, cur, bands>>

Unread == {i \in DOMAIN runs : runs[i].on}

\* The top of the heap.
Least(i) == i \in Unread /\ \A j \in Unread \ {i} : Earlier(runs[i].head, runs[j].head)

MergeStep(i) ==
  LET r    == runs[i].head
      new  == r.term # cur.term
      next == NextRec(runs[i], chunk)
  IN /\ stage = "merge" /\ Least(i)
     /\ bands' = IF new THEN FlushTerm(cur, bands) ELSE bands
     /\ cur' = TakeRec(IF new THEN NewTerm(r.term) ELSE cur, r)
     /\ \E after \in IF next.on THEN Reclaimed(next) ELSE {next} : runs' = [runs EXCEPT ![i] = after]
     /\ UNCHANGED <<pages, recs, chunk, stage>>

Seal ==
  /\ stage = "merge" /\ Unread = {}
  /\ bands' = FlushTerm(cur, bands)
  /\ stage' = "sealed"
  /\ UNCHANGED <<pages, recs, runs, chunk, cur>>

BuildIdle ==
  /\ pages = <<>> /\ recs = <<>> /\ runs = <<>> /\ chunk = 0 /\ cur = NewTerm(0)
  /\ bands = [dict |-> <<>>, postings |-> <<>>, skips |-> <<>>, positions |-> <<>>]
  /\ stage = "pass"

BuildNext ==
  \/ \E page \in Page : AddRow(page)
  \/ \E n \in Chunk : OpenRuns(n)
  \/ \E i \in DOMAIN runs : MergeStep(i)
  \/ Seal

-----------------------------------------------------------------------------
(* What the index must say.                                                *)

Holding(term) == SetToSortSeq({d \in 0 .. Len(pages) - 1 : term \in TermsOf(pages[d + 1])}, <)

StoredTF(term, d) ==
  LET tf == RecOf(pages[d + 1], d, term).tf IN IF tf < MaxTF THEN tf ELSE MaxTF

Expected(term) ==
  [k \in DOMAIN Holding(term) |->
     LET d == Holding(term)[k] IN [docid |-> d, tf |-> StoredTF(term, d), mask |-> RecOf(pages[d + 1], d, term).mask]]

Share(expected, i) == BlockOf(expected, i)

\* Block i of a listed term, reached through its skip entry: the postings it decodes to, and
\* the position runs behind the offset the entry gives.
BlockAgrees(e, i) ==
  LET region == bands.skips[e.skipOff + 1]
      block  == bands.postings[e.postingsOff + 1][region.l1[i].off]
      prev   == IF i = 1 THEN -1 ELSE region.l1[i - 1].last
      want   == Share(Expected(e.term), i)
      fields(k) == SelectSeq(RecOf(pages[want[k].docid + 1], want[k].docid, e.term).pos, LAMBDA p : p # <<>>)
      run[k \in 1 .. Len(want)] ==
        DecodePositionRun(bands.positions, IF k = 1 THEN region.pos[i] ELSE run[k - 1].end, Len(fields(k)))
  IN /\ DecodesBlock(block, prev)
     /\ DecodePostingsBlock(block, prev) = want
     /\ \A k \in DOMAIN want : run[k].fields = fields(k)

\* The sealed index is the inverted index of the pages, however they were cut into runs and
\* whatever was reclaimed under the readers: every term once and in order, each posting
\* where its entry or its skip entry leads, positions included; and no run is left on disk.
BuildInverts ==
  stage = "sealed" =>
    /\ \A i \in DOMAIN runs : ~runs[i].on
    /\ [i \in DOMAIN bands.dict |-> bands.dict[i].term]
         = SetToSortSeq(UNION {TermsOf(pages[d]) : d \in DOMAIN pages}, <)
    /\ \A i \in DOMAIN bands.dict :
         LET e == bands.dict[i]
             want == Expected(e.term)
         IN /\ e.df = Len(want)
            /\ e.inline # <<>> =>
                 [k \in DOMAIN e.inline |-> [docid |-> e.inline[k].docid, tf |-> e.inline[k].tf, mask |-> e.inline[k].mask]] = want
            /\ e.inline = <<>> =>
                 /\ ParsesSkips(bands.skips[e.skipOff + 1], e.df)
                 /\ \A b \in DOMAIN bands.skips[e.skipOff + 1].l1 : BlockAgrees(e, b)
=============================================================================
