---------------------------- MODULE PostingsList ----------------------------
(***************************************************************************)
(* A term's postings as the merge hands them over, one more at every step, *)
(* coded and decoded by HotPostings in every state.                        *)
(***************************************************************************)
EXTENDS HotPostings

CONSTANTS
    MaxList,   \* postings in the list
    Gap,       \* how far the next docid may lie
    Hit        \* [tf, mask, impact] of a posting

VARIABLE list

PostingsInit == list = <<>>

AddPosting(gap, hit) ==
    /\ Len(list) < MaxList
    /\ LET base == IF list = <<>> THEN -1 ELSE list[Len(list)].docid
       IN list' = Append(list, [docid |-> base + gap, tf |-> hit.tf, mask |-> hit.mask,
                                impact |-> hit.impact])

PostingsNext == \E gap \in Gap, hit \in Hit : AddPosting(gap, hit)

PostingsSpec == PostingsInit /\ [][PostingsNext]_list

\* ---------------------------------------------------------- properties --

\* The i-th block as a reader sees it that jumps there: the skip entry gives its offset,
\* the entry before it the docid the gaps start from.
JumpTo(enc, i) ==
    [block |-> enc.blocks[enc.l1[i].off],
     prev |-> IF i = 1 THEN -1 ELSE enc.l1[i - 1].last]

\* Every block, read by a jump through its skip entry, passes the decoder's checks and
\* holds exactly its share of the list, whatever widths, patches and tail it was coded with.
ListReadsBack ==
    LET enc == EncodePostings(list) IN
    Encodable(list) =>
      \A i \in 1..Len(enc.l1) :
        LET at == JumpTo(enc, i)
            read == DecodePostingsBlock(at.block, at.prev)
        IN /\ DecodesBlock(at.block, at.prev)
           /\ Len(read) = Len(BlockOf(list, i))
           /\ \A k \in 1..Len(read) :
                read[k] = [docid |-> BlockOf(list, i)[k].docid, tf |-> BlockOf(list, i)[k].tf,
                           mask |-> BlockOf(list, i)[k].mask]

\* The skip region of the list parses for its df, each block's bound covers its postings,
\* the superskips bound the list, and tightly: pruning on them loses nothing and wastes
\* nothing.
SkipsBound ==
    LET enc == EncodePostings(list)
        region == EncodeSkips(enc.l1, [i \in 1..Len(enc.l1) |-> i])
    IN Encodable(list) =>
         /\ ParsesSkips(region, Len(list))
         /\ \A i \in 1..Len(enc.l1), k \in 1..PostingsBlockLen :
              k <= Len(BlockOf(list, i)) => BlockOf(list, i)[k].impact <= enc.l1[i].impact
         /\ SkipBound(region, Len(list)) = Peak({list[k].impact : k \in 1..Len(list)})

\* What the postings and skip bands are for: read by jumps, and pruned by bounds that hold.
PostingsHold == ListReadsBack /\ SkipsBound
=============================================================================
