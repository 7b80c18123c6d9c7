------------------------------ MODULE Manifests ------------------------------
(***************************************************************************)
(* Which manifest is the truth: SelectManifest of src/coldfmt/manifest.go. *)
(*                                                                         *)
(* Partition writers hold the lease one after the other; a writer that     *)
(* lost it, a zombie, keeps publishing until it notices, and nothing it    *)
(* writes is checked. A reader lists the published manifests in any order, *)
(* asks the chain's lease history which epochs count, and picks one. A     *)
(* manifest is its epoch, number and watermark; the segments it lists are  *)
(* left out.                                                               *)
(***************************************************************************)
EXTENDS Integers, FiniteSets, SequencesExt

CONSTANTS
  MaxPos,        \* bound: chain positions
  MaxManSeq,     \* bound: sequence numbers
  MaxManifests   \* bound: manifests published

VARIABLES
  holder,   \* holder[p]: the epoch that holds the lease at chain position p; 0 is nobody
  mans      \* the published manifests

manVars == <<holder, mans>>

-----------------------------------------------------------------------------
heldAtOrAfter(epoch, pos) == \E p \in DOMAIN holder : p >= pos /\ holder[p] = epoch

Before(listing, i, j) ==
  \/ listing[i].manSeq < listing[j].manSeq
  \/ listing[i].manSeq = listing[j].manSeq /\ i < j

\* sort.SliceStable: by ManSeq, equal ones in the order of the listing.
Ordered(listing) ==
  LET order == CHOOSE o \in SetToSeqs(DOMAIN listing) :
                 \A a, b \in DOMAIN o : a < b => Before(listing, o[a], o[b])
  IN [k \in DOMAIN order |-> listing[order[k]]]

NoManifest == [epoch |-> 0, manSeq |-> 0, watermark |-> 0]

\* Mutant: the watermark of a manifest that is not valid counts as well.
SelectRaisedBar(listing) ==
  FoldLeft(LAMBDA acc, m :
             [bar |-> m.watermark, winner |-> IF heldAtOrAfter(m.epoch, acc.bar) THEN m ELSE acc.winner],
           [bar |-> 0, winner |-> NoManifest], Ordered(listing)).winner

SelectManifest(listing) ==
  FoldLeft(LAMBDA winner, m : IF heldAtOrAfter(m.epoch, winner.watermark) THEN m ELSE winner,
           NoManifest, Ordered(listing))

-----------------------------------------------------------------------------
Epochs == {holder[p] : p \in DOMAIN holder} \ {0}
Newest(S) == CHOOSE e \in S : \A f \in S : f <= e

InitMan == holder = <<1>> /\ mans = {}

\* The chain grows: the holder stays, lets go, or a successor takes over.
ChainGrows ==
  /\ Len(holder) < MaxPos
  /\ \E e \in {Last(holder), 0, Newest(Epochs) + 1} : holder' = Append(holder, e)
  /\ UNCHANGED mans

\* EncodeManifest and its upload. It looks at no lease: a writer may never have held one, may
\* have lost it, may take a number another took, and states any watermark.
Publish(epoch) ==
  /\ Cardinality(mans) < MaxManifests
  /\ \E pos \in 1 .. MaxPos, seq \in 1 .. MaxManSeq :
       mans' = mans \cup {[epoch |-> epoch, manSeq |-> seq, watermark |-> pos]}
  /\ UNCHANGED holder

NextMan == ChainGrows \/ \E epoch \in 1 .. MaxPos : Publish(epoch)

ManSpec == InitMan /\ [][NextMan]_manVars

-----------------------------------------------------------------------------
\* The last of the listed manifests at positions V; V is valid when it is exactly those whose
\* epoch held the lease at or after the watermark of the valid one before.
LastOf(listed, V) == IF V = {} THEN NoManifest ELSE listed[Max(V)]
ByTheRule(listed, V) ==
  \A i \in DOMAIN listed :
    i \in V <=> heldAtOrAfter(listed[i].epoch, LastOf(listed, {j \in V : j < i}).watermark)

Numbered == \A m, n \in mans : m.manSeq = n.manSeq => m = n

\* A writer learns of its lease by folding the chain up to the grant, and a manifest's
\* watermark is how far its writer had folded.
Informed == \A m \in mans : \E p \in DOMAIN holder : p <= m.watermark /\ holder[p] = m.epoch

\* Listed in any order, the last manifest that is valid is picked: what the others state
\* raises no bar. If no two share a number every reader picks the same; and if every writer
\* had seen its own grant, no manifest is valid behind one of a successor, whatever number
\* and watermark the zombie gave it.
OneLiveSet ==
  /\ \A listing \in SetToSeqs(mans) :
       LET listed == Ordered(listing) IN
       \E valid \in SUBSET DOMAIN listed :
         /\ ByTheRule(listed, valid)
         /\ SelectManifest(listing) = LastOf(listed, valid)
         /\ Informed => \A i, j \in valid : i < j => listed[i].epoch <= listed[j].epoch
  /\ Numbered => \A one, other \in SetToSeqs(mans) : SelectManifest(one) = SelectManifest(other)
=============================================================================
