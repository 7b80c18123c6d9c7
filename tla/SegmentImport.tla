---------------------------- MODULE SegmentImport ----------------------------
(***************************************************************************)
(* The bootstrap import: src/crawl/importer.go, its sink src/crawl/sink.go *)
(* and the command src/cmd/chizu/import.go that runs it.                   *)
(*                                                                         *)
(* The command reads its WET files front to back, routes each new page to  *)
(* its host's partition, and seals a partition's segment when it is full:  *)
(* the object is uploaded, then committed on the chain. Any error ends the *)
(* process, which also may die at any moment; the operator repeats the     *)
(* command. The chain is the sequence of its commits.                      *)
(***************************************************************************)
EXTENDS Integers, FiniteSets, SequencesExt

CONSTANTS
  Feeds,      \* the record sequences an import may be started on
  Home,       \* Home[host]: partition(host)
  SegRows, SegBytes,   \* the seal thresholds
  MaxLives,   \* bound: how often the command is started
  MaxCommits  \* bound: commits on the chain

\* A URL names its host, and partition() maps every host to a partition.
ASSUME ImportAssumption ==
  /\ \A h \in DOMAIN Home : Home[h] \in Nat
  /\ \A f \in Feeds :
       /\ f \in Seq({f[i] : i \in DOMAIN f})
       /\ \A i \in DOMAIN f : f[i].host \in DOMAIN Home
       /\ \A i, j \in DOMAIN f : f[i].url = f[j].url => f[i].host = f[j].host

VARIABLES
  feed,      \* the records of the WET files, in their order
  lives,     \* starts of the command
  nread,     \* records read by this one
  open,      \* open[p]: the rows of partition p's open segment
  raw,       \* raw[p]: its bytes
  seen,      \* the (url, text) pairs seen, by partition
  seq,       \* seq[p]: the last segment sealed
  doing,     \* "down", "reading", "put", "append", "flushing" or "done"
  sealing,   \* the partition being sealed
  late,      \* segment PUTs given up on that the bucket may still execute
  objects,   \* the bucket's cold/page objects: rows by <<partition, seq>>
  commits    \* the chain's SegCommits

importVars == <<feed, lives, nread, open, raw, seen, seq, doing, sealing, late, objects, commits>>
partVars == <<open, raw, seen, seq>>

HomePartition == {Home[h] : h \in DOMAIN Home}
Pair(rec) == [url |-> rec.url, text |-> rec.text]

Fresh ==
  /\ nread' = 0 /\ sealing' = 0
  /\ open' = [p \in HomePartition |-> <<>>] /\ raw' = [p \in HomePartition |-> 0]
  /\ seen' = [p \in HomePartition |-> {}] /\ seq' = [p \in HomePartition |-> 0]

-----------------------------------------------------------------------------
InitImport ==
  /\ feed \in Feeds /\ lives = 0 /\ nread = 0 /\ doing = "down" /\ sealing = 0
  /\ open = [p \in HomePartition |-> <<>>] /\ raw = [p \in HomePartition |-> 0]
  /\ seen = [p \in HomePartition |-> {}] /\ seq = [p \in HomePartition |-> 0]
  /\ late = {} /\ objects = <<>> /\ commits = <<>>

\* The command starts with an importer that knows nothing of its former lives.
Start ==
  /\ doing = "down" /\ lives < MaxLives
  /\ lives' = lives + 1 /\ doing' = "reading" /\ Fresh
  /\ UNCHANGED <<feed, late, objects, commits>>

Die ==
  /\ doing \notin {"down", "done"}
  /\ doing' = "down"
  /\ UNCHANGED <<feed, lives, nread, partVars, sealing, late, objects, commits>>

\* Mutant: a repeated pair is stored again.
StoreUnseen ==
  LET rec == feed[nread + 1]
      p   == Home[rec.host]
      full == Len(open'[p]) >= SegRows \/ raw'[p] >= SegBytes
  IN /\ doing = "reading" /\ nread < Len(feed)
     /\ nread' = nread + 1
     /\ IF rec.kind = "conversion" /\ ~rec.short /\ rec.canonical
        THEN /\ seen' = seen
             /\ open' = [open EXCEPT ![p] = Append(@, Pair(rec))]
             /\ raw' = [raw EXCEPT ![p] = @ + rec.bytes]
             /\ doing' = IF full THEN "put" ELSE "reading"
             /\ sealing' = IF full THEN p ELSE 0
             /\ seq' = IF full THEN [seq EXCEPT ![p] = @ + 1] ELSE seq
        ELSE UNCHANGED <<partVars, doing, sealing>>
     /\ UNCHANGED <<feed, lives, late, objects, commits>>

\* ImportWET and store: a record that is no conversion, is short, is refused by the URL laws
\* or repeats a pair adds nothing; a new row may fill its segment.
Store ==
  LET rec == feed[nread + 1]
      p   == Home[rec.host]
      new == rec.kind = "conversion" /\ ~rec.short /\ rec.canonical /\ Pair(rec) \notin seen[p]
  IN /\ doing = "reading" /\ nread < Len(feed)
     /\ nread' = nread + 1
     /\ IF new
        THEN /\ seen' = [seen EXCEPT ![p] = @ \cup {Pair(rec)}]
             /\ open' = [open EXCEPT ![p] = Append(@, Pair(rec))]
             /\ raw' = [raw EXCEPT ![p] = @ + rec.bytes]
             /\ LET full == Len(open'[p]) >= SegRows \/ raw'[p] >= SegBytes
                IN /\ doing' = IF full THEN "put" ELSE "reading"
                   /\ sealing' = IF full THEN p ELSE 0
                   /\ seq' = IF full THEN [seq EXCEPT ![p] = @ + 1] ELSE seq
        ELSE UNCHANGED <<partVars, doing, sealing>>
     /\ UNCHANGED <<feed, lives, late, objects, commits>>

\* Flush seals the first partition that has rows; without one the import is done.
Flush ==
  LET left == {p \in HomePartition : open[p] # <<>>}
      p    == CHOOSE q \in left : \A r \in left : q <= r
  IN /\ doing \in {"reading", "flushing"} /\ nread = Len(feed)
     /\ IF left = {} THEN doing' = "done" /\ UNCHANGED <<seq, sealing>>
        ELSE doing' = "put" /\ seq' = [seq EXCEPT ![p] = @ + 1] /\ sealing' = p
     /\ UNCHANGED <<feed, lives, nread, open, raw, seen, late, objects, commits>>

-----------------------------------------------------------------------------
(* BucketSink.Commit.                                                      *)

Segment == <<sealing, seq[sealing]>>
PutObject(key, rows) == [k \in DOMAIN objects \cup {key} |-> IF k = key THEN rows ELSE objects[k]]

\* The upload overwrites whatever is under the key. It succeeds, or fails for the client: then
\* it has landed, or not, or will.
PutSegment ==
  /\ doing = "put"
  /\ \/ objects' = PutObject(Segment, open[sealing]) /\ doing' = "append" /\ UNCHANGED late
     \/ doing' = "down" /\ objects' \in {objects, PutObject(Segment, open[sealing])} /\ UNCHANGED late
     \/ doing' = "down" /\ late' = late \cup {[key |-> Segment, rows |-> open[sealing]]} /\ UNCHANGED objects
  /\ UNCHANGED <<feed, lives, nread, partVars, sealing, commits>>

LateLands(put) ==
  /\ late' = late \ {put} /\ objects' = PutObject(put.key, put.rows)
  /\ UNCHANGED <<feed, lives, nread, partVars, doing, sealing, commits>>

Commit == [part |-> sealing, seq |-> seq[sealing], rows |-> Len(open[sealing])]

\* The append succeeds, and the partition starts a new segment; or it fails for the client,
\* landed or not.
AppendCommit ==
  /\ doing = "append" /\ Len(commits) < MaxCommits
  /\ \/ /\ commits' = Append(commits, Commit)
        /\ open' = [open EXCEPT ![sealing] = <<>>] /\ raw' = [raw EXCEPT ![sealing] = 0]
        /\ doing' = IF nread < Len(feed) THEN "reading" ELSE "flushing"
     \/ /\ commits' \in {commits, Append(commits, Commit)}
        /\ doing' = "down" /\ UNCHANGED <<open, raw>>
  /\ UNCHANGED <<feed, lives, nread, seen, seq, sealing, late, objects>>

ImportNext ==
  Start \/ Die \/ Store \/ Flush \/ PutSegment \/ AppendCommit \/ \E put \in late : LateLands(put)

ImportSpec == InitImport /\ [][ImportNext]_importVars

-----------------------------------------------------------------------------
Key(c) == <<c.part, c.seq>>
Live == {Key(commits[i]) : i \in DOMAIN commits}
RowsAt(k) == ToSet(objects[k])

Accepted(rec) == rec.kind = "conversion" /\ ~rec.short /\ rec.canonical

\* Over every repetition of the command: a commit names an object that is there and has the
\* rows it says, whatever was overwritten or lands late; a partition's live segments are
\* numbered without a gap; no row is live twice, or outside its host's partition; and a command
\* that comes to its end has made every admissible page live.
ImportLands ==
  /\ \A i \in DOMAIN commits :
       Key(commits[i]) \in DOMAIN objects /\ Len(objects[Key(commits[i])]) = commits[i].rows
  /\ \A k \in Live : k[2] > 1 => <<k[1], k[2] - 1>> \in Live
  /\ \A k, l \in Live : k # l => RowsAt(k) \cap RowsAt(l) = {}
  /\ \A k \in Live : Cardinality(RowsAt(k)) = Len(objects[k])
  /\ \A k \in Live : \A row \in RowsAt(k) :
       \E i \in DOMAIN feed : Accepted(feed[i]) /\ Pair(feed[i]) = row /\ Home[feed[i].host] = k[1]
  /\ doing = "done" =>
       UNION {RowsAt(k) : k \in Live} = {Pair(feed[i]) : i \in {j \in DOMAIN feed : Accepted(feed[j])}}
=============================================================================
