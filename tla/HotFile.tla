------------------------------ MODULE HotFile ------------------------------
(***************************************************************************)
(* hotfmt/format.go, meta.go, file.go, filewriter.go: the .hot file as     *)
(* FileWriter streams it and EncodeFile assembles it, and what Open and    *)
(* ReadBand make of a file that is whole, unfinished, cut short or rotten. *)
(*                                                                         *)
(* A file is a sequence of cells at offsets from 0. The header takes two   *)
(* cells, the second being the writer field its checksums leave out; the   *)
(* footer and the tail take one each, and carry a checksum of their own. A *)
(* checksum is the checked cells themselves. Rot is a cell that is none of *)
(* the values it could have.                                               *)
(***************************************************************************)
EXTENDS Naturals, Sequences, FiniteSets, SequencesExt

CONSTANTS
    BandOrder,   \* bandOrder, meta and fieldstats first
    Align,       \* align, in cells; the header takes HeaderCells of the first page
    Header,      \* [kind, gen, base, trio]: the trio is doc count, tokenizer, quant scale
    Meta,        \* [trio, fields]
    Stats,       \* [fields]
    Payload,     \* what a streamed band can hold
    NoFile

HeaderCells == 2
NumBands == Len(BandOrder)

Pad == [pad |-> TRUE]
Rot == [rot |-> TRUE]

HasField(cell, name) == name \in DOMAIN cell

\* The cells of a band are no rot, and what a band holds does not pass for a tail.
ASSUME FileAssumption ==
    /\ {Align, NumBands} \subseteq Nat /\ Align > HeaderCells /\ NumBands >= 2
    /\ \A p \in Payload : p \in Seq({p[i] : i \in DOMAIN p})
    /\ \A cell \in Meta \cup Stats \cup UNION {{p[i] : i \in DOMAIN p} : p \in Payload} :
          cell # Rot /\ ~HasField(cell, "footerOff")

VARIABLES
    fw,      \* FileWriter: off is Len(out), next, entries
    handed,  \* what the caller handed over: header, meta, stats, payloads
    device,  \* the file as the disk has it
    phase    \* idle, writing, sealed, damaged

fileVars == <<fw, handed, device, phase>>

\* -------------------------------------------------------------- writing --

\* FileHeader.validate.
HeaderValid(h) ==
    CASE h.kind = "base"  -> h.base = 0
      [] h.kind = "delta" -> h.base < h.gen
      [] OTHER            -> FALSE

\* What NewFileWriter and EncodeFile ask of header, meta and fieldstats, which share
\* their parameters and their field ids (strictly increasing, in both).
TrioAgrees(h, m, s) ==
    /\ HeaderValid(h)
    /\ m.trio = h.trio
    /\ m.fields = s.fields
    /\ \A i \in 2..Len(m.fields) : m.fields[i] > m.fields[i - 1]

AlignUp(n) == ((n + Align - 1) \div Align) * Align

Padding(n) == [i \in 1..AlignUp(n) - n |-> Pad]

HeaderPage(h) == <<[header |-> h], [writer |-> h.gen]>>

\* WriteBand and WriteBandBytes: pad to the boundary, then the payload.
Streamed(w, id, payload) ==
    LET out == w.out \o Padding(Len(w.out))
    IN [out |-> out \o payload, next |-> w.next + 1,
        entries |-> Append(w.entries,
                      [id |-> id, off |-> Len(out), len |-> Len(payload), crc |-> payload])]

\* Finish: the footer page, then the tail that points at it.
Footer(entries, prov) ==
    LET body == [bands |-> entries, prov |-> prov] IN [body |-> body, crc |-> body]
Tail_(off) == [footerOff |-> off, footerLen |-> 1, crc |-> <<off, 1>>]

\* Mutant: the footer follows the last band without padding.
FinishedTight(w, prov) == w.out \o <<Footer(w.entries, prov), Tail_(Len(w.out))>>

Finished(w, prov) ==
    LET out == w.out \o Padding(Len(w.out))
    IN out \o <<Footer(w.entries, prov), Tail_(Len(out))>>

NewFileWriter(h, m, s) ==
    /\ phase = "idle"
    /\ TrioAgrees(h, m, s)
    /\ fw' = Streamed(Streamed([out |-> HeaderPage(h), next |-> 1, entries |-> <<>>],
                               BandOrder[1], <<m>>),
                      BandOrder[2], <<s>>)
    /\ handed' = [header |-> h, bands |-> <<<<m>>, <<s>>>>]
    /\ device' = fw'.out
    /\ phase' = "writing"

WriteBand(payload) ==
    /\ phase = "writing" /\ fw.next <= NumBands
    /\ fw' = Streamed(fw, BandOrder[fw.next], payload)
    /\ handed' = [handed EXCEPT !.bands = Append(@, payload)]
    /\ device' = fw'.out
    /\ UNCHANGED phase

Finish(prov) ==
    /\ phase = "writing" /\ fw.next = NumBands + 1
    /\ device' = Finished(fw, prov)
    /\ phase' = "sealed"
    /\ UNCHANGED <<fw, handed>>

\* EncodeFile: the same bytes from bands held in memory. The bands are placed first; the
\* last place is the footer's.
Starts(bands) ==
    LET start[i \in 1..NumBands + 1] ==
          IF i = 1 THEN Align ELSE AlignUp(start[i - 1] + Len(bands[i - 1]))
    IN start

EncodeFile(h, bands, prov) ==
    LET start == Starts(bands)
        entry(i) == [id |-> BandOrder[i], off |-> start[i], len |-> Len(bands[i]),
                     crc |-> bands[i]]
        cell(k) == \* the cell at offset k, below the footer
          IF \E i \in 1..NumBands : k \in start[i]..start[i] + Len(bands[i]) - 1
          THEN LET i == CHOOSE i \in 1..NumBands :
                          k \in start[i]..start[i] + Len(bands[i]) - 1
               IN bands[i][k - start[i] + 1]
          ELSE IF k < HeaderCells THEN HeaderPage(h)[k + 1] ELSE Pad
    IN [k \in 1..start[NumBands + 1] |-> cell(k - 1)]
         \o <<Footer([i \in 1..NumBands |-> entry(i)], prov), Tail_(start[NumBands + 1])>>

\* --------------------------------------------------------------- damage --

\* A disk or a download that went wrong, once: a cell rots or the end is missing.
Decay(k) == /\ phase = "sealed" /\ k \in 1..Len(device)
            /\ device' = [device EXCEPT ![k] = Rot]
            /\ phase' = "damaged"
            /\ UNCHANGED <<fw, handed>>

CutShort(n) == /\ phase = "sealed" /\ n \in 0..Len(device) - 1
               /\ device' = SubSeq(device, 1, n)
               /\ phase' = "damaged"
               /\ UNCHANGED <<fw, handed>>

\* -------------------------------------------------------------- reading --

\* A pread of n cells at off; reading past the end is an error, as a rotten record is.
ReadAt(f, off, n) == SubSeq(f, off + 1, off + n)

\* The tail Open reads first: its checksum, and an extent that fits the file.
TailFits(f) ==
    LET t == f[Len(f)] IN
    /\ Len(f) >= HeaderCells + Align + 1
    /\ HasField(t, "footerOff")
    /\ t.crc = <<t.footerOff, t.footerLen>>
    /\ t.footerOff % Align = 0
    /\ t.footerOff + t.footerLen = Len(f) - 1

\* parseFooter: all bands, in order, dense but for padding, up to the footer.
FooterFits(f) ==
    LET off == f[Len(f)].footerOff
        ft == f[off + 1]
    IN /\ HasField(ft, "body")
       /\ ft.crc = ft.body
       /\ Len(ft.body.bands) = NumBands
       /\ \A i \in 1..NumBands :
            LET e == ft.body.bands[i] IN
            /\ e.id = BandOrder[i]
            /\ e.off = IF i = 1 THEN Align
                       ELSE AlignUp(ft.body.bands[i - 1].off + ft.body.bands[i - 1].len)
            /\ e.off + e.len <= off
       /\ AlignUp(ft.body.bands[NumBands].off + ft.body.bands[NumBands].len) = off

Entries(f) == f[f[Len(f)].footerOff + 1].body.bands

\* ReadBand: the band, unless its checksum is another's.
ReadsBand(f, i) == ReadAt(f, Entries(f)[i].off, Entries(f)[i].len) = Entries(f)[i].crc

ReadBand(f, i) == ReadAt(f, Entries(f)[i].off, Entries(f)[i].len)

Opens(f) ==
    /\ Len(f) > 0 /\ TailFits(f) /\ FooterFits(f)
    /\ HasField(f[1], "header") /\ HeaderValid(f[1].header)
    /\ ReadsBand(f, 1) /\ ReadsBand(f, 2)
    /\ TrioAgrees(f[1].header, ReadBand(f, 1)[1], ReadBand(f, 2)[1])

VerifyBands(f) == \A i \in 1..NumBands : ReadsBand(f, i)

\* ----------------------------------------------------------- the system --

FileInit ==
    /\ fw = NoFile /\ handed = NoFile /\ device = <<>> /\ phase = "idle"

FileNext ==
    \/ \E h \in Header, m \in Meta, s \in Stats : NewFileWriter(h, m, s)
    \/ \E payload \in Payload : WriteBand(payload)
    \/ \E prov \in {0} : Finish(prov)
    \/ \E k \in 1..Len(device) : Decay(k)
    \/ \E n \in 0..Len(device) - 1 : CutShort(n)

FileSpec == FileInit /\ [][FileNext]_fileVars

\* ----------------------------------------------------------- properties --

\* A file opens only if Finish wrote all of it: never half way through the writer, never
\* with its end missing. A band that reads without an error is the band that was handed
\* over, whatever rotted, and so is the header; only an intact file verifies with all of
\* its bands, unless what rotted is padding or the unchecked writer field.
OpensOnlyWhole ==
    /\ phase \in {"idle", "writing"} => ~Opens(device)
    /\ phase = "sealed" => Opens(device) /\ VerifyBands(device)
    /\ phase \in {"sealed", "damaged"} /\ Opens(device) =>
         /\ device[1].header = handed.header
         /\ \A i \in 1..NumBands :
              ReadsBand(device, i) => ReadBand(device, i) = handed.bands[i]
         /\ VerifyBands(device) =>
              \A k \in 1..Len(device) :
                 device[k] = Rot => \/ k = HeaderCells
                                    \/ Finished(fw, 0)[k] = Pad

\* The streaming writer and the assembler produce the same bytes.
StreamedTwin == phase = "sealed" => device = EncodeFile(handed.header, handed.bands, 0)

\* A file is one thing, whoever wrote it, and opens only when it is all there.
FileHolds == OpensOnlyWhole /\ StreamedTwin
=============================================================================
