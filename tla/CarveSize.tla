------------------------------ MODULE CarveSize ------------------------------
(***************************************************************************)
(* How long a carved file is (internal/carver/formats.go,                  *)
(* iso_bmff_size.go, determineFileSize): its records are walked, its text  *)
(* is searched for the last end mark, or its header says it.               *)
(*                                                                         *)
(* The disk is a sequence of cells, numbers below Base.  A field that the  *)
(* code reads (a type, a length, a mark) is a cell, so the headers are     *)
(* shorter than the real ones; the cells of JPEG are its bytes.            *)
(*                                                                         *)
(* A candidate is [fmt, offset, max, disk, tracks, true]: tracks are the   *)
(* sample tables of an MP4; true is the size of an intact file, 0 if the   *)
(* candidate is none.                                                      *)
(***************************************************************************)
EXTENDS Naturals, Sequences, SequencesExt, FiniteSetsExt, Functions

CONSTANTS
  Candidates,
  Base,      \* values of a cell
  Block,     \* cells read at a time (8 KB, 64 KB)
  MinFrames, \* frames that make a sound file credible (16)
  MaxTracks  \* of a MIDI file (512)

VARIABLES
  cand,
  pos,    \* where the walk is
  phase,  \* "walk", "scan" (JPEG), "sub" (GIF), "probe" (MP3, AAC), "search", "done"
  frames, \* frames or tracks so far
  best,   \* end of the last mark
  size    \* the answer; 0: the candidate is dropped

sizeVars == <<cand, pos, phase, frames, best, size>>

Cell(p) == cand.disk[p + 1]
Readable(p, k) == p + k <= Len(cand.disk)
Limit == cand.offset + cand.max
AtMost(n, m) == IF n < m THEN n ELSE m
Capped(n) == AtMost(n, cand.max)

Ended(n) == phase' = "done" /\ size' = n /\ UNCHANGED <<cand, pos, frames, best>>
Dropped == Ended(0)
GoOn(p, ph) == pos' = p /\ phase' = ph /\ UNCHANGED <<cand, frames, best, size>>

Walking(fmt) == phase = "walk" /\ cand.fmt = fmt

-----------------------------------------------------------------------------
(* JPEG: markers with their segments, and coded data in between *)

FF == Base - 1
EOI == 9
SOS == 10
RST == 8
Alone == {0, 1, RST}  \* stuffing and markers without a segment

(* detectJPEGSize: fill bytes before a marker are passed over.              *)
MarkerAt ==
  LET past == {p \in pos + 1 .. AtMost(Limit, Len(cand.disk)) - 1 : Cell(p) # FF}
  IN IF past = {} THEN 0 ELSE Min(past)

SegmentLen(p) == Base * Cell(p) + Cell(p + 1)

JpegMarker ==
  /\ Walking("jpeg")
  /\ IF pos + 1 >= Limit \/ ~Readable(pos, 1) THEN Dropped
     ELSE IF Cell(pos) # FF THEN GoOn(pos + 1, "walk")
     ELSE IF MarkerAt = 0 THEN Dropped
     ELSE LET next == MarkerAt + 1
              marker == Cell(MarkerAt)
          IN IF marker = EOI THEN Ended(next - cand.offset)
             ELSE IF marker \in Alone THEN GoOn(next, "walk")
             ELSE IF ~Readable(next, 2) \/ SegmentLen(next) < 2 THEN Dropped
             ELSE GoOn(next + SegmentLen(next), IF marker = SOS THEN "scan" ELSE "walk")

(* scanJPEGEntropy: the coded data, a block at a time, up to a marker that  *)
(* belongs to none of its own; the last byte of a block is read again.      *)
BlockLen == AtMost(AtMost(Limit - pos, Block), Len(cand.disk) - pos)

(* Mutant: the last byte of a block is not read again.                      *)
JpegScanWithoutOverlap ==
  /\ phase = "scan"
  /\ IF pos >= Limit \/ BlockLen < 2 \/ pos >= Len(cand.disk) THEN Dropped
     ELSE LET hits == {i \in pos .. pos + BlockLen - 2 :
                         Cell(i) = FF /\ Cell(i + 1) \notin {0, FF, RST}}
          IN IF hits = {} THEN GoOn(pos + BlockLen, "scan")
             ELSE IF Cell(Min(hits) + 1) = EOI THEN Ended(Min(hits) + 2 - cand.offset)
             ELSE GoOn(Min(hits), "walk")

JpegScan ==
  /\ phase = "scan"
  /\ IF pos >= Limit \/ BlockLen < 2 \/ pos >= Len(cand.disk) THEN Dropped
     ELSE LET hits == {i \in pos .. pos + BlockLen - 2 :
                         Cell(i) = FF /\ Cell(i + 1) \notin {0, FF, RST}}
          IN IF hits = {} THEN GoOn(pos + BlockLen - 1, "scan")
             ELSE IF Cell(Min(hits) + 1) = EOI THEN Ended(Min(hits) + 2 - cand.offset)
             ELSE GoOn(Min(hits), "walk")

-----------------------------------------------------------------------------
(* PDF, ZIP and formats with a footer: the last mark wins *)

Marks ==
  CASE cand.fmt = "pdf" -> {<<7, 7, 5>>}
    [] cand.fmt = "zip" -> {<<5, 6>>}
    [] cand.fmt = "footer" -> {<<3, 4>>, <<3, 3, 2>>}

Longest == Max({Len(m) : m \in Marks})
CR == 13
LF == 12

IsMark(i, m) == \A k \in DOMAIN m : Cell(i + k - 1) = m[k]

(* PDF: a line end after the mark belongs to the file.  Two cells are read  *)
(* if there is room for them, and at the end of the disk neither is had.    *)
WithLineEnd(end) ==
  IF end + 2 <= Limit /\ Readable(end, 2)
  THEN IF Cell(end) = CR /\ Cell(end + 1) = LF THEN end + 2
       ELSE IF Cell(end) \in {CR, LF} THEN end + 1 ELSE end
  ELSE IF end + 2 > Limit /\ end + 1 <= Limit /\ Readable(end, 1) /\ Cell(end) \in {CR, LF}
  THEN end + 1 ELSE end

(* ZIP: the directory must end before the record, except where its place is *)
(* given elsewhere (zip64); then comes the length of a comment.             *)
Zip64 == Base - 1
ZipEnd(i) ==
  IF ~Readable(i, 4) THEN 0
  ELSE IF Cell(i + 2) > i - cand.offset + 1 /\ Cell(i + 2) # Zip64 THEN 0
  ELSE IF i - cand.offset + 4 + Cell(i + 3) > cand.max THEN 0
  ELSE i - cand.offset + 4 + Cell(i + 3)

EndOf(i, m) ==
  CASE cand.fmt = "pdf" -> WithLineEnd(i + Len(m)) - cand.offset
    [] cand.fmt = "zip" -> ZipEnd(i)
    [] cand.fmt = "footer" -> i + Len(m) - cand.offset

(* One block of detectPDFSize, detectZIPSize, searchFooter; the next one    *)
(* overlaps it by less than a mark.                                         *)
Search ==
  /\ phase = "search"
  /\ LET n == IF pos >= Len(cand.disk) THEN 0 ELSE BlockLen
         least == IF cand.fmt = "footer" THEN 1 ELSE Longest
         found == UNION {{EndOf(i, m) : i \in {i \in pos .. pos + n - Len(m) : IsMark(i, m)}} :
                           m \in {m \in Marks : Len(m) <= n}}
     IN IF pos >= Limit \/ n < least THEN Ended(best)
        ELSE /\ best' = Max(found \cup {best})
             /\ pos' = pos + IF n >= Longest THEN n - Longest + 1 ELSE n
             /\ IF n < AtMost(Limit - pos, Block)
                THEN phase' = "done" /\ size' = best'
                ELSE UNCHANGED <<phase, size>>
             /\ UNCHANGED <<cand, frames>>

-----------------------------------------------------------------------------
(* Formats made of records with their length *)

(* detectPNGSize: length, type, data, check sum.                            *)
IEND == 9
PngChunk ==
  /\ Walking("png")
  /\ IF pos >= Limit \/ ~Readable(pos, 2) \/ pos + 3 + Cell(pos) > Limit THEN Dropped
     ELSE LET next == pos + 3 + Cell(pos)
          IN IF Cell(pos + 1) = IEND THEN Ended(next - cand.offset) ELSE GoOn(next, "walk")

(* detectGIFSize: extensions and images, each with sub-blocks that end with *)
(* an empty one, up to the trailer; an image may have a colour table.       *)
TRAILER == 9
EXTENSION == 2
IMAGE == 3
GifBlock ==
  /\ Walking("gif")
  /\ IF pos >= Limit \/ ~Readable(pos, 1) THEN Dropped
     ELSE IF Cell(pos) = TRAILER THEN Ended(pos + 1 - cand.offset)
     ELSE IF Cell(pos) = EXTENSION THEN GoOn(pos + 2, "sub")
     ELSE IF Cell(pos) = IMAGE /\ pos + 2 <= Limit /\ Readable(pos + 1, 1)
     THEN GoOn(pos + 2 + Cell(pos + 1) + 1, "sub")
     ELSE Dropped

(* skipGIFSubBlocks                                                         *)
GifSubBlock ==
  /\ phase = "sub"
  /\ IF pos >= Limit \/ ~Readable(pos, 1) THEN Dropped
     ELSE GoOn(pos + 1 + Cell(pos), IF Cell(pos) = 0 THEN "walk" ELSE "sub")

(* MP4: boxes.  Length 1 says that the length is in the next cell.          *)
BoxLen(p) == IF Cell(p) = 1 THEN Cell(p + 2) ELSE Cell(p)
ValidType(p) == Cell(p + 1) \in 2 .. Base - 2
BoxReadable(p) == Readable(p, 2) /\ (Cell(p) = 1 => Readable(p, 3))
BoxSound(p) == IF Cell(p) = 1 THEN BoxLen(p) >= 3 ELSE BoxLen(p) >= 2
MOOV == 7

(* readBoxHeader, findTopLevelBox                                           *)
MoovFrom[p \in Nat] ==
  IF p >= Limit \/ ~BoxReadable(p) THEN FALSE
  ELSE IF ~ValidType(p) \/ (Cell(p) # 0 /\ ~BoxSound(p)) THEN FALSE
  ELSE IF Cell(p + 1) = MOOV THEN TRUE
  ELSE IF Cell(p) = 0 \/ BoxLen(p) > Limit - p THEN FALSE
  ELSE MoovFrom[p + BoxLen(p)]

(* samplesInChunk, computeTrackEndByte: a track is [runs, offsets, sizes,   *)
(* even, count]: how many samples a chunk has from which chunk on, where    *)
(* the chunks are, how long the samples are (or all of them, if not 0).     *)
samplesInChunk(chunk, runs) ==
  LET upTo == {i \in DOMAIN runs : \A j \in 1 .. i : runs[j].first <= chunk}
  IN IF upTo = {} THEN 0 ELSE runs[Max(upTo)].samples

Plus(a, b) == a + b

TrackEnd(t) ==
  LET before(c) == FoldFunctionOnSet(Plus, 0, [k \in DOMAIN t.offsets |-> samplesInChunk(k, t.runs)],
                                     1 .. c - 1)
      here(c) == AtMost(samplesInChunk(c, t.runs), t.count - before(c))
      length(c) == IF t.even > 0 THEN here(c) * t.even
                   ELSE FoldFunctionOnSet(Plus, 0, t.sizes,
                                          (before(c) + 1 .. before(c) + here(c)) \cap DOMAIN t.sizes)
      used == {c \in DOMAIN t.offsets : before(c) < t.count /\ samplesInChunk(c, t.runs) > 0}
  IN IF used = {} THEN 0 ELSE Max({t.offsets[c] + length(c) : c \in used})

TracksEnd == Max({TrackEnd(t) : t \in Range(cand.tracks)} \cup {0})

(* detectISOBMFFSizeFromSampleTable: the offsets count from the beginning   *)
(* of the file, and the offset of the file is subtracted all the same.      *)
TableSize ==
  IF ~MoovFrom[cand.offset] \/ TracksEnd <= cand.offset \/ TracksEnd - cand.offset > cand.max
  THEN 0 ELSE TracksEnd - cand.offset

(* detectMP4Size: a box without a length goes to the end.                   *)
Mp4Box ==
  /\ Walking("mp4")
  /\ IF pos = cand.offset /\ TableSize > 0 THEN Ended(TableSize)
     ELSE IF pos < Limit /\ Readable(pos, 2) /\ Cell(pos) = 0 THEN Ended(cand.max)
     ELSE IF \/ pos >= Limit \/ ~BoxReadable(pos)
             \/ ~BoxSound(pos) \/ ~ValidType(pos)
          THEN Ended(pos - cand.offset)
     ELSE IF pos + BoxLen(pos) > Limit
     THEN Ended(IF pos > cand.offset THEN cand.max ELSE 0)
     ELSE GoOn(pos + BoxLen(pos), "walk")

(* detectMP3Size, detectAACSize: frames like the first one.  Too few of     *)
(* them before something else is no file.                                   *)
IsAudio == cand.fmt \in {"mp3", "aac"}
ID3 == 3
TAG == 4
TagLen == 2
Sync == {11, 12}
Frame(p) == Readable(p, 2) /\ Cell(p) \in Sync /\ Cell(p + 1) >= 2

FirstFrame ==
  /\ phase = "walk" /\ IsAudio
  /\ LET first == IF cand.fmt = "mp3" /\ Readable(pos, 2) /\ Cell(pos) = ID3
                  THEN pos + 2 + Cell(pos + 1) ELSE pos
     IN IF first >= Limit \/ ~Frame(first) THEN Dropped
        ELSE /\ pos' = first + Cell(first + 1) /\ best' = Cell(first)
             /\ frames' = 1 /\ phase' = "probe"
             /\ UNCHANGED <<cand, size>>

AudioEnd(p) == Ended(Capped(p - cand.offset))

NextFrame ==
  /\ phase = "probe" /\ IsAudio
  /\ LET like == Frame(pos) /\ Cell(pos) = best
         strict == frames < MinFrames
         unread == ~Readable(pos, 2)
         over == IF strict \/ cand.fmt = "aac" THEN pos + 2 > Limit ELSE pos >= Limit
     IN IF over \/ unread THEN AudioEnd(pos)
        ELSE IF like
        THEN /\ pos' = pos + Cell(pos + 1) /\ frames' = AtMost(frames + 1, MinFrames)
             /\ UNCHANGED <<cand, phase, best, size>>
        ELSE IF strict THEN Dropped
        ELSE AudioEnd(IF cand.fmt = "mp3" /\ Cell(pos) = TAG THEN pos + TagLen ELSE pos)

(* detectMIDISize: a header, then tracks as long as there are any.          *)
MTrk == 6
MidiTrack ==
  /\ Walking("midi")
  /\ IF frames < MaxTracks /\ pos + 2 <= Limit /\ Readable(pos, 2) /\ Cell(pos) = MTrk
     THEN /\ pos' = pos + 2 + Cell(pos + 1) /\ frames' = frames + 1
          /\ UNCHANGED <<cand, phase, best, size>>
     ELSE Ended(IF frames = 0 THEN 0 ELSE Capped(pos - cand.offset))

-----------------------------------------------------------------------------
(* Formats whose header says it: detectRIFFSize, detectDjVuSize,            *)
(* detectEXESize, detectICOSize *)

Entry(k) == cand.offset + 1 + 2 * k  \* of a table that begins with a count

TableEnd ==
  LET count == Cell(cand.offset)
      read == {k \in 0 .. count - 1 : \A j \in 0 .. k : Readable(Entry(j), 2)}
  IN Max({Cell(Entry(k)) + Cell(Entry(k) + 1) : k \in read} \cup {0})

IcoSound ==
  LET count == Cell(cand.offset)
  IN /\ count > 0
     /\ \A k \in 0 .. count - 1 :
          Readable(Entry(k), 2) /\ Cell(Entry(k)) > 0 /\ Cell(Entry(k) + 1) >= 1 + 2 * count

HeaderSize ==
  CASE cand.fmt = "riff" -> IF Cell(pos) = 0 THEN 0 ELSE Capped(Cell(pos) + 1)
    [] cand.fmt = "djvu" ->
         IF Cell(pos) <= 1 \/ Cell(pos) + 1 > cand.max THEN 0
         ELSE Capped(1 + Cell(pos) + ((1 + Cell(pos)) % 2))
    [] cand.fmt = "exe" -> Capped(TableEnd)
    [] cand.fmt = "ico" -> IF IcoSound THEN Capped(TableEnd) ELSE 0

Header ==
  /\ phase = "walk" /\ cand.fmt \in {"riff", "djvu", "exe", "ico"}
  /\ IF ~Readable(pos, 1) THEN Dropped ELSE Ended(HeaderSize)

-----------------------------------------------------------------------------
(* What the signature has checked is behind the walk already.               *)
Signature == CASE cand.fmt = "jpeg" -> 2 [] cand.fmt \in {"png", "midi"} -> 1
               [] cand.fmt = "gif" -> 1 + cand.disk[cand.offset + 1] [] OTHER -> 0

SizeInit ==
  /\ cand \in Candidates
  /\ pos = cand.offset + Signature
  /\ phase = (IF cand.fmt \in {"pdf", "zip", "footer"} THEN "search" ELSE "walk")
  /\ frames = 0 /\ best = 0 /\ size = 0

SizeNext ==
  \/ JpegMarker \/ JpegScan \/ Search \/ PngChunk \/ GifBlock \/ GifSubBlock
  \/ Mp4Box \/ FirstFrame \/ NextFrame \/ MidiTrack \/ Header

SizeSpec == SizeInit /\ [][SizeNext]_sizeVars /\ WF_sizeVars(SizeNext)

-----------------------------------------------------------------------------
(* The sample tables of an MP4 help if the file begins the disk and ends    *)
(* with its data, and do no harm if they end before the offset.             *)
TablesHelp ==
  \/ cand.fmt # "mp4" \/ cand.tracks = <<>>
  \/ cand.offset = 0 /\ TracksEnd = cand.true
  \/ TracksEnd <= cand.offset

(* A PDF whose line end of one cell is the last of the disk: two cells are  *)
(* asked for behind the mark, as there is room for them, and none are had.  *)
EndsWithTheDisk == cand.offset + cand.true = Len(cand.disk)
LineEndIsLost ==
  /\ cand.fmt = "pdf" /\ EndsWithTheDisk /\ cand.true < cand.max
  /\ Last(cand.disk) \in {CR, LF} /\ cand.disk[Len(cand.disk) - 1] # CR

IntactSize == IF LineEndIsLost THEN cand.true - 1 ELSE cand.true

(* The walk comes to an end, the size found is never more than what was     *)
(* allowed, and for an intact file that is not larger than that it is its   *)
(* own, wherever the file lies, wherever the blocks are cut and whatever    *)
(* follows it: but for a PDF at the end of the disk, which loses the one    *)
(* cell of its line end (determineFileSize, detectPDFSize).                 *)
SizeIsTrue ==
  <>(/\ phase = "done"
     /\ size <= cand.max
     /\ 0 < cand.true /\ cand.true <= cand.max /\ TablesHelp => size = IntactSize)
=============================================================================
