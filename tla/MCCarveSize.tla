----------------------------- MODULE MCCarveSize -----------------------------
(* Files for checking CarveSize, of cells below 16 and read four at a time: *)
(* at the beginning of the disk or behind something else, followed by the   *)
(* end of the disk or by what is not of their format, with room or without, *)
(* intact or with one cell overwritten.                                     *)
EXTENDS Naturals, Sequences, SequencesExt, FiniteSetsExt, Functions

Nothing == {<<>>}
UpTo(n, S) == UNION {[1 .. k -> S] : k \in 0 .. n}
Runs(n, S) == {FlattenSeq(s) : s \in UpTo(n, S)}
Ones(n) == [i \in 1 .. n |-> 1]

Joined(A, B) == {a \o b : a \in A, b \in B}
Joined3(A, B, C) == Joined(A, Joined(B, C))

Coded == Runs(2, {<<1>>, <<15, 0>>}) \cup {<<1, 15, 8, 1>>, <<15, 8, 1, 15, 0>>}
JpegFiles ==
  Joined3({<<15, 11, 15, 12, 0, 3, 15>>, <<15, 11, 15, 15, 13, 0, 4, 1, 9, 15, 8, 15, 10, 0, 2>>},
          {<<15, 10, 0, 2>> \o c : c \in Coded} \cup {<<15, 10, 0, 3, 9, 1, 15, 12, 0, 2, 15, 10, 0, 2, 7>>},
          {<<15, 9>>, <<15, 15, 9>>})

Chunk(n) == <<n, 4>> \o Ones(n) \o <<15>>
PngFiles == Joined3({<<10>>}, Runs(2, {Chunk(0), Chunk(2), <<1, 4, 9, 9>>}), {<<0, 9, 7>>})

Sub == {<<0>>, <<1, 9, 0>>, <<2, 0, 3, 1, 9, 0>>}
Extension == Joined({<<2, 0>>, <<2, 9>>}, Sub)
Image == Joined({<<3, 0, 2>>, <<3, 2, 9, 9, 2>>}, Sub)
GifFiles ==
  Joined3({<<0>>, <<2, 9, 9>>}, Nothing \cup Image \cup Joined(Extension, {<<3, 0, 2, 1, 9, 0>>}), {<<9>>})

Box(t, n) == <<n + 2, t>> \o Ones(n)
Wide(t, n) == <<1, t, n + 3>> \o Ones(n)
Mp4Files == Joined3({Box(2, 1)}, Runs(2, {Box(5, 3), Wide(5, 2), Box(7, 2), Box(4, 0)}), {Box(5, 1), Wide(6, 0)})
\* ftyp, moov, mdat with its data from 7 on
Tabled(n) == Box(2, 1) \o Box(7, 0) \o Box(5, n)
Track(runs, offsets, sizes, even, count) ==
  [runs |-> runs, offsets |-> offsets, sizes |-> sizes, even |-> even, count |-> count]
Per(first, samples) == [first |-> first, samples |-> samples]
\* Six cells of data: chunks of two samples, of one, out of order, unused.
Tables ==
  {<<Track(<<Per(1, 2), Per(3, 1)>>, <<7, 9, 11>>, <<1, 1, 1, 1, 2>>, 0, 5)>>,
   <<Track(<<Per(1, 2), Per(2, 1)>>, <<11, 7, 8>>, <<1, 1, 1, 3>>, 0, 4)>>,
   <<Track(<<Per(1, 2)>>, <<7, 11, 12>>, <<>>, 2, 3), Track(<<Per(1, 1)>>, <<7>>, <<2>>, 0, 1)>>,
   <<Track(<<Per(1, 3)>>, <<7, 10, 13>>, <<1, 1, 1, 1, 1, 1>>, 0, 6)>>,
   <<Track(<<Per(2, 1)>>, <<7, 11>>, <<2, 9>>, 0, 1)>>,
   <<Track(<<>>, <<7>>, <<2>>, 0, 1)>>}

AudioFrames(s, n) == FlattenSeq([i \in 1 .. n |-> <<s, 2 + (i % 2)>> \o Ones(i % 2)])
Mp3Files ==
  Joined3({<<>>, <<3, 2, 11, 2>>}, {AudioFrames(s, n) : s \in {11, 12}, n \in 3 .. 5}, {<<>>, <<4, 9>>})
AacFiles == {AudioFrames(s, n) : s \in {11, 12}, n \in 3 .. 5}

MidiFiles == Joined({<<6>>}, Runs(3, {<<6, 0>>, <<6, 2, 6, 0>>, <<6, 1, 9>>}) \ Nothing)

PdfFiles == Joined3(Runs(2, {<<1>>, <<7>>, <<7, 7, 5>>}), {<<7, 7, 5>>}, {<<>>, <<13>>, <<12>>, <<13, 12>>})
ZipFiles ==
  LET body == Runs(2, {<<1>>, <<5>>, <<5, 6, 14, 0>>})
  IN UNION {{b \o <<5, 6, at, n>> \o Ones(n) : at \in {0, Len(b) + 1, 15}, n \in 0 .. 2} : b \in body}
FooterFiles == Joined(Runs(3, {<<1>>, <<3>>, <<3, 4>>}), {<<3, 4>>, <<3, 3, 2>>})

RiffFiles == {<<n>> \o Ones(n) : n \in 1 .. 9}
DjvuFiles == {<<n>> \o Ones(n + ((n + 1) % 2)) : n \in 2 .. 9}
ExeFiles ==
  {<<2, 5, n, m, 3>> \o Ones(pad) :
     <<n, m, pad>> \in {<<2, 7, 5>>, <<4, 5, 4>>, <<0, 9, 7>>}} \cup {<<1, 3, 4>> \o Ones(4)}
IcoFiles == {<<1, 4, 3>> \o Ones(4), <<2, 2, 7, 3, 5>> \o Ones(4), <<2, 3, 5, 2, 8>> \o Ones(5)}

-----------------------------------------------------------------------------
(* What may stand behind a file of a format without being more of it.       *)
After(fmt) ==
  CASE fmt = "pdf" -> {<<>>, <<1>>, <<1, 7, 7>>, <<1, 13, 12, 1, 1, 1>>}
    [] fmt = "mp4" -> {<<>>, <<4, 15, 1, 1>>, <<3, 0>>}
    [] fmt \in {"mp3", "aac"} -> {<<>>, <<13, 3, 1, 1>>, <<1, 1>>}
    [] fmt = "footer" -> {<<>>, <<1, 3, 3>>, <<9, 3, 9, 9, 9, 9>>}
    [] fmt = "zip" -> {<<>>, <<1, 5>>, <<5, 1, 6, 14, 0, 1>>}
    [] OTHER -> {<<>>, <<0, 1>>, <<15, 9, 9, 2, 1>>}

Before == {<<>>, <<15, 9, 3>>}
Rooms == {0, 2, 24}

Candidate(fmt, before, file, after, max, tracks, true) ==
  [fmt |-> fmt, offset |-> Len(before), max |-> max, disk |-> before \o file \o after,
   tracks |-> tracks, true |-> true]

Intact(fmt, files) ==
  {Candidate(fmt, b, f, a, Len(f) + room, <<>>, Len(f)) :
     f \in files, b \in Before, a \in After(fmt), room \in Rooms}

(* Cut short by the end of the disk or by the limit, or one cell changed.   *)
Damaged(fmt, files) ==
  LET some == {f \in files : \A g \in files : Len(g) <= Len(f)}
  IN UNION {{Candidate(fmt, <<15, 9>>, SubSeq(f, 1, k), <<>>, 40, <<>>, 0) : k \in 3 .. Len(f) - 1}
            \cup {Candidate(fmt, <<>>, f, <<1, 1>>, m, <<>>, 0) : m \in 3 .. Len(f) - 1}
            \cup {Candidate(fmt, <<15, 9>>, [f EXCEPT ![k] = v], <<1, 1>>, 40, <<>>, 0) :
                    k \in 1 .. Len(f), v \in {0, 1, 14, 15}} : f \in some}

WithTables ==
  {Candidate("mp4", b, Tabled(6), a, m, t, 13) : b \in Before, a \in After("mp4"), m \in {13, 40}, t \in Tables}
  \cup {Candidate("mp4", <<>>, Box(2, 1) \o Box(4, 0), <<4, 15>>, 40, t, 0) : t \in Tables}

FilesOf(fmt) ==
  CASE fmt = "jpeg" -> JpegFiles [] fmt = "png" -> PngFiles [] fmt = "gif" -> GifFiles
    [] fmt = "mp4" -> Mp4Files [] fmt = "mp3" -> Mp3Files [] fmt = "aac" -> AacFiles
    [] fmt = "midi" -> MidiFiles [] fmt = "pdf" -> PdfFiles [] fmt = "zip" -> ZipFiles
    [] fmt = "footer" -> FooterFiles [] fmt = "riff" -> RiffFiles [] fmt = "djvu" -> DjvuFiles
    [] fmt = "exe" -> ExeFiles [] fmt = "ico" -> IcoFiles

Formats == {"jpeg", "png", "gif", "mp4", "mp3", "aac", "midi", "pdf", "zip", "footer",
            "riff", "djvu", "exe", "ico"}

MCCandidates ==
  {Candidate("riff", <<15>>, <<>>, <<>>, 40, <<>>, 0)} \cup WithTables \cup UNION {Intact(f, FilesOf(f)) \cup Damaged(f, FilesOf(f)) : f \in Formats}
=============================================================================
