----------------------------- MODULE ArtifactRange -----------------------------
(***************************************************************************)
(* Reading an artifact page by page (readArtifactRange and the chunks under  *)
(* it, memory/src/evidence.ts 313-337 and 526-661).  A text is a sequence of *)
(* characters of one to three bytes; a byte is [char, part], and what matters *)
(* of its value is whether it continues a character.  The caller asks for    *)
(* length bytes, and goes on at nextOffset until eof; or searches the         *)
(* artifact for a phrase, chunk by chunk (retrieval/src/artifact-query.ts).    *)
(***************************************************************************)
EXTENDS Integers, Sequences, SequencesExt, FiniteSetsExt

CONSTANTS MaxChars,   \* bound: characters of a text
          ChunkSizes, \* ARTIFACT_CHUNK_BYTES (1 MiB in the code)
          Lengths,    \* page lengths a caller asks for
          Carry       \* characters kept from one chunk for the next (1024 in the code)

VARIABLES text,   \* widths of the characters
          bytes,  \* its bytes
          chunks, \* the chunks it was stored in
          length, \* the page length
          at,     \* where the next page begins
          pages   \* what was returned

vars == <<text, bytes, chunks, length, at, pages>>

Texts == UNION {[1 .. n -> 1 .. 3] : n \in 0 .. MaxChars}
BytesOf(t) == FlattenSeq([c \in DOMAIN t |-> [k \in 1 .. t[c] |-> [char |-> c, part |-> k]]])
Total == Len(bytes)
Continues(b) == b.part > 1
\* Buffer.subarray
Slice(s, from, to) == SubSeq(s, from + 1, to)

\* The chunks writeArtifact stores: all of them full but the last.
CutInto(b, size) ==
    [i \in 1 .. (Len(b) + size - 1) \div size |->
       [byteOffset |-> (i - 1) * size,
        bytes |-> Slice(b, (i - 1) * size, Min({Len(b), i * size}))]]

\* Mutant: every chunk is taken from its beginning.
PieceFromStart(c, offset, end) ==
    IF c.byteOffset + Len(c.bytes) <= offset THEN <<>>
    ELSE Slice(c.bytes, 0, Min({Len(c.bytes), Max({0, end - c.byteOffset})}))
\* #readArtifactRangeBytes: the part of a chunk that lies in the range.
Piece(c, offset, end) ==
    IF c.byteOffset + Len(c.bytes) <= offset \/ c.byteOffset >= end THEN <<>>
    ELSE Slice(c.bytes, Max({0, offset - c.byteOffset}), Min({Len(c.bytes), end - c.byteOffset}))
RangeBytes(offset, len) ==
    LET end == Min({Total, offset + len})
    IN  FlattenSeq([i \in DOMAIN chunks |-> Piece(chunks[i], offset, end)])

\* The first byte of the page that begins a character, and the last position
\* where one ends: the loop looks past end, and the page holds nothing there.
Begin(page) == Min({i \in 0 .. Len(page) : i = Len(page) \/ ~Continues(page[i + 1])})
End(page, len) ==
    LET last == Min({Len(page), len})
    IN  Max({i \in Begin(page) .. last : i = Begin(page) \/ i = Len(page) \/ ~Continues(page[i + 1])})

\* What readArtifactRange returns of the bytes of the range.
Returned(page, from, len) ==
    LET end == End(page, len)
    IN  [content |-> Slice(page, Begin(page), end), offset |-> from + Begin(page),
         nextOffset |-> from + end, eof |-> from + end >= Total]

Init == /\ text \in Texts
        /\ bytes = BytesOf(text)
        /\ \E size \in ChunkSizes : chunks = CutInto(bytes, size)
        /\ length \in Lengths
        /\ at = 0
        /\ pages = <<>>

Done == pages # <<>> /\ Last(pages).eof
NextPage == /\ ~Done
            /\ \E page \in {RangeBytes(at, length)} : \E r \in {Returned(page, at, length)} :
                 /\ pages' = Append(pages, r)
                 /\ at' = r.nextOffset
            /\ UNCHANGED <<text, bytes, chunks, length>>

Spec == Init /\ [][NextPage]_vars /\ WF_vars(NextPage)

-----------------------------------------------------------------------------
\* query reads chunk after chunk as a range, and looks in each with the last
\* characters of the one before it.  A character whose bytes are not all there is
\* decoded as another one, 0.
ReadChunk(i) == LET from == chunks[i].byteOffset
                    len == Len(chunks[i].bytes)
                IN  Returned(RangeBytes(from, len), from, len)
Decode(b) == LET whole(c) == Cardinality({n \in DOMAIN b : b[n].char = c}) = text[c]
             IN  FlattenSeq([n \in DOMAIN b |-> IF whole(b[n].char)
                                                THEN IF b[n].part = 1 THEN <<b[n].char>> ELSE <<>>
                                                ELSE IF n = 1 \/ b[n - 1].char # b[n].char THEN <<0>> ELSE <<>>])
Tail1024(s) == SubSeq(s, Max({1, Len(s) - Carry + 1}), Len(s))
Combined(i) == (IF i = 1 THEN <<>> ELSE Tail1024(Decode(ReadChunk(i - 1).content)))
                   \o Decode(ReadChunk(i).content)
Size(s) == FoldSeq(LAMBDA c, sum : sum + (IF c = 0 THEN 3 ELSE text[c]), 0, s)
\* The byte ranges of the artifact in which query reports the phrase.
Matches(phrase) ==
    UNION {LET all == Combined(i)
               base == ReadChunk(i).offset - (Size(all) - Size(Decode(ReadChunk(i).content)))
           IN  {<<base + Size(SubSeq(all, 1, n - 1)), base + Size(SubSeq(all, 1, n - 1 + Len(phrase)))>> :
                    n \in {m \in 1 .. Len(all) - Len(phrase) + 1 :
                             SubSeq(all, m, m + Len(phrase) - 1) = phrase}} : i \in DOMAIN chunks}

-----------------------------------------------------------------------------
\* The chunks put together are the bytes of the range, whatever the chunk size:
\* none is missing, none is read twice, none of another chunk comes in.
RangeIsExact == RangeBytes(at, length) = Slice(bytes, at, Min({Total, at + length}))

\* A phrase of whole characters is found in an artifact, wherever the chunks were
\* cut, as long as none cuts one of its characters in two, and where it is reported
\* is where it is.
PhraseIsFound ==
    pages = <<>> =>
        \A from, to \in DOMAIN text :
            LET start == FoldSeq(+, 0, SubSeq(text, 1, from - 1))
                end == start + FoldSeq(+, 0, SubSeq(text, from, to))
                spans == {i \in DOMAIN chunks : /\ chunks[i].byteOffset < end
                                               /\ chunks[i].byteOffset + Len(chunks[i].bytes) > start}
                cut == \E i \in DOMAIN chunks : \E b \in {bytes[chunks[i].byteOffset + 1]} :
                           Continues(b) /\ b.char \in from .. to
            IN  from <= to /\ to - from < Carry + 1 /\ Cardinality(spans) <= 2 /\ ~cut
                    => <<start, end>> \in Matches([n \in 1 .. to - from + 1 |-> from + n - 1])

\* docs/architecture.md: a UTF-8-safe byte range.  No page begins or ends
\* inside a character.
PagesAreWholeCharacters ==
    \A p \in Range(pages) : \A b \in Range(p.content) :
        Cardinality({c \in Range(p.content) : c.char = b.char}) = text[b.char]
=============================================================================
