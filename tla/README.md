# A TLA+ model of fastgo's DEFLATE

fastgo replaces `compress/flate`, `compress/gzip` and `compress/zlib` of the Go
library. Its decompressor is a state machine that can stop after any bit of the
input and at any byte of the output and goes on from there; its compressors hand
out a bit stream in parts, with blocks that share bytes, over a window whose hash
table keeps positions modulo 2^16. These modules model both sides, check them with
TLC on small instances, and prove with TLAPS, for every size of register, window, buffer and
output, that the decompressor reads the stream and that the compressors send it. Between the two
sides are the headers of blocks: how code lengths are chosen, written, read, and made into lookup
tables. Around both are the formats of gzip and zlib. It is proved, too, that the codes made from
the counts of a block are complete and, unless limited, take as few bits as those of Huffman's
algorithm, that the tables made from a header find what its codes say, and, for files of any
length, that `io.EOF` of a reader means that everything was read.

Paths below are relative to `src/`; `deflate/` stands for
`compress/flate/internal/deflate/`.

## The system

| Component | State | Operations | Talks to |
|---|---|---|---|
| decompressor (`compress/flate/reader.go`, `inflate.go`, `decode.go`, `decode_other.go`) | phase of the block, 64-bit register and its length, header buffer, bytes left in a stored block, overflow of literals and of a match, input slice, history buffer with `readPos`/`writePos`, the error kept, `peekSize`, `eof` | `Read`, `Reset`, and inside them `step`, `decomperss`, `readHeader`, `decodeLiteralBlock`, `decodeHuffmanLargeLoop` | `bufio.Reader` (`Peek`, `Discard`), and through it the caller's reader |
| header and decode tables (`compress/flate/header.go`, `huffcode.go`) | the lengths read so far and their counts, the codes, three lookup tables that keep the memory of earlier blocks | `setupDynamicHeader`: `readLitDistLens`, `setCodes`, `setAndExpandLitLenHuffCode`, `genForDists`, `genForLitLen` | the decompressor's register |
| assembly decoder (`decode_amd64.*`) | none of its own | the middle part of `decodeHuffmanLargeLoop` | the decompressor's fields |
| deflate.Writer (`deflate/writer.go`, `compress/flate/writer.go`) | the level's compressor, the error of `Compress` | `Write`, `Flush`, `Close`, `Reset` | a `LevelCompressor` |
| dynCompressor (`deflate/dynamic.go`, `lz77.go`, `token.go`, `encode_other.go`) | window and `idx`, `processed`, hash table, tokens, histogram, code table, bit buffer, output | `Accumulate`, `Compress`, `Flush`, `Close`, `Reset` | the caller's writer |
| huffmanOnly (`deflate/huffmanonly*.go`) | buffer and its offset, bit buffer, output | the same five | the caller's writer |
| header writer (`deflate/header.go`, `huffcodes.go`) | counts, lengths and codes in one array, changed in place | `prepare`, `prepareAlphabets`, `writeTo`; `reduceCounts`, `expandCodes` | the compressors' `BitBuf` |
| Huffman codes (`compress/flate/internal/huffman`) | one array for counts, parents and depths; the sorted symbols | `LenLimitedCode.Generate`: `quickSortReverse`, `codeLens`, `enforceMaxLen`; `GenerateCode` | the compressors |
| gzip (`compress/gzip`) | header, digest, size, error, multistream flag | `Read`, `Reset`, `Multistream`; `Write`, `Flush`, `Close`, `Reset` | a flate reader or writer |
| zlib (`compress/zlib`) | digest, error, dictionary | the same | a flate reader or writer |
| CPU detection (`internal/cpu`, `check.go`) | a constant level | | which of the Go and assembly versions run |

Everything runs in the caller's goroutine: there are no locks and no channels. What
makes the code hard is that both directions are *resumable*: a call stops wherever
its input or output ends and the next call continues from fields alone. So the
interleavings that matter are those of the caller's calls, of the pieces in which
the underlying reader delivers, of the parts in which output is taken, and of the
failures of either; the hazards listed in `PROJECT.json` are all of that kind.

What makes each component correct:

* decompressor: every bit is consumed once however the input is split; what does not
  fit the output is kept and written once; the window always has what a match may
  refer to; `Read` hands out the plain text and then the one right error; behind a
  complete stream the `bufio.Reader` stands at the first byte that is not the stream's
  (gzip and zlib read their trailer there); `Read` returns; `Reset` forgets.
* compressors: what reaches the underlying writer is, at every moment, a prefix of a
  DEFLATE stream of the data; all of the data after `Flush`; the end after `Close`;
  output is never overrun; the calls return; a failure sticks; `Reset` forgets.
* Huffman codes: complete, cheapest unless limited, no longer than the limit, with no
  index outside the one array that everything is computed in, and the loops end.
* header writer, header reader and tables: what is written is read back; what others have
  written is taken, refused, or asked more of, as RFC 1951 has it, wherever the input ends;
  a table finds what the codes say.
* gzip, zlib: `io.EOF` means that all the data of the members has been read and their
  checksums agree, whatever the layers below have kept of an earlier stream; if they kept
  nothing, a file that nothing has changed reads without error, and what has arrived
  of a file that was cut is handed out before the error; `Read` returns.

## The modules

| Module | Kind | Models |
|---|---|---|
| `DeflateStream` | data | the compressed stream as the decoder sees it: elements at bit positions, what makes a stream well formed, and `Outcome`, the reference result of reading it |
| `PlainReader` | abstract | what `flate.NewReader` promises |
| `Inflate` | detailed | the decompressor |
| `ArithmeticFacts` | proofs | facts about numbers and periodic sequences that the proofs share |
| `InflateProofs` | proofs | positions and types of `Inflate`; where in the stream it stands, which bytes its window and output hold, and that it keeps the promise of `PlainReader` |
| `MCInflate` | model checking | streams for `Inflate` |
| `BitBuf` | operators | `deflate/bitbuf.go` and the empty stored block |
| `RemoteDecoder` | reference | what RFC 1951 makes of the bits sent so far, one bit at a time |
| `RemoteDecoderProofs` | proofs | what it makes of the pieces that a compressor writes, and what `BitBuf` makes of them |
| `PlainWriter` | abstract | what a compressing writer promises |
| `DeflateWriter` | shared | `deflate.Writer`, the underlying writer, and the properties of every compressor |
| `DynCompressor`, `MCDynCompressor` | detailed | levels 1 and 2 |
| `DynCompressorProofs` | proofs | the invariant of `DynCompressor`, and that it implements `PlainWriter` |
| `HuffmanOnly`, `MCHuffmanOnly` | detailed | level HuffmanOnly |
| `HuffmanOnlyProofs` | proofs | the invariant of `HuffmanOnly`, and that it implements `PlainWriter` |
| `Container` | shared | the file between a gzip or zlib writer and its reader, and the compressor and decompressor as their promises |
| `Gzip` | detailed | `gzip.Writer`, `gzip.Reader` |
| `HuffmanCodes` | operators | canonical codes on both sides, and what RFC 1951 says of them |
| `HuffmanTree` | detailed | `compress/flate/internal/huffman`: sorting, pairing, depths, limiting |
| `HuffmanTreeProofs` | proofs | types, indexes, the sorted array, the cost of its lengths, the limiting loop and the codes of `HuffmanTree` |
| `HeaderFormat` | operators | the alphabets of a dynamic header, and what its items mean |
| `HeaderWriter` | operators | `deflate/header.go`, `huffcodes.go` |
| `LookupTables` | operators | `huffcode.go`, `genForDists`; the reference decoder of one symbol at a time |
| `HeaderReader` | detailed | `setupDynamicHeader` of `compress/flate/header.go` |
| `HeaderReaderProofs` | proofs | what `HeaderReader` counts while it reads, and what its tables find |
| `DynamicHeader`, `MCDynamicHeader` | composition | a block's counts made into codes, its header written, read, and tabled; headers of other programs |
| `Containers`, `MCContainers` | detailed | `zlib.Writer` and zlib's reader; both formats composed |
| `ContainersProofs` | proofs | the file that the writers leave, and what the readers make of it |

### The decompressor

A variable of `Inflate` is the field of the same name, with these changes:

* `bits` is not the register's value but the position in the stream of its first bit;
  `input` and `headerBuffer` are their lengths (`inputLen`, `inputNil`,
  `headerBuffered`). That the three hold *consecutive* pieces of the stream is not
  assumed: positions are computed from the register when it has bits and from the
  `bufio.Reader` when it has none, and `Contiguous` says that the two agree.
* `base` is what `Discard` has passed, `got` what the underlying reader has delivered,
  `uerr` the error it has given.
* `pc` and `derr` are where the call is and the error of `decomperss`; `startBits` the
  local `start` of `step`; `want` is `len(b)`.
* `src`, `out`, `ret`, `stale`, `resets` are history: the stream, everything handed
  out since the last `Reset`, the last result, the bytes pending at `Reset`.

| Action | Code |
|---|---|
| `CallRead`, `ReadDeliver`, `ReadError` | the loop of `Read`. The early return of `step` in `phaseFinish` has no action: no state reaches it, since the step that sets the phase returns `io.EOF` (were there one, TLC would report it as a deadlock) |
| `StepInput`, `StepPeek`, `PeekFill`, `PeekReturn` | the input part of `step`: go on with the slice, or `Peek(Size())`, which reads until the buffer is full or the reader ends or fails; then the slide of the window |
| `DecodeDone`, `HeaderShort`, `HeaderRead`, `DecodeLiteralBlock`, `EntryShort`, `EntryBadSymbol`, `EntryLiterals`, `EntryMatch` | one turn of `decomperss`: `readHeader` with its header buffer and rollback, the stored block, and one lookup of the Huffman loop with its loads, its undo on a short input and its overflow |
| `StepTail` | what `step` does behind `decomperss`: overflow into the lookAhead zone, `rOffset`, `Discard`, errors |
| `Reset` | `decompressor.Reset`, with what it leaves alone |

What a bit string *means* is data: an element says how wide it is and what the decoder
makes of it. A header is one element (the parser's inner loads leave between one and
eight bytes in the register; `HeaderRead` chooses), and an entry is what one lookup
finds, up to three literals, or literals and a match.

### The compressors

A `BitBuf` is two bit sequences, the output so far and the register. Bits of block
headers, padding, LEN and NLEN are 0 and 1; the code of a symbol is a field of
its width whose last bit names the symbol. `RemoteDecoder` reads these bits one by
one, so a symbol that is cut in two, a block that starts in the middle of a byte, a
missing end-of-block code or padding that looks like a header come out as a decoder
would see them. Nothing in it comes from the code.

`DeflateWriter` has the caller's calls, the kept error, and `SinkTakes`/`SinkFails`
for the underlying writer: it takes all of the output or fails behind a prefix. The
compressors continue where `pc` says.

| Action of `DynCompressor` | Code |
|---|---|
| `Accumulate` | the slide and the copy of `Accumulate` |
| `GenLiteral`, `GenMatch`, `GenTail`, `Generated` | one token (or run of longest matches) of `lz77.generate`, its return and what `compressBlock` does next |
| `BlockHeader` | histogram to codes, `BFINAL`, the dynamic header |
| `EncodeToken` | one round of `encodeTokens` |
| `BlockTaken`, `CloseEmpty`, `EmptyBlockTaken`, `OutFails` | the `Write` calls of the compressor and their errors |
| `Reset` | `dynCompressor.Reset` |

| Action of `HuffmanOnly` | Code |
|---|---|
| `Accumulate`, `CloseEmpty`, `BlockHeader` | `Accumulate`, and the start of `encodeBlock` |
| `EncodeThree`, `EncodeRest` | the loop by threes of `encodeBytes`, and its tail |
| `BlockTaken`, `EmptyBlockTaken`, `OutFails`, `Reset` | as above |

The matcher is kept whole: positions modulo 2^16, entries never removed, the bytes
compared in words and then by `compare`, the rest of a long match that becomes a
literal. *Which* code lengths the Huffman code chooses is open (every width of the
constants); *whether* a symbol has a code is not: it has one when the histogram counts
it, as in the code, and a symbol without one writes no bits. A block header is one
field.

Code that differs between builds hangs on the variable `build`, which is chosen once: on
amd64 `generate` resolves the last eight bytes in every call, as level 2 does there
(`EagerTail`), and `encodeTokens` starts with a `Sync` (`SyncFirst`).

### The headers of blocks

`HuffmanTree` has the code's arrays and indexes, one action for each turn of each loop: a
`litCount` is compared as one number with the count in its upper half (`Above`), `w` is
the array that holds counts, then parents, then depths, and `todo` the stack of the
recursion of the sort. One copy of its variables stands for the three generators, because
each call clears what it uses.

| Action of `HuffmanTree` | Code |
|---|---|
| `Generate`, `Collect`, `Collected` | the call, and the loop that collects the symbols that occur |
| `StartInsert`, `Sink`, `NextInsert`, `Inserted`, `StartScan`, `Scan`, `Scanned`, `Sorted` | `sort.go` |
| `FirstInner`, `FirstLeaf`, `SecondInner`, `SecondLeaf`, `Paired`, `Deepen`, `Deepened`, `CountInner`, `AssignLeaves` | the three phases of `codeLens` |
| `LengthsFit`, `TooLong`, `MoveLongest`, `AssignLimited` | the rest of `Generate`, with `enforceMaxLen` |

| Action of `HeaderReader` | Code |
|---|---|
| `Arrives`, `ReadNumbers`, `CodeLenCodes` | `setupDynamicHeader` up to the table of code length codes |
| `ReadLength`, `ReadRepeat`, `RefuseRepeat`, `ReadZeros`, `ReadNothing`, `Missing`, `Finish` | one turn of `readLitDistLens`, and what follows the loop |
| `SetDistCodes`, `GenForDists`, `SetLitCodes`, `GenForLitLen` | the codes and the tables |

`DynamicHeader` composes them: `GenDistances`, `GenLiterals` and `PrepareAlphabets` call
the generator as `genHuffCodes` and `writeTo` do, `WriteHeader` sends the header, and
`ForeignHeader` one that some other program has written. A code is the sequence of its
bits in the order of sending; the program reverses a number for that. The pure parts of the
writer and of the tables are operators; a table is a function on bit sequences whose
entries may be of an earlier block.

### The containers

A file is a sequence of units: two for the fixed part of a header (so that it can be cut
in the middle, which gzip tells from an empty file), one for each optional field, for a
dictionary's checksum, for each byte of data, for the end of the DEFLATE stream, for a
checksum and for gzip's size. A checksum is the sequence of bytes it covers, that is, it
has no collisions; a size is a number modulo `SizeMod`. The header checksum that gzip's
Reader can check is written by other programs only: a header with `hcrc` stands for
theirs. `Transmit` takes the file to the reader, whole, cut anywhere, or with one unit
changed.

The compressor is what `PlainWriter` promises: it holds back what it likes until `Flush`
or `Close`. The decompressor is what `PlainReader` promises: data in pieces of its own
choosing, the error with the last of them or behind it. `nested` says what that promise
leaves out: whether it reads through a `bufio.Reader` of its own.

Clients may also do what the promises do not cover, because the layers below keep
something there (findings 1, 2 and 4):

* `level` is the compressor of the Writer. A `Reset` of `"dyn"` leaves any part of what was
  pending among the tokens (`ResetCompressor`), and from then on, or behind an error in the
  data, it is open what the tokens are. A `Flush` of `"huffman"` makes the stream unreadable
  from there (`Flushes`). Both set `sound` to `FALSE`: with it, what the compressor sends may
  have some unit in it, at any place, that the data does not call for: a byte, an end, or
  nothing that can be decoded (`Wrong`). `sound` is `TRUE` again with a new file and a compressor
  that forgets: HuffmanOnly and the library's always do, a `"dyn"` when nothing was pending
  (`Forgets`); one that has kept tokens once counts as keeping some for good.
* The fast decompressor may have decoded more than `Read` has taken, when the last `Read` filled
  its buffer (`filled`). What it has, `Ahead`, is kept by a `Reset` (`stale`), and the next `Read`s
  hand it out first (`ReadStale`), into the new stream's checksum too. `clean` says that a
  `Reset` found nothing.

`EofMeansAll` and `ReadReturns` are for all of these clients. `IntactReads` and `ArrivedIsRead` say
`sound` and `clean` (`intact` is `sound`, closed without error, and unchanged): the code breaks
them for the others, as the runs `dyn_reset_stale`, `huffman_flush` and `inflate_reset_stale` show of the layers
below.

| Action | Code |
|---|---|
| `Write`, `Flush`, `Close`, `RefuseHeader`, `GzipReset` | the methods of `gzip.Writer`, with the header that the first call sends; `RefuseHeader` is that first call when a field cannot be written |
| `ResetGzipReader`, `Multistream` | the methods of `gzip.Reader` (`NewReader` is the first `Reset`) |
| `CallRead`, `ReadStale`, `ReadData`, `GzipRead` | `Read`: one action for each turn of its loop. A turn that meets the end of a stream is one of `TrailerShort`, `TrailerWrong`, `LastMember`, `NextHeader` |
| `ZlibWrite`, `ZlibFlush`, `ZlibClose`, `ZlibReset`, `ResetZlibReader`, `ZlibTrailer`, `ZlibCloseReader` | the same for zlib; the reader's `Read` is `CallRead` and then `ReadStale`, `ReadData` or `ZlibTrailer` |

A call with the error of the `Writer` or `Reader` set returns it and changes nothing: it
has no action. The writers' checksums are updated before the compressor has succeeded or
after; after a failure they are not read, so the model does not tell the two apart.

## The runs

Every run with `CHECK_DEADLOCK FALSE` is one of a writer, whose client stops after
`Close`, after an error, or when it has written everything: the end of the program, not
a deadlock; or one of headers, where a behaviour is one block and ends when its header has
been read. The reader's client can always call again.

| Run | Shows |
|---|---|
| `inflate_streams` | Over complete, faulty and truncated streams, with input in pieces of any size, a reader that may fail, and a `Reset` in the middle of a stream: consecutive bits (`Contiguous`), split headers kept whole (`HeaderKept`), the decoder on its track (`OnTrack`), the window (`WindowIntact`), the overflow zone (`SpillFits`), the position behind the stream (`LeftBehindStream`); every `Read` returns (`ReadReturns`), and who keeps reading gets to an end (`StreamEnds`); and `Inflate` implements `PlainReader` (`PlainReaderSpec`) |
| `inflate_reset_stale` (violated) | bytes of the old stream come first |
| `dyn_compressor` | Both builds of levels 1 and 2 implement `PlainWriter` (`PlainWriterSpec`); window, table and tokens agree (`WindowHolds`, `LooksBackInWindow`, `NothingLost`); tokens have codes (`TokensCoded`), output holds (`OutputFits`), only new data is sent after a `Reset` (`OnlyGivenData`); `Write`, `Flush`, `Close` return (`CallsReturn`) |
| `dyn_reset_stale` (violated) | tokens of the old data are sent in the new stream |
| `dyn_errors` (violated) | an error of `Flush` or `Close` is forgotten |
| `huffman_only` | as long as a stream is not flushed, `HuffmanOnly` implements `PlainWriter`; output holds; `Write` and `Close` return; `Reset` at any time leaves nothing behind |
| `huffman_flush` (violated) | `Flush` makes the stream unreadable |
| `dynamic_header` | Lengths: sorted (`SortsByCount`), paired without leaving the array (`InRange`), the cheapest (`CodeIsCheapest`), limited without losing a code (`LimitKeepsCodes`), a complete canonical code (`MakesCode`), in a call that returns (`Returns`). Headers: counts kept while reading agree with the codes (`CountsMatch`), the answer is the RFC's (`AnswersAsRfc`), the compressor's own headers read back (`ReadsWhatIsWritten`). Tables: what they find is what the codes say (`LookupIsDecode`) |
| `header_overrun` (violated) | a repetition runs out of the table |
| `containers` | gzip and zlib from writer to reader, over files that are whole, cut or changed: `io.EOF` means all the data, also where a compressor or a decompressor kept something at a `Reset` (`EofMeansAll`); where none did, whole files read without error (`IntactReads`) and what arrived is read (`ArrivedIsRead`); every `Read` returns (`ReadReturns`) |
| `gzip_trailer` (violated) | `Read` counts bytes of a short trailer as data |
| `small_buffer` (violated) | a whole file read through a small `bufio.Reader` does not read |

### Bounds, and why they are enough

**Reader.** The register (8 bytes), the code widths and the header's three bits are
those of the code: the arithmetic on them is where mistakes would be. The buffers are
scaled: a history of 4 bytes with a zone of 6, entries of at most 3 literals and matches of at
most 4, a header buffer of 20 bytes and a `bufio.Reader` of 10. So a header of 131 bits
needs two Peeks, the window slides several times, literals and matches straddle the
limit in every way (`Spills`, `SpillLits`, `Dense`, `StoredLong`), and a stream is
longer than the buffer. Reads have 0, 1 or 3 bytes. The underlying reader delivers any
number of bytes each time and fails at any point. The proofs have no bound: they
take any sizes with `SizesOK`. One `Reset` between three streams that differ in every byte
(`ResetAmongFew` keeps the others from being `Reset`). A stream with a distance that is too
far is not among the three: behind a `Reset` the decoder takes it for a near one, the second
half of finding 1, which no run shows (`inflate_reset_stale` shows the first half). For the same reason the mapping to `PlainReader` leaves out the bytes
that were pending at a `Reset`.

**Levels 1 and 2.** A window of 8 with positions modulo 16 keeps the ratio 1 : 2 of
32768 to 65536, the tightest that the code has (the 4 KB window has 1 : 16). Texts of 24 to 44 bytes wrap the positions twice
and slide the window several times; their periods are just inside the window, equal to
it and just behind it, and runs make matches longer than the longest one. Two flushes and one `Reset` for each client. Blocks have
five tokens, so a text has many blocks, and `MaxTokens` is met in the middle of a long
match. Output has 80 bits, so a block needs several parts. A hash table of five slots
collides. The register has 16 bits; `WriteBit` has the same carry as with 64.

**HuffmanOnly.** A buffer of 30 bytes, a text of 64 and one of 33, output of 128 bits: two full
blocks and a rest, or one, several parts each; writes of 0, 11 and 32 bytes end before,
on and behind the border of the buffer.

**Headers.** Codes of up to 5 bits instead of 15, so that seven symbols reach the limit;
counts modulo 64, with a block in which a literal occurs 64 times; an alphabet of 6
literals, the end of the block, four length symbols, the third with an extra bit, and five
distances. A repetition says 3 or 4 lengths, 3 or 4 zeros, 5 or 6 zeros. Code length codes
have up to 3 bits. Tables look up 4 bits and 3, so that there are long codes in each and
entries of three symbols. Blocks: every set of literals that occur with four sets of
matches, and counts that make trees deep enough to be limited. Intervals of more than two
elements are partitioned (`Cutoff`). Foreign headers: every sequence of four items out of
seven, whole or without the last bit, for two pairs of numbers; and numbers, code lengths
and ends that are wrong. Tables are made in empty memory, or in memory full of an entry of
an earlier block.

**Containers.** Two bytes of text in at most two members, so that a member can be empty,
the first, the last, or hold all; `SizeMod` 2 makes the size wrap. Three gzip headers: a
comment with a header checksum, a string too long for the Reader, and a comment that is refused
behind extra data that was written. A dictionary or none in zlib. The compressor is a
dynCompressor or HuffmanOnly; the library's does nothing that HuffmanOnly without a `Flush`
does not. Two `Reset`s of the reader: the first, and one on what follows or on the file's
start, in the middle of a read too. `MaxFaults` 1 is one thing that goes wrong while the file is written (a
failing write at any unit, or a wrong unit at any place of a stream that is not `sound`), and one
on its way: the cut and the change are tried at every unit. Nothing
in the code depends on lengths here, except through these cases. The two violated runs have
one member, three bytes of text and one `Reset`, and `small_buffer` sets `Readers`.

**Counters** that are not the code's: `MaxFails` failures of the underlying writer,
`MaxFaults`, `MaxResets`, `MaxMembers`, the bytes of text `MaxText`, and `MaxFlushes` for each stream. One failure is enough, because the compressors keep no count.
`GoesOn` and `DirtyReset` say whether clients go on behind an error of their Writer,
and whether they `Reset` one that has data pending; the violated runs set them, since
everything behind those points is already known to be broken.

### Fairness

`ReadReturns` assumes weak fairness of the running call and of the underlying reader: the call
is sequential code that runs on, and a reader that is asked answers, with data, EOF or an
error (that it answers `0, nil` for ever is what `bufio.Reader` turns into
`io.ErrNoProgress`). `StreamEnds` adds that the client keeps reading into a buffer
that has room: strong fairness, because calls are enabled only between calls.
`ReadReturns` of the containers assumes weak fairness of the turns of `Read`, each of which
is a call that returns by the promise below it.
`Returns` assumes weak fairness of the loops of `Generate`, which wait for nothing.
`CallsReturn` assumes weak fairness of the compressor's own steps, the answer of the
underlying writer among them. No property assumes that an action is taken where the
code may choose not to.

## What is proved

Every theorem holds for all values of the constants that satisfy the named assumptions. What
an invariant needs of types (`Seq`, `Nat`) or says of something there is no variable for (the
parents that depths were computed from, the positions that tokens spell, the sums and the states of
the reference in `CheapInv`) TLC cannot enumerate; the rest of each invariant TLC has checked on the runs before it was proved.

### The decompressor (`InflateProofs`)

Assumptions:

* `SizesOK`: the register and the widths are natural numbers, the lookAhead zone holds the
  longest match and all but one of the literals of an entry, and the `bufio.Reader` is
  larger than the register (bufio's smallest is 16 bytes);
* `StreamsOK`: the streams are well formed, an entry fits in what a load leaves in the
  register (57 bits; DEFLATE needs 48), only an entry that ends in a match has bits of a
  distance and one for a code that stands for nothing has no literals in front
  (`ElementOK`), nothing starts at a stream's end, the bytes of a stored block follow
  each other, and a match repeats its text (`Repeats`). These say what
  a stream *is*: `plain` is the text that its matches spell out. Faulty and cut
  streams satisfy them as well; a match that reaches too far back repeats nothing.

**Positions.** `PositionCorrect` is `Spec => []PositionInv`. From it follow `TypeCorrect`,
`PositionsContiguous`, `SpillAlwaysFits`, `AsksWhenEmpty` and `HeaderAlwaysKept`.
`Contiguous` is not inductive. It needs to know which calls leave what to each other
(`Control`: the input is nil when `Peek` is called, overflows are empty between steps, a
header buffer is in use only while a header is read, a stored block starts at a whole
byte, more is asked for only with all input used), that the `bufio.Reader` still holds
every byte whose bits are in the register or in the input (`Retained`), and that a
header that was found too short is in the header buffer whole (`HeaderKept`).
`PositionInv` is their conjunction with `TypeOK`. The proof has one lemma per action;
what the decoders have in common (the input of a `step` only gets shorter, `startBits` bounds it) is in
`TurnPosition` and `EntryTurn`, and the arithmetic of rounding to bytes in lemmas of
its own (`WholeBytes`, `ModCancel`, `ShortArith`, `ReadArith` ...).

**Track.** `TrackCorrect` adds `TrackInv`: `OnTrack` (`AlwaysOnTrack`), and what the phases
and errors leave behind, among them that the position is the stream's end once the last
block is done, which gives `LeftBehindStream` (`AlwaysLeftBehind`). Its steps combine the
positions with `WellFormed`.

**Text.** `TextCorrect` adds `TextInv`: how far back the window reaches, that it and both
overflows hold the text of the stream, and that what `Read` has handed out is a prefix of
it (`OutputIsPlain`). A match is right because the window is, and the window because every
match was: the copy with a distance shorter than its length is the lemma `Periodic`.
`WindowAlwaysIntact` follows. Both have the hypothesis `Trusted`: the decompressor has not
been `Reset`, or no match of the stream is too far back. It cannot go: behind a `Reset` such
a match copies bytes of the stream before (finding 1).

**Promise.** `KeepsReaderPromise`: every step of `Inflate` is a step of `PlainReader` or is
not seen by it. A `ReadDeliver` or `ReadError` is the promised `Read`, a `Reset` the promised
`Reset`. That the bytes are right is `TextInv`; that the *end* is right (how many bytes
come, and which error behind them) is `ReaderInv`. `Outcome` says what a stream comes to, a
recursion over the bit positions from behind. Its value at a position is an entry of a table that
depends on later positions only, so the table settles (`TableExists`, `OutcomeAt`),
and an element passes the outcome of the next one on (`PassesOn`). With it the invariant is:
on a sound stream the outcome from the current position is the outcome of the whole
(`OnPath`); each error the decompressor comes to is the one that the stream ends with, with
all bytes in front of it produced (`EndsRight`); the end of file is seen when the source is
used up, not before (`InputEnds`); and an error once returned stays (`ErrorStays`). The hard case
is `EndInput` at the end of file: that nothing is hidden in the register, the header buffer or
the rest of the input which could have made the element whole (`Supply`, `ShortLacks`).
The hypothesis `MatchesInText` is `Trusted` said of the constants: there is no `Reset`, or
no stream reaches too far back; `WindowHoldsText` has the same one.

### HuffmanOnly (`HuffmanOnlyProofs`)

Assumptions: `WriterAssumption` (texts are bytes), and `HuffmanAssumption`: a buffer is not
empty, a header fits the register and leaves room in output, and three codes
fit behind the seven bits that a part may leave (64 bits and 15 of a code in the program).

The invariant looks at the decoder at the other end as if it had been given what waits in
`output` and in the register (`Ahead`): between blocks it then stands behind a block,
inside one behind the last byte that was encoded, and its text is the data taken so far
without what is still in the buffer. So where a part of output is cut, in the middle of a byte or of a symbol,
does not matter, and each piece that is written needs one lemma about `Feed`
(`RemoteDecoderProofs`: a header, a symbol, padding, the empty block). `Feed` is a recursive function; the lemmas
reach it through `FeedRun` and induction on natural numbers, as facts about sets (`InductiveSet`). The results are
`TypeCorrect`, `NothingIsLost`, `OnlyNewDataSeen`, `OutputFitsUnflushed`, and
`KeepsPromise`: every step is a step of `PlainWriter` or is not seen, as long as the
stream was not flushed (finding 4 says why only so long). `OutputNeverOverruns` assumes
`~GoesOn`, clients that stop at an error of `Flush` or `Close`: the `Writer` forgets
such an error (finding 3), and who goes on finds output already full.

### Levels 1 and 2 (`DynCompressorProofs`)

Assumptions: `DynAssumption` and `WidthAssumption`. They bound what the program's sizes have
to satisfy: positions are kept modulo at least twice the window, a word is longer than the
shortest match, updates of the table stay within what was compared, the codes of a token
fit the register, and a header leaves room in output.

`IInv` says of each moment of a call: what is in the window, where in the data it begins and
how much of it stands before `idx` (`WindowInv`: all of the `WindowSize` bytes, unless the
data has fewer); that an entry of the table, taken modulo `PosMod`, is a position of bytes that were
seen or is too far away to pass for one (`TableInv`); that all tokens not sent
have codes (`CodedInv`); and how full output is (`OutputInv`). It gives `TypeCorrect`,
`WindowIsTheData`, `MatchesAreInWindow` and, for clients that stop after an error,
`OutputNeverOverruns`. `EveryTokenCoded` assumes `~DirtyReset`: a `Reset` keeps tokens
whose counts it clears (finding 2), as the run `dyn_reset_stale` shows.

`StreamInv` follows the data through the tokens to the other end. A token stands for bytes
of the text at a position (`Stands`): a literal for one, a match for bytes that are also
`dist` before. Between calls the tokens spell what the matcher has processed since the end of the last
block, and a decoder that had been given all that is written (`Ahead`, as for
`HuffmanOnly`) stands behind that end (`AtRest`); while a block is written, the tokens before `tk`
have brought it as far as they spell (`Inside`), up to the end-of-block token, which is
the last and the only one (`EobLast`). `Between`, `Over`, `Done` and `NotEnded` are the
same for a whole block, for the empty block of `Flush` or `Close`, for a call that is over, and for a
stream that was not closed. The proof needs that the window is the text (from `IInv`), because a match was
compared in the window and is read in the text, and that each token of a block has a code.
`NothingIsLost`, `OnlyGivenDataSeen` and `KeepsPromise` (every step is a step of
`PlainWriter` or is not seen) follow. Their hypothesis `Orderly` is `~GoesOn /\
~DirtyReset`: tokens and output stay where they are behind a failed call (finding 3), and
tokens behind a `Reset` (finding 2), so neither can go.

While proving, one thing in the model turned out to be wrong: the code looks at the number of
tokens only behind each *longest* match of a long run, where the model had looked behind
every piece (`LongCount`). The model follows the code now.

### Huffman codes (`HuffmanTreeProofs`)

Assumptions: `CutoffOK`, `WidthsOK` (`MaxDepth` and the modulus of a count are not 0).
The specification is `TreeSpec`: the variables of `HuffmanTree` and nothing else, with any
call after any other (`TreeCall`), for any histogram and any limit in `1..MaxDepth` that
leaves a code for each symbol that occurs. Those of `DynamicHeader` are such calls, as TLC has seen.

`IInv` is `Types`, `SortInv` and `PhaseInv`. While the array is sorted, it has each symbol that occurs
once, the intervals on the stack are apart, and two elements are in
order or both in one interval (`Placed`); `Scanning` and `Inserting` say how far a
running sort has got, and that the interval it works on is the top of the stack. Counts modulo
`CountMod` decide the order, so a count that wraps to 0 is in it too. `PhaseInv` has one part for each phase of `codeLens`, each a statement about the one array:

* pairing (`PairInv`): leaves and inner nodes that wait are one more than the pairs to come, `leaf + root = 2 * next`
  between pairs; behind `root` are parents, in ascending order and none for more than two (`Linked`);
* depths (`DepthInv`): nodes before `next` are one deeper than their parents, the others still
  hold their parents;
* counting (`LevelInv`): the nodes of a depth are consecutive and two for each inner node of the depth
  before, so neither `avail - used` nor `next` leaves the array.

`TypeCorrect`, `StaysInRange` and `SortedByCount` follow: no loop reads or writes outside its
array, for any histogram, and the array is sorted when it is used.

`LengthsInv` adds what the lengths are worth, as sums of `2^(limit - length)`:

* `LeafInv`, `MeasuredInv`: the leaves that have a depth and the nodes of the current one
  together take all `2^limit` codes (`Taken`). Below the limit a node is worth one at least: with these the sum is
  `2^limit` or more, and without the leaves of the limit and below it is less;
* `RoomInv`: there is a code of the limit for each symbol, which is what `TreeCall` asks;
* `LimitInv`: in `enforceMaxLen` the counts are natural numbers and add up to the symbols, `total` is the
  weighted sum and not below `2^limit`, and `total - lenCounts[limit]` is below it. So
  while the two differ there is a code of the limit to move, and as there are no more symbols than codes of the
  limit, a shorter one to lengthen. A step keeps all of it.

`LimitKeeps` follows. Sums over symbols and over lengths (`MapThenSumSet`) are brought to
one recursive function, `Sigma`, by `SumOf` and `WeightedSum`; that each count changes the
sum by its weight is `CountChange`.

`MakesCodes` says what all of it is for. `DoneInv` keeps what the last step of a call
leaves: lengths in the order of the array (`Finished`), shorter ones first, which take all
`2^limit` codes, but for no symbol and for one alone. Both ways out lead to it: `LengthsFit` from
`MeasuredInv`, `AssignLimited` from `LimitInv`, because it gives each length to as many positions as were
counted for it (`AssignedLengths`, `TimesWeights`). Then

* the sum over positions is Kraft's sum over symbols (`GivenKraft`): whichever symbol
  `MapThenSumSet` takes first, the sum is the same (`AdditiveSum`);
* a symbol that is counted more often stands in front, so its length is no longer (`MoreOften`);
* the codes of `GenerateCode` fit their lengths (`EnoughCodes`), and of two codes the later one is
  larger in the first bit in which they differ (`LaterCode`, from `FirstDifferent`), because
  the first code of a length leaves room for all shorter ones (`LaterFirst`). So none begins with another
  (`CanonicalCodes`, which holds for any lengths that take no more codes than there are).

`Cheapest` says that the array does what Huffman's algorithm does with a set of nodes, of which
it takes the two lightest each time (`HuffmanCost`). The two need not take the same nodes, only
the same weights, as equal ones may change places. `CheapInv` has a part for each phase:

* pairing (`PairCost`): the leaves and inner nodes that wait are paired off, by weight, with the
  nodes of the reference (`Matched`), which has merged as much as the inner nodes of the array
  weigh (`Mirrors`). A lightest node is always the last leaf or the last inner node (`LightestRoot`,
  `LightestLeaf`), because inner nodes get heavier (`Queued`): none weighs more than twice what is
  taken next. The lightest of the reference has the same weight, and without both the others
  are still paired off (`WithoutLightest`). Parents overwrite weights, so the sums of these, `S` of inner nodes and `T`
  of leaves, are kept beside the array, with what they say of each other where the parents of a part
  of the nodes are known (`Balanced`);
* depths and counting (`DepthCost`, `LevelCost`): what the inner nodes weigh, each as often as there
  are nodes above its leaves, is what the leaves cost. It is added up by depth: the inner nodes
  of a depth weigh as much as all nodes of the next one (`LevelBalance`, from `Balanced`), so leaves
  of depth `t` and before cost what the inner nodes above weigh, less what is deeper (`LevelPrice`);
* in the end (`MeasuredCost`) all is paid (`AllPaid`), and `Cost`, which `MapThenSumSet` adds up in any order,
  is the sum from the first place to the last (`CostIsPrice`).

That no code at all is cheaper than Huffman's is his theorem, and is not proved here.

### Headers of blocks (`HeaderReaderProofs`)

Assumptions: `WidthsOK`, `FormatOK`, `BitsOK` (the alphabets, their extra bits, and the widths
of the tables are natural numbers, and the last length has no extra bits), and `ReaderOK`: there are fewer distances,
and fewer literals and lengths, than a count can tell apart (30 and 286 of 65536); no code of a code
length is longer than the index of its table (7 of 10 bits), nor the index of a table longer
than the longest code (10 and 12 of 15 bits); there are fewer distances than literals (30 of 257). The specification is `ReaderSpec`: one call, with any numbers, any lengths of
code length codes and any bits (`AnyHeader`), in memory that holds any entries (`LeftOver`).
Those of `DynamicHeader` are such calls.

`readLitDistLens` counts codes while it reads lengths, because it wants their tables to begin with:
`litCount` by length, `distCount` too, and in `litExpand` how many more there are when each length of a
match has a code for each value of its extra bits, which takes one code away from its own
length and gives `2^extra` to a longer one. The counts are 16 bits wide and go below 0 on their way.

`CountsAreKept` is the invariant. A count is that of *all* places of the table, read or not
(`CountsOK`), which is right because the others hold 0 (`Ahead`): those from `curr` on, and those between
the last announced length and the first distance, which the loop jumps over, one at a time
or in the middle of a repetition (`NextPlaceFacts`). So a length that is put there is one that was not counted before
(`CountPut`, `ExpandPut`), and zeros need not be put at all. It does
not matter that a table entry may be of an earlier block: what it says has some length and
some symbol (`ItemFacts`, `SmallTableType`), and that is all that counting needs.

`CountsAgree` follows. What extra bits add is a sum over symbols (`Beyond`); the numbers of one
length symbol all have a code of the same length or none has (`CodesOfSymbol`), so the sum is how many codes with extra
bits there are (`NumberOfCodes`), and two neighbouring places of `Starts` are that far apart.

`TablesDecode` goes on from there to the tables. Its invariant, beside `CountsAreKept`, is `Tables`: what the codes and
the two tables are at each step, as functions of the lengths and of what earlier blocks left.
The rest is about what a table holds:

* Codes numbered from counts that are right, and do not add up to too many, do not begin with each other
  (`SetCodesNumbered`, `SetCodesOK`), and still do not with the values of extra bits behind
  them (`WithExtraOK`). So bits begin with one code or none (`OnlyFirst`).
* A lookup finds one of three things (`LookedUp`): the own entry of the one code the bits begin with; an entry
  that was written for some bits they begin with, doubled to a longer index or not; or, only if they begin with no code, an
  entry that was there. A short code always has an entry (`ShortIn`), and a long
  one has a link, behind which the part has an entry for it.
* An entry says what the bits behind it say: for one symbol (`SymbolDecodes`), and for
  two or three (`ListedDecodes`), since the bits are split into the codes of its symbols and
  none but the last ends the block. The reference decodes one symbol after the other with
  `FoldLeft`, which is a recursive function here; that it has a value for up to three
  symbols is `ReadingExists`.

### gzip and zlib (`ContainersProofs`)

Assumptions: `SizesOK` (sizes of a `Write` or a `Read` are natural numbers, the modulus of gzip's
size is not 0) and `HeadersOK` (what a header says of its four fields). There is no bound on the
text, on the members, on faults or on resets, and the headers and
dictionaries are any set, as are the compressors (`LevelsOK`). The three theorems have the hypothesis `"small" \notin Readers`, a client
whose `bufio.Reader` has 4096 bytes or more: with a smaller one the decompressor reads ahead into a
buffer of its own, and where the trailer is looked for is open (finding 6, `small_buffer`).

The invariant `ContainersInv` has three parts, none of which a client can see.

* `FileInv`, the file. While it is written (`WriteInv`): from each place where a member may begin (`Bounds`: the
  start, and behind a trailer) the file is a front of a header, data and an end
  (`Layout`), and a member that is whole has the checksum of the text that the client was told it has, the one
  with as many checksums before it. As long as the Writer has no error, the member it is in
  is the last one, and the running checksum is that of what the client has written since the last `Reset`.
  While the compressor is `sound`, that text is the member's data and what the compressor holds back;
  when it is not, there may be any units where the data should be, and the rest stays. A failed call
  leaves a front of what it would have left (`Taken`, `LayoutFront`), so nothing else is
  needed of a failure at any unit. What a reader can rely on is less (`Known`), because one unit of the file
  may change: how long each member is, for its kinds and numbers of units stay; and if the checksum that is
  there is that of the data that is there, both are the writer's (`ChangedKnown`).
* `ReadInv`, the reader. It is between two members, in the data of one, behind an error, or has
  not begun (`Reading`, `Between`, `Within`). Between members it has put out the text of
  exactly those it passed; in a member that, and what `rsum` is the checksum of, old bytes
  included. The end of a stream compares `rsum` with the
  trailer (`EndsAt`): if they agree, `Known` gives the writer's text, which is one
  member more (`PassesMore`). That needs nothing of the data, so `EofMeans` holds for every client. Only
  with `sound` and `clean` (`Exact`) is `rsum` the checksum of the data from the header up to `pos`,
  and what was put out what has arrived. `Remains` says what a `Reset` can find.
* `IntactInv`, for a file that was closed and has not changed, of a `sound` compressor: no error
  but those allowed behind a `clean` `Reset`, and a decompressor with the writer's dictionary. It needs that such a file has each
  member to its end (`WholeMember`), so a header is read or has a string that is too long, the decompressor stops
  at the end of the stream, and the trailer is there and right (`IntactEnd`).

`EofMeans` (all clients), `ArrivedRead` (`sound /\ clean`) and `IntactIsRead` (`intact /\ clean`) follow from `FileInv /\ ReadInv` and, the last, from
`IntactInv`. `ReadHeaderIs` and `ZlibHeaderIs` say what the readers make of a header for any units at all.
`FlattenSeq` and `Arrived` are recursive functions; `Unique` says that two functions with the same
recursion are equal, which gives the one step that each proof needs (`FlattenMore`, `ArrivedMore`).

While proving, `CASE` with guards that overlap turned out to leave open which arm is taken, where the code takes
the first: the readers' headers and the decompressor's error are `IF` chains now.

### Only model-checked

Out of the prover's reach: every liveness property (`ReadReturns` of both readers, `StreamEnds`, `CallsReturn`,
`Returns`), and `AnswersAsRfc` and `ReadsWhatIsWritten` of `DynamicHeader`, which compare with a RECURSIVE
operator (`RfcLengths`).

## Where the code and its documents differ

1. `decompressor.Reset` keeps `readPos` and `writePos` (`reader.go`): what was not read
   of the old stream is the beginning of the new one. For the same reason a distance that
   is too far is compared with an index that counts old bytes (`decode.go`): it copies
   them instead of failing (no run of its own). Through gzip and zlib the old bytes come
   first as well, and the new stream ends in `ErrChecksum` (`clean` is `FALSE` in `Containers`).
2. `dynCompressor.Reset` keeps the tokens (`dynamic.go`). A gzip or zlib file that is written behind
   such a `Reset` does not read: `ErrChecksum`, as a rule (`sound` is `FALSE` in `Containers`).
3. `Flush` and `Close` of `deflate.Writer` do not keep their error (`writer.go`).
4. `huffmanOnlyCompressor.Flush` pads the block to a byte and then writes a stored block
   that starts with its own padding (`huffmanonly.go`).
   With an empty buffer the same `Flush` writes a block header without an end-of-block
   code (no run of its own: the states are those of `huffman_flush` with nothing written).
5. `gzip.Reader.Read` returns the wrong count when the trailer is cut short: an inner `n`
   hides the result (`ungzip.go`). `ArrivedIsRead` is about what is put into `p`, so it
   holds all the same.
6. `flate.NewReader` puts a second buffer around a `bufio.Reader` of less than 4096 bytes
   (`reader.go`), and gzip and zlib look for the trailer in the first.

7. `readLitDistLens` compares a repetition with the end of the table before it skips the
   unused places between the lengths of literals and those of distances (`header.go`). One
   that crosses there and runs past the last announced distance is not refused: it indexes
   behind the slice that ends there, and panics.

Seen and not run:

* `rOffset` adds whole bytes per step and drops the rest (`inflate.go`), so the offset of
  `CorruptInputError` drifts. A `Peek` that fails drops what was buffered (`reader.go`).
* zlib's reader, made for a stream without a dictionary, cannot be `Reset` to one that needs
  it. `Close` of zlib's reader clears `io.EOF`, and a `Read` behind it takes what follows the
  stream for a trailer.
* Entries of the lookup tables that no code reaches keep those of earlier blocks
  (`huffcode.go`), as does the part for long codes when it is longer than what is cleared:
  bits that begin with no code, in an incomplete code, may find an old entry.
  `LookupIsDecode` says what holds all the same.
* When the code of code lengths is incomplete, whether a header is refused or asked more of
  can depend on where the input is cut.
* A block in which 258 is the only length gets a code for symbol 284 that is never used
  (`huffcodes.go`). The sort compares counts as one number only on little-endian machines
  (`sort.go`).

`PROJECT.json` has the run, the line and the quoted text for each.

## What is not modelled

* The assembly (about 9500 lines). It has the contract of the Go functions beside it,
  which are modelled; where it behaves differently in a way a caller can see,
  `build` says so.
* The tables of fixed codes (`inflate_table.go`), which are literal data; of that file the
  model has the extra bits of lengths. `MoffatHuffmanCode.Generate`, which nothing calls.
* Headers and streams in one behaviour: `Inflate` and the compressors take what a header says
  as data, `DynamicHeader` takes blocks as counts. They meet in what an element of a stream
  is, and in which symbols have codes. Where a part for long codes lies in the array that
  holds all of them, and entries of earlier blocks that lead into it, are left out too. So is
  the size of that array: `genForDists` clears `2*(1<<(maxLength-10))` of its entries from where the part
  begins (`header.go:594`), and for an incomplete code of distances whose long parts have 2, 16 and 32
  entries that goes past the 80 entries of `LongCodeLookup`, where the program panics and
  `SmallTable` ends with a table.
* `gzip.Reader.Close`, which changes nothing. gzip's header times, levels and OS byte are data that nothing depends on.
* The standard library: `bufio.Reader` is external and modelled from its use;
  levels other than 1, 2 and HuffmanOnly are `compress/flate` of the library.
* `writer` after `Close`: `Close` of a compressor sets its writer to nil, and a second
  `Close` panics or writes a second end. No document allows such calls.
* The examples and benchmarks.

## Plan

Done: the decompressor, the compressors, the containers, the headers and codes of blocks,
and the proofs that *What is proved* lists. Left:

1. A run in which a zlib reader is Reset between streams with different dictionaries, one
   of `HuffmanOnly` flushed when it is empty, and one of a distance that is too far behind a `Reset`.
2. `Pipe`: a writer, a connection and a reader. Is flushed data delivered while the
   writer stays silent? (`Peek(Size())` waits for a full buffer.)
3. `BitBuf` on numbers instead of sequences.
