# A verification project for TiffImage

TiffImage decodes TIFF pictures for Android: a Java class, a JNI layer in C++, and a copy of libtiff
4.0.5 that reads either a file or a `java.io.InputStream`. This directory holds TLA+ models of the parts
of it in which order, partial failure and stale state decide whether it is right, the TLC runs that check
them on small instances, and theorems about some of them that hold for every instance.

Paths below are short for: `imagedecode/` = `library/src/main/jni/imagedecode/`,
`libtiff/` = `library/src/main/jni/tiff/libtiff/`.

## 1. Inventory

| Component | State it keeps | Operations | What makes it correct |
|---|---|---|---|
| **Stream adaptor**, `imagedecode/JavaInputStreamAdaptor.cpp` | `fIsAtEnd`; the JNIEnv and two local references it was lent; beyond it, the position, the mark and the pending exception of the Java side | `available`, `read` (a loop of chunks), `skip`, `reset`, `mark` | a buffer filled in chunks has no gap; exceptions are seen by the code written for them; the loop ends |
| **Client procedures**, `imagedecode/TiffInputStream.cpp` | `m_inStream`, `m_streamLength`, `m_tif` | `makeFileStream`, `read`, `seek`, `size`, `close` (and `write`, `map`, `unmap`, which do nothing) | together with the adaptor they are a random access file, made from a stream that only moves forward and a mark |
| **Native image and JNI entry points**, `imagedecode/TiffImage.cpp`, `TiffImage_jni.cpp`, `TiffImage.java` | `mNativeContext` in the Java object; `buffer`, `width`, `height`, `bufferSize`, adaptor and stream in the native one | constructor, `decode(path)`, `decode(stream)`, `release`, `finalize`, getters | no block is used after it is freed or freed twice, none is lost; the pixels returned are those of the picture asked for |
| **Directory chain**, `libtiff/tif_open.c`, `tif_dirread.c`, `tif_dir.c` | current and next directory offset, index, the list of directories seen, the field values | `TIFFClientOpen`, `TIFFReadDirectory`, `TIFFSetDirectory`, `TIFFSetSubDirectory`, `TIFFNumberOfDirectories` | circular chains end; the list is what it claims to be; the index names the directory in memory |
| **Strip and tile reading**, `libtiff/tif_read.c`, `tif_strip.c`, `tif_tile.c` | current strip, next row, raw buffer and its size, the flags that say whose the buffer is; in the codec, the row the decoder stands at | `TIFFReadScanline`, `TIFFReadEncodedStrip`, `TIFFReadEncodedTile`, `TIFFReadRawStrip`, `TIFFReadRawTile` | what is handed over is the row, strip or tile asked for, whatever failed before; the flags are true |
| **RGBA rasteriser**, `libtiff/tif_getimage.c` | none between calls; in a call, the place in the raster, in the buffer and the skews between rows | `TIFFReadRGBAImageOriented`, `TIFFRGBAImageGet`, `TIFFReadRGBAStrip`, `TIFFReadRGBATile` | every pixel lands where the orientation says, nothing else is touched |
| **Codecs** PackBits, LZW and fax, `libtiff/tif_packbits.c`, `tif_lzw.c`, `tif_fax3.c`, `tif_fax3.h` | encoder: the raw buffer, the state of the literal, the code table, the reference line; decoder: the place in the stream, the code table, a string half delivered, the runs of two rows, a pending EOL | encode a strip, decode it in calls of any size | what was encoded is decoded; arbitrary data neither overruns a buffer nor runs for ever; a damaged fax row spoils no row it need not |
| Other codecs, `libtiff/tif_predict.c`, `tif_zip.c`, ... | tables of their own | the same | the same |
| File descriptor procedures, `libtiff/tif_unix.c` | the kernel's file position | `read`, `write`, `seek`, `close`, `size`, `map` | the same random access file |
| Sample application, `MainActivity.java` | none between clicks | one handler per button | every object is released |
| Not part of the decoder: `tiffstream.cpp` (compiled, never used), libtiff's writers and tools, libjpeg, `code_backups/`, `cmake_tiff_4.0.5/` | | | |

How they interact: Java calls down through JNI on the caller's thread; the native decode calls libtiff;
libtiff calls back through the procedure pointers given to `TIFFClientOpen`; those call Java's stream
through the JNIEnv of the running call. Closing goes the same way down (`~TiffImage`, `~TiffInputStream`,
`TIFFClose`, close procedure). The only concurrency is that of Java: application threads, each with its
own objects, and the finalizer thread; what they share is the native heap.

What is hard: a forward-only stream made to look seekable, whose calls may answer vaguely or throw between
any two steps; native memory whose only owner is a number in a Java field, on two threads and across
the reuse of addresses; a linked list in an untrusted file; calls that fail half way with state
already changed, on a handle that remembers what it has loaded; and arithmetic of offsets, skews, widths and
lengths that is right only if several pieces of it agree. `PROJECT.json` lists each such hazard at its line, with the properties that would catch it.

## 2. The modules

| Module | Models | Kind |
|---|---|---|
| `RandomAccessFile` | what libtiff takes for granted of the client procedures | abstract specification |
| `JavaInputStream` | the contract of `java.io.InputStream` | external: operators giving the results each call may have |
| `TiffInputStream` | client procedures and adaptor, every call into Java a step; extends `JavaInputStream`, refines `RandomAccessFile` | specification |
| `TiffInputStream_proofs` | | proofs |
| `TiffImage` | Java objects, the JNI entry points, the native heap, workers | specification |
| `TiffImage_proofs` | | proofs; the last part is about objects that decode once |
| `TiffDirectory` | the directory chain of one handle | specification |
| `TiffDirectory_proofs` | | proofs |
| `StripReader` | the raw buffer and the current strip of one handle | specification |
| `StripReader_proofs` | | proofs |
| `RgbaRaster` | how an image is laid out in a raster, one call at a time | specification |
| `RgbaRaster_proofs` | | proofs |
| `Codec` | what the codecs share: the strip, the stream, the client's calls | extended by the next three |
| `PackBits`, `Lzw`, `Fax3` | one codec (the last: four fax schemes) each, encoder and decoder | parts of a specification |
| `Codecs` | a directory names one of them; what all promise | specification, composes them |
| `Fax3_proofs`, `Codecs_proofs`, `RoundTrip_proofs` | | proofs, each extending the one before: of the fax schemes; of tables and buffers; that what was encoded is decoded |
| `MCCodecs` | the code table of the instance that is checked | MC module |

All other constants take their values from the `.cfg` file, as model values, small sets or flags; only a tuple needs an MC module.
The operators that say `mutant` in their comment are not part of the model: each is a plausible error, and exchanging it for the
definition below it makes the property named in `PROJECT.json` fail.

The models meet at these seams. `TiffInputStream` implements the file (`RandomAccessFile`) that `TiffDirectory` and `StripReader` read;
`StripReader!ReadDirectory` is a successful `TIFFReadDirectory`, all of whose outcomes are in `TiffDirectory`; `StripReader`
reduces a decoder to the row it stands at, `Codecs` says what such a decoder does with the bytes; `RgbaRaster!ReadChunk` is a call
of `TIFFReadEncodedStrip` or `TIFFReadTile`, which `StripReader!StripAsAsked` justifies; `TiffImage!ReadRGBA` is one run of `RgbaRaster`.

### TiffInputStream

`pc` is the Java call that comes next; between two requests of libtiff it is `"idle"`. `req`, `ans` and
`fpos` are libtiff's side: what it asked, what it was answered, and the position it may now believe in
(`NoPos` after a short read or a failed seek, because `ReadOK`/`SeekOK` then fail and libtiff seeks before
it reads again). The byte at offset *i* is written *i*, so data out of place is visible.

| Code | Actions |
|---|---|
| `makeFileStream` | `MakeFileStream` (measures with `available()`), `Mark` (for twice the length, passed as a Java `int`: `MarkLimit`, `ToJint`) |
| `read` and `doRead` | `Read` (cuts the request to `available()`), `Chunk` once per `InputStream.read` with the cases delivered / end / exception, `Trailing` (the last `available()`) |
| `seek`, `seekInt`, `reset`, `doSkip` | `SeekInt` (narrows the offset to `unsigned int`), `Reset`, `Skip`, `SkipAvailable`, `SkipCheck` |
| `size`, `close` | `Size`, `Close` |

Left out: `fBytesRead`, which nothing reads; logging; the exception test after `GetByteArrayRegion`, which cannot
throw because `read()` returned at most the array's length. The tests for a NULL stream are in the model
but libtiff never calls after `close`, and neither does the model's client. `long` and `size_t` are taken to be wide enough for
a length and an offset; only the two conversions the code makes to 32 bits are modelled. `JavaReset` forgets the
pending exception at once, as the code does by `ExceptionDescribe`/`ExceptionClear`.

### TiffImage

The heap is a function from addresses to the kind of block there; the fields of each kind of block are functions on
addresses, so a pointer to a freed and reused block leads to somebody else's fields. A freed block's fields keep
their contents until the block is reused; `MemorySafe` says that nobody looks. A worker
(`pc`, `thiz`, `image`, `given`, `tif`, `file` are its locals) goes one allocation, free or field access at
a time.

| Code | Actions |
|---|---|
| `new TiffImage()`, `nativeSetupJNI` | `Construct`, `NewTiffImage`, `NewFails` |
| `setTiffImage` (also the end of setup) | `ReadOld`, `FreeBuffer`, `DeleteAdaptor`, `CloseTiff`, `FreeStream`, `DeleteImage`, `Store` |
| `release`, dropping the last reference, `finalize` | `Release`, `Forget`, `Finalize` |
| `decode(path)` | `Decode`, `TIFFOpen` or `OpenFails`, `Malloc`, `ReadRGBA` or `ReadRGBAFails`, `Decoded` (closes the handle), `Copy` |
| `decode(stream)` | `Decode`, `NewAdaptor`, `NewStream`, `MakeFileStream` (succeeds or fails), then as above without the close |

A thread uses only the objects it created, as the README of the library shows its use. `NewFails` is the branch
the code has for a NULL from `new`; for the adaptor and the stream the code has none, and neither has the model.
`getImageInfo` opens and closes a handle within one call and touches no object; the getters only read. The conversion of the pixels from ABGR to ARGB is
left out; a buffer is told apart by the picture it holds.

### TiffDirectory

The file is the header's link, a link from every offset to the next, and what is found at each offset: a
directory that is accepted (`good`), one whose fields are refused (`bad`), one with an impossible number of entries (`odd`), one
whose link lies beyond the end of the file (`cut`), or nothing readable. `TIFFReadDirectory` is three steps: `ReadDirectory`
(with `TIFFCheckDirOffset`: `Refuse`, `Accept`, `NoRoom`), `FetchDirectory` (`TIFFFetchDirectory`: `Fetched`, `FetchFails`,
`FetchFailsLate`) and `Fields`. `TIFFSetDirectory` walks with `AdvanceDirectory` and goes on, in `SetDirectory`, to a
reading; `TIFFNumberOfDirectories` is one step per link. `MaxDirs` stands for 65535, the largest `uint16`, and `MayRunOut` for an
allocation that fails.

A cell of `tif_dirlist` that was allocated and never written holds `None`, and the search may answer either way when it meets one (`MayRefuse`):
in the code it holds whatever was there. A count above the size makes the search read beyond the list; that is represented the same way. Left out: writing, the parsing of single fields, I/O errors
that come and go, the difference between classic and BigTIFF headers (the counts the latter refuses are `odd` or `unreadable`).

### StripReader

The bytes in the raw buffer are told apart by the strip or tile they belong to (`content`), the rows handed over by `got`. The position of the
decoder (`at`) is kept beside `tif_row`, which is what the code believes of it; `doubt` remembers why the two may differ: a read has torn the buffer, a strip call
has moved the decoder, it has failed, or was never prepared. A directory gives each chunk a byte count, possibly none, says which chunks lie beyond the end of the file, whether
the codec can skip rows and whether bits are to be reversed.

| Code | Actions |
|---|---|
| `TIFFReadScanline`, `TIFFSeek` | `ReadScanline` (range checks, which strip, whether to load it), `Seek` (back to the start of the strip, or forward), `Decode` |
| `TIFFReadEncodedStrip`, `TIFFReadEncodedTile` (and `TIFFReadTile`) | `ReadEncodedStrip`, `ReadEncodedTile`, `Decode` |
| `TIFFReadRawStrip`, `TIFFReadRawTile` | `ReadRaw` |
| `TIFFFillStrip`, `TIFFFillTile`, `TIFFReadBufferSetup` | `Fill`: `NoBytes`, `MapChunk` (the buffer points into the mapped file), `OwnBuffer` (`NotMine`, `BufferSetup`) |
| `TIFFReadRawStrip1`, `TIFFReadRawTile1` | `ReadRawData`: all, nothing, or a part |
| `TIFFStartStrip`, `TIFFStartTile` | `Start`: `SetupFails`, `Prepared`, `PredecodeFails` |
| `TIFFReadDirectory`, when it succeeds | `FreeDirectory`, `ReadDirectory` |

Left out: a buffer of the client's own, codecs that set `TIFF_NOREADRAW`, `TIFFFillStripPartial` (compiled only with `CHUNKY_STRIP_READ_SUPPORT`, which this
build does not define), and a `TIFFReadDirectory` that fails half way.

### RgbaRaster

What a cell of the raster holds is the pixel that was put there, so a pixel out of place is visible; bytes read from beside the chunk are `Junk`. The four routines of the code are
one here: the strip routines are the tile routines with one strip in a row, but for the skews, the number of rows they ask for and what they leave when a read fails;
`separate` changes the step from one sample to the next and how many chunks have to be read.

| Code | Actions |
|---|---|
| `TIFFReadRGBAImageOriented`, `TIFFReadRGBAStrip`, `TIFFReadRGBATile`, `TIFFRGBAImageGet` | the request in `img`, the window `w`, `h` and the first cell `base` in `Init` |
| `setorientation` | `Flips`, a table; as in the code, an image stored by columns (orientations 5 to 8) is treated as the one stored by rows from the same corner (`Corner`), so that `InPlace` does not say it is transposed |
| the routine before its loop, the outer loop | `Begin`, `BeginRow`, `NextRow` |
| the inner loop | `ReadChunk` (decoded, or failed), `Put` (with the clipping of the last tile) |
| the horizontal flip, the fix-up of an edge tile | `Mirror`, `FixLine` once per line |

Left out: colours, samples of other sizes, sub-sampled YCbCr, allocations that fail. Windows that start within the image are combined with separate planes only when they start at column 0:
the code multiplies the offset by the samples of a pixel there, and no function of the library makes such a window.

### Codecs

`pc` goes from encoding to decoding one strip; a strip of another program (`foreign`) begins at the decoding. The client asks for the next bytes of the strip in calls of any of the sizes allowed, and
goes on after a call that failed, as a client that reads scanlines does.

`PackBits` keeps the bytes of the buffer. One action is one trip through `again:`; the limits 126, 127 and 128 are `Limit` - 2, `Limit` - 1 and `Limit`.

| Code | Actions |
|---|---|
| `PackBitsEncodeChunk`, `PackBitsEncode` | `StartRow`, `FindRun`, `Flush` (the literal that may grow is kept), `PutRun`, `StartLiteral`, `ExtendLiteral`, `MergeLiterals` |
| `PackBitsPostEncode` and the flush behind it | `PackBitsPostEncode` |
| `PackBitsDecode` | `Skip` (no operation), `Repeat`, `Copy`, `PackBitsReturn` |

`Lzw` has the real widths 9 to 12 over a table of a few entries: `MAXCODE(n)` comes from a table. A code in the stream remembers the width it was written at, and read at another width it may be any code, which is what
bits out of step amount to. What another program wrote is chosen when it is first read. The hash table is a function; the two probes for a place in it are left out.

| Code | Actions |
|---|---|
| `LZWPreEncode`, `LZWEncode` | `FirstByte`, `KnownString`, `NewString` (put the code; table full, code widened, ratio tested, or none of these) |
| `LZWPostEncode` | `LZWPostEncode` |
| `LZWPreDecode` | `LZWPreDecode` |
| `LZWDecode` | `Resume` (the rest of a string), `Start` (load the local variables), `NextCode`, `Clear`, `EndOfInformation`, `FirstString`, `CorruptedTable`, `Literal`, `UnknownString`, `WholeString`, `StringTooLong`, `Satisfied` |

`loc` holds the local variables of `LZWDecode` and `sp` what the handle keeps of them: an error return leaves `sp` behind, while the table and the count of bits are the handle's own and stay changed.
Left out: `LZWDecodeCompat` for old bit-reversed files, failing allocations, and a failing flush (which `LZWEncode` does not look at and `PackBitsEncode` does).

`Fax3` has the schemes `rle` (Modified Huffman), `g3`, `g32d` and `g4`. The stream is a sequence of codes; 64 and 2560, the make-up codes, are `MakeUp` and `LongMakeUp`. An action of the decoder reads one code, or does what is done
between two rows. `dec3` is what the handle keeps between calls (`EOLcnt`, `line`, `curruns`, `refruns`), `at` the local variables of the row. A part of the stream may be `damaged`: its codes may come out as any code of the table they
are looked up in, and any place in it may look like an EOL; or the stream is cut off, perhaps within a code.

| Code | Actions |
|---|---|
| `Fax3PutEOL`, `Fax3Encode1DRow`, `putspan` | `StartLine`, `Encode1DRow` (one span) |
| `Fax3Encode2DRow`; the end of `Fax3Encode`, `Fax4Encode` | `PassMode`, `VerticalMode`, `HorizontalMode`; `NextTag` at the end of a row |
| `Fax3PostEncode`, `Fax4PostEncode` | `FaxPostEncode` |
| `Fax3DecodeRLE`, `Fax3Decode1D`, `Fax3Decode2D`, `Fax4Decode` | `FaxAsk`, `BeginRow`, `FillRow` (the row is done), `FillLastRow` (the labels `EOF...`), `FaxReturn` |
| `SYNC_EOL` | `Sync`, `SyncFails` |
| `EXPAND1D` | `Span1D` |
| `EXPAND2D` | `Code2D`, `SpanHoriz` (the two runs of horizontal mode) |
| `eof1d`, `eof2d` | `DataEnd` |
| `CLEANUP_RUNS` | `CleanUp` |
| `_TIFFFax3fillruns` | `FillRuns`, `Pixels`, within `FillRow` and `FillLastRow` |

The model shows two things that a reader of the code may miss. An EOL met within horizontal mode ends the row but is not remembered (tif_fax3.h:412-413), so that with two dimensions the row that follows is skipped; `NoRowSkipped` is stated for
one dimension. And a Group 4 strip that ends early returns success unless it does so in the first row (tif_fax3.c:1422), with the rest of the client's buffer as it was.
Left out: the bits of the codes and the alignment of rows and EOLs, requests for part of a row (refused before anything is done), what follows the end-of-block code of Group 4 (after it, or a damaged code that looks like it, the stream counts as
read), the six EOLs that closing a Group 3 file appends, and the size of the run array: `SETVALUE` does not check it, and horizontal mode with two empty runs does not move `a0`, so nothing here bounds the number of runs of a damaged row, and `InBuffers` is not about it. A code that is read with another table than its own, after a damaged one, has no meaning (bound).

## 3. The runs

"States" are distinct states.

| Run | Bounds | States | What it shows |
|---|---|---|---|
| `stream_contract` | stream of 4 bytes, lent array of 2, requests up to 3, offsets up to 5; `available()` any value up to the truth, pieces of any size, `read` and `available` may throw | 4321 | `PositionAgrees`, `BufferIsTrue`; the procedures refine `RandomAccessFile` (`IsRandomAccessFile`) |
| `stream_exact` | 5 bytes, array of 2, requests up to 5; exact `available()`, a mark that expires | 949 | every rewind finds its mark (`RewindWithinMark`), every satisfiable read is satisfied in full (`CompleteReads`), every request is answered (`RequestsAnswered`) |
| `image_once` | two objects, one thread and the finalizer, ten addresses handed out lowest first, one decode per object | 190 thousand | `MemorySafe`, `NothingOrphaned` |
| `image_twice` | one object, two decodes of either of two pictures by either way | 1922 | the second decode never works with the first one's references (`JavaEnvCurrent`) nor returns its picture (`ReturnsWhatWasAsked`) |
| `directory_calls` | all files with two directory places, five kinds, `MaxDirs` 3; any sequence of calls | 71 thousand | `ListIsHistory`, `CurrentIsIndex`, `CountsTheChain`, `CallsReturn` |
| `directory_scan` | all files with two places whose directories are good or cut off; any sequence of calls with sub-directories; allocations may fail | 994 thousand | no directory is read twice before the client starts over (`NoDirectoryTwice`); a client that scans from some point on comes to an end (`ScanEnds`) |
| `strip_read` | two planes of one strip of two rows, or two tiles; byte counts 0, 1 and 3, buffers in units of 2; everything may fail | 1.26 million | `RowAsAsked`, `StripAsAsked`, `BufferKept`, `DecodesInBuffer` |
| `raster` | images up to 3 by 3, tiles 2 by 2, strips of 2 rows, all four corners and one transposed orientation, every window, one chunk that may fail | 217 thousand | `InPlace`, `RestUntouched`, `EdgeTiles`, `ToldOfFailures`, `Finishes` |
| `codecs` | two byte values; PackBits: strips of 10 bytes in rows of 6, `Limit` 4, raw buffer of 8, foreign strips of up to 3 bytes decoded to 10; LZW: strips of 10 bytes, a table of 11 codes, foreign strips of 77 bits, requests of 2, 5 and 10; fax: rows of 6, `MakeUp` 2, `LongMakeUp` 4, with Group 4 every pair of rows of which the first begins white, with every scheme strips of three rows (the third is the first again) out of two, whole, with one damaged code or cut off | 0.70 million | `RoundTrip`, `InBuffers`, `ReadAsWritten`, `NoLoopInTable`, `FillsTheRow`, `RowsRight`, `NoRowSkipped`, `CallsReturn` |

Why the bounds are enough. Streams: 4 bytes read through an array of 2 make every request one, two or more
chunks, end inside or on a chunk, and reach beyond the end; offsets go past the end, up to the last that `Word` holds. Images: ten addresses are the five blocks of
each of two objects that are full at once; handing out the lowest free address makes reuse as frequent as it can be. Directories: with two places there
are chains that end, loop on themselves, loop over both and have both open and closed parts; `MaxDirs` 3 lets the limit, the growth 1-2-3 of the
list and the wrap of the index occur. Strips: two chunks are the current one and another, in either organisation; one row before and one after another make every seek of `TIFFSeek`; the counts make a buffer
that fits, one that has to grow, and none. Raster: 3 by 3 in chunks of 2 has inner, right, lower and corner chunks, and a window may begin and end in any of them. Codecs: a raw buffer of 8 is flushed within a literal, within a run and
between rows, and a literal passes its limit; the LZW table is filled, cleared and widened to the last width within ten bytes, and 77 bits are eight codes of another program, enough for a cleared table, an error and a call after it. A fax row of 6 has every mode, make-up codes of both lengths and spans with and without them; three rows are one that is damaged, the next, whose reference line it is, and one that `g32d` codes with one dimension again.

### Runs that find a disagreement

| Run | What the code does | What is said of it |
|---|---|---|
| `skip_throws` | `doSkip` calls `available()`, which clears the exception of `skip()`, before it tests for it | its own handler, "skip threw an exception", `JavaInputStreamAdaptor.cpp:178-183` |
| `image_leak` | a second decode of one object overwrites the three pointers of the first; `release()` cannot free those blocks | "tiffImage.release();//释放资源", `README.md:22` |
| `strip_mixed` | `TIFFReadEncodedStrip` moves the decoder and not `tif_row`; `TIFFReadScanline` of the strip's first row then returns a later one, with success | "Read the data for the specified row", `tiff/man/TIFFReadScanline.3tiff:36` |

Other configurations of the same modules show more, which have no run of their own. Most are outside what the repository says of itself, and outside `Reliable`, under which the theorems about the stream hold; the hazards they belong to are listed without a property.

- `StreamContract.cfg` with `Word` = 4 (for 2^32): an offset beyond `unsigned int` is answered as reached and the stream stands at the offset modulo 2^32 (`PositionAgrees`); the
  seek procedure should work "a la lseek(2)", `tiff/man/TIFFOpen.3tiff:119-121`. The run itself has `Word` = 6 and goes up to the last offset that fits.
- `StreamExact.cfg` with `Word` = 20: twice the length wraps to a negative limit, and the first rewind finds the mark gone (`RewindWithinMark`). The run has `Word` = 22: its stream is the longest whose doubled length does not wrap.
- `StreamExact.cfg` with `ExactAvailable` = FALSE: a stream that underestimates itself gets a mark that expires before the file is read (`RewindWithinMark`). When marks do not expire an estimated length does no harm to positions: `StreamContract.cfg` has one.
- `StreamContract.cfg` with `FullSkip` = FALSE or `MarkSupported` = FALSE: a skip that stops early, or a `reset` that throws, is not noticed, and the offset asked for is answered (`PositionAgrees`).
- `StreamContract.cfg` with `Origins` = {"end"}: `seek` from the end subtracts the offset from the length and answers the offset, which no reader in libtiff exercises.
- `TiffDirectory` with `MayRunOut`: `TIFFCheckDirOffset` counts an entry before there is room for it and gives up, leaving the count beyond the list (`ListIsHistory`; "a list of already seen directories", `tif_dirread.c:4370`).
- `TiffDirectory` with `SubDirectories`: after `TIFFSetSubDirectory` the index is the old one plus one (`CurrentIsIndex`; "the index of the current directory", `tiff/man/TIFFquery.3tiff:75-78`).

## 4. Fairness

- `TiffInputStream!FairSpec`: weak fairness of `Open` and `Handle`. The thread inside a client procedure runs on; a call
  into Java that blocks for ever is outside the model. Nothing is assumed of the client (it need not ask again), nor
  of the stream beyond its contract (one byte at least, end, or exception).
- `TiffDirectory!FairSpec`: weak fairness of `Step`: a call under way continues. It is not assumed that the client makes another call. `ScanEnds` speaks of
  the clients that go on calling `TIFFReadDirectory`: that they do is its hypothesis, not an assumption of the specification.
- `RgbaRaster!Spec`: weak fairness of `Next`; `Codecs!Spec`: weak fairness of `Decode`. The thread within one call runs on; a client need not make another call.
- `TiffImage` has no liveness property: Java does not promise that `finalize()` ever runs. `StripReader` has none either: its calls are a fixed sequence of steps but for one step back, in `Seek`.

The runs say `CHECK_DEADLOCK FALSE` because each system may stop: a closed file, objects all finalized, a file that could not be opened, a raster or a strip that is complete.

## 5. What is proved

All theorems are of the specification's full state space, for every value of the constants their `ASSUME`s allow
(`StreamAssumption`, `ClientAssumption`, `LifeAssumption`, `DirectoryAssumption`, `StripAssumption`, `RasterAssumption`, `CodecAssumption`, `PackBitsAssumption`, `LzwAssumption`,
`FaxAssumption`, `CodecsAssumption`). A theorem that needs more says so in its statement: `Reliable`, `Exact`, `NoWrap`, `FewDirectories`, `~MayRunOut`, `MaxDecodes <= 1`.

**Stream.** `TypeCorrect` holds on any stream. The others assume `Reliable`: `skip` does not stop early or throw, marks are
supported, and either marks do not expire or the length measured at the start was right and twice that fits an `int`; the client seeks from the beginning with offsets an
`unsigned int` holds. Outside that they are false, as the violation runs show: `Reliable` is the set of streams the code is right for.

- `TInv` is `TypeOK` and `CallInv`: which request is outstanding at which step, and that bytes read and bytes still wanted together
  fit the request. `TypeOK` alone is not inductive, since nothing in it stops a chunk from overrunning the buffer.
- `PInv` adds where the stream stands at each step: where libtiff believes at rest (`AtRest`), that far plus the bytes read while reading (`Reading`),
  at 0 after `reset` (`Seeking`), and that the mark's limit is twice the true length (`MarkLasts`). `PositionCorrect`, `BufferCorrect` and `MarkCorrect` are its consequences.
- `ReadsAreComplete` adds `Exact` (`available()` is the true count and does not throw; `read` may): what has been read and what is wanted make up the request (`Complete`), so that the end of the stream cannot come first.
- `Refinement` maps steps: the last step of an operation answers the abstract request, every other is a stutter; `PInv` supplies that the data answered are the file's bytes.

**Native memory.** `ImageTypes`, `AlwaysMemorySafe`, `EnvAlwaysCurrent` and `PicturesAsAsked` hold for any number of Java objects, threads and decodes of one
object, with an allocator that may return any free address; the runs have two objects or two decodes. They need nothing but `LifeAssumption` (the finalizer is a thread of its own). The invariant `IInv` follows the pointers:

- `CallInv`: a Java object has at most one call under way, its thread's or, when it is unreachable, the finalizer's (`OneWorker`). This is where it is used that an object belongs to one thread.
- `RootInv`, `GivenInv`: the native objects of two Java objects are two blocks. A context is `Live` until its block is freed: between `DeleteImage` and `Store` the
  field `mNativeContext` still names a block that may by then be another object's, and only the call that is about to overwrite it knows the object.
- `FieldInv`, `StreamInv`: what a field names is a block of the right kind and no other field names it; a handle and its stream name each other.
- `DeleteInv`, `TiffInv`, `AdaptorInv`, `PictureInv`: what a call in the middle of deleting or decoding knows of the fields of its own object. `OwnImage` says no other call has that object, so no other step can change them.

`MemorySafe` follows by cases on the step a worker is at. `OnceNothingOrphaned` needs in addition that no object decodes twice (`MaxDecodes <= 1`): `image_leak` shows it false otherwise.
`OwnerInv` gives each kind of block the field that names it, and `FreshInv` says that a decode only overwrites fields that are `NULL`, which is what the second decode breaks.

**Directories.** `TypeCorrect` (count, size and index stay in their `uint16`), `ListCorrect` (with memory to spare the list is
exactly the set of directories seen) and `NoLoop` (no directory is turned to twice before the client starts over, memory or not). The last
two rest on `LInv`: everything seen is in a cell that counts (true always), an empty list means nothing was seen, and with memory to spare the
converse. The first part is what survives a failed allocation: the count may then be too large, so that the search compares too much, never too little.

`IndexCorrect` rests on `IndexInv`: between two readings `tif_curdir` is one less than the place of the directory that `tif_nextdiroff` leads to, during a reading it is the place itself. It assumes
`NoWrap`: the client does not call `TIFFSetSubDirectory` (an offset off the chain has no index) and the highest number it asks for leaves room in a `uint16` for the directories of the file. The second is enough because the index grows by one for
each directory that is accepted, and by `LInv` none is accepted twice before the list is started again: `Highest` counts them. Without either the property is false (section 3). Memory may run out.

`CountCorrect` rests on `CountInv`: `nextdir` is the `n`-th directory of the chain and every place before it is taken. On a chain without a circle the places hold different directories (`PlacesDiffer`), so by the pigeonhole principle a file of
no more than 65535 directories (`FewDirectories`) has none at the last place (`LastIsNone`), and the places up to the answer are numbered by what the property asks for. A longer chain is answered with 65535.

**Strips.** `StripTypes`, `RowsAsAsked`, `StripsAsAsked`, `BufferAlwaysKept` and `AlwaysDecodesInBuffer` hold for every size of image and strip, any byte counts and every failure. Their invariant is
`CallInv` (the arguments of the call under way), `BufferInv` (the buffer holds the current strip, also while a call that may yet fail is about to replace it) and `PlaceInv`
(the current strip is in the buffer and `tif_row` is the decoder's row, but for what `doubt` remembers). Two clauses carry the argument where the code looks fragile:
a current strip implies that the codec is set up, so a failing set-up never leaves `tif_curstrip` naming a strip whose bytes were just overwritten; and `BufferSetup` forgets the current strip before it replaces the buffer.
The lemmas before it are arithmetic: `StripOfRange` (a row lies in a strip), `FirstRowRange` (a strip begins in the image), `RoundUpRange` (the buffer is large enough).

**Raster.** `TypeCorrect`, `PixelsInPlace`, `RestIsUntouched`, `EdgeTilesAreWhole` and `CallerToldOfFailures` hold for images, windows, tiles and strips of any size and every orientation; the runs stop at 3 by 3. Their invariant `IInv` says where the loops stand
in terms of the window: `RowsOK` and `ColumnsOK` give the row and column reached, and that the chunk asked for is the one that holds them; `PutOK` gives the cell. Whichever way the raster is filled, a new row adds `w` to the cell or takes
it off, and `tw` to the index in the buffer; the skews are what makes this so, and the lemmas that show it are the arithmetic of products (`CellFor` and `LineOf` are within the raster and injective). `PlacedOK` says that a pixel once put stays until the lines are mirrored;
`FixOK` says how far the fix-up of an edge tile has come, from the last line to the first, so that no line is overwritten before it has been moved. `RestUntouched` is a part of the invariant.

**Fax.** `RowsAreFilled`, `EolsBeginRows` and `RowsAreRight` hold for rows of any width, any codes and any damage. For the first two the argument is about sums of runs (`Fax3_proofs`): while a row is read `a0` is the sum of its complete runs and of the one under way, and `b1` that of the runs of the
reference line passed so far (`RunsAre`, `PlaceIs`); the reference line reaches the width of the row before its last run, so that the search for `b1` ends within it (`Reached`); and however the row ended, `CLEANUP_RUNS` leaves runs that reach the width, which the fill
routine cuts to it. With one dimension an EOL that was met inside a row is either in `EOLcnt` or has begun a row.

`RowsAreRight` (`RowsRight`) relates what the encoder found in the pixels to the runs the decoder collects. A *spot* is a row of the strip, a column, a color and a mode; `CodeFits` says, of the pixels alone, which code may stand at a spot and to which spot it leads.
The invariant `RowsInv` has two sides. While the strip is encoded, the codes put so far lead from the first row to where the encoder is (`EncodedTo`). From then on there is a spot before each code of the stream, and in a row none of whose codes was damaged the decoder has read as far as the
spot it is at says: the runs so far change color where the row does (`RunsRight`, `WithinRow`), and in two dimensions those of the reference line are the changes of the row before (`RefRight`), or of a white line before the first. The delicate steps are those that move `b1`: both sides look for the first change
of the reference line to the right of `a0` with the opposite color, the encoder by `finddiff` on pixels, the decoder by adding pairs of runs and, after a vertical code to the left, by going one run back (`RefFound`, `NextRefIs`, `PreviousRefIs`). A run of length 0 can only be the first of a row, which is why `a0` may stay at 0 there and nowhere else.
The rows of the fax schemes are `White` and `Black` pixels only (`FaxAssumption`, `Pairs`).

**PackBits and LZW.** `NothingBeyondBuffers` (`InBuffers`) and `TypesOfCodecs` (`TypeOK`) are of all codecs, `ChainsEnd` (`NoLoopInTable`) is of LZW; strips, tables, buffers and foreign streams are of any size. `CodecsSafe` is their invariant:

- `LiteralOK`: while a literal is open its header counts the bytes up to the end of the raw buffer, or up to the run behind it, and can still grow. So the part of a full buffer that is kept when the rest is flushed is shorter than a literal's limit, and leaves room for the run that did not fit.
- `EncoderOK`: the LZW encoder flushes when fewer than five bytes are left and a byte of the strip adds no more than two codes.
- `TableOK`: the entry of every code in use has the string of an older entry and one byte more, so its chain ends and is as long as it says; `DecoderOK`: a string that a call left half way is longer than what has been delivered of it.

**What was encoded is decoded.** `EveryStripComesBack` (`RoundTrip`) and `WidthsAgree` (`ReadAsWritten`) relate the whole run of an encoder to that of a decoder, so their invariants (`PackTrips` and `LzwTrips` in `RoundTrip_proofs`, `RowsTrip` in `Fax3_proofs`)
say that there is a way to read the stream: functions that give, for each packet or code, its place in the stream and the bytes of the strip it stands for. While the encoder runs each step extends them; when the decoder runs they are fixed and the decoder is at one of their places.
No history variable is needed for this, and no property of the codecs' own variables would do, because the decoder reads what the encoder wrote long before.

- PackBits: the stream and the raw buffer together are `Packets`. No packet goes over the end of a row (`InRow`), which the decoder needs: it forgets the rest of a packet when a call is full, so a packet that crossed the end of a call of whole rows would lose bytes (`NextPacket`). A literal that may still grow is the last
  packet or the last but one (`FromEnd`), also after the flush has moved it to the start of the buffer; a literal that takes a run of two in replaces both packets by one (`MergeLiterals`). The headers are between -(`Limit` - 1) and `Limit` - 1, so none is the no-operation.
- LZW: `Parsed` gives each code its string, the last Clear code before it (`seg`) and its bit. The encoder's hash table and the decoder's table both hold, for each code since that Clear, its string and the byte after it (`HashOK`, `Recorded`); the decoder's last entry is missing, and the code for which it is needed is the one
  whose string begins and ends with the same byte (`UnknownString`). The width of a code is a function of its distance from the Clear (`WidthIs`), and both sides compute it, from tables one entry apart. That no bits are missing at the end follows from the count of bits (`dec_bitsleft`).
  The one code whose width is delicate is the Clear of a full table, written before the width changes: `LzwAssumption` says that the last width begins more than two codes before the table is full (4095 against 2047 in the code).

- Fax: the spots of `RowsInv` are such a way, and there is no other: one code at most fits a spot, and it leads to one spot (`OneWayOn`, `WayOut`). The stream that was sent leads to the end of the strip (`LeadsOut`). So a decoder at the spot of a row of the strip finds a code that fits there, the next one, and not the end of
  the data, an EOL where a run should be or the end-of-block code (`CodeComes`); with EOLs it finds the one that begins the next row (`EolComes`). Hence no row is damaged, none is skipped, and the client has been given the rows up to `refno` (`RowsGiven`).

The invariants were first checked by TLC on the strips of the run `codecs`, with the functions computed from the stream.

The chains, sums and reached directories are recursive functions. That they equal their defining equations, and what follows from those at every place, is proved by the least number for which it would fail (`LeastOf`, from the well-foundedness of `<`); the library's induction theorems,
which take an operator as a parameter, are not used. For this `Chain` is written with one function for each length, whose values are functions on the codes.

Only model-checked: liveness (`RequestsAnswered`, `CallsReturn` of both modules, `ScanEnds`, `Finishes`), since the prover does no `ENABLED`.

## 6. What is not modelled, and why

- Sharing one object between threads: nothing in the library says it works, and there is no synchronisation to check.
- The process-wide error handler: every handler only logs.
- `width * height * 4` overflowing (`TiffImage.cpp:56`): the limits of an image's size belong to the fields of a directory, which `TiffDirectory` abstracts.
- The wrap of `tif_curdir` after `TIFFSetDirectory(65535)` on a circular chain: the runs stay below it.
- The descriptor procedures of `tif_unix.c`: one system call each; that they are a random access file is what the kernel promises.
- The other codecs: the predictor is arithmetic on one row with no state between calls, zip and jpeg hand the stream to a vendored decoder, luv and pixarlog are conversions of numbers in front of one, thunder and next have a decoder only.
- Conversion of colours in `tif_getimage.c` and of the pixels in `TiffImage.cpp`: arithmetic of one pixel with no state.
- The sample application: each handler decodes and releases an object of its own.
- Smaller things met on the way and not stated as properties: after a strip was mapped, `TIFF_MYBUFFER` stays clear, so a bigger bit-reversed strip of the next directory is refused although "the data buffer is expanded, as necessary"
  (`tif_read.c:485-487`, visible in `StripReader!NotMine`); the fix-up of edge tiles is right only for images stored from the top left; with `stop` = 0, which `TiffImage` passes, a chunk that cannot be decoded leaves in the raster whatever the buffer held.
- Unused or vendored code: `tiffstream.cpp`, libtiff's writers and tools, libjpeg, older copies.

## 7. Plan

Done, in this order: `RandomAccessFile`, `JavaInputStream`, `TiffInputStream`, `TiffImage`, `TiffDirectory`, `StripReader`, `RgbaRaster`, `Codec`, `PackBits`, `Lzw`, `Fax3`, `Codecs`, and the proofs of each.

Every invariant and action property of a passing run is proved for all values of the constants; the liveness properties stay with TLC.

What is left is to extend the model: the predictor and `LZWDecodeCompat` as further parts of `Codecs`; a failing `TIFFReadDirectory` in `StripReader`; transposed windows and sub-sampled strips in `RgbaRaster`.

## 8. Running it

`tlc -config StreamContract.cfg TiffInputStream.tla` and likewise for the other configurations; the module of each is in `PROJECT.json`. The passing runs take
from seconds to two and a half minutes (`codecs`). `tlapm TiffInputStream_proofs.tla` and likewise for the other modules whose name ends in `_proofs` checks the proofs; they take from twenty seconds to a quarter of an hour (`Fax3_proofs`, `RoundTrip_proofs`).
