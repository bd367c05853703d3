# Verification of hfsprescue

hfsprescue recovers files from damaged or formatted HFS+ volumes.  It never
mounts the volume: it reads the device block by block, takes everything that
looks like a catalog entry, and rebuilds files and directories from what it
found.  The program is one process with one thread that runs in separate
invocations ("steps"), tied together only by the files they leave behind.  What
makes it hard to test is the data: damaged blocks, duplicates, deleted versions,
unreadable sectors, sizes at the edge of an integer, and runs that are
interrupted after hours and continued.

All paths below are paths of the repository (`src/hfsprescue.cpp`, `doc/en/...`);
`PROJECT.json` names them from the directory above it, with one more `src/`.

## 1. Inventory

| Component | Code | State it keeps | Operations | Module |
|---|---|---|---|---|
| Read cache of step 1 | `src/hfsprescue.cpp` `FillCache`, `GetCacheBuffer`, `FindFiles` | `cache_mem`, `cache_size`, `cache_file_offset`, `fofs` | fill a window, copy two blocks out of it, next block | ScanCache |
| Scan of a block | `ScanBuffer`, `WriteFileInfos` | `ofs`, `old_ofs`, `foldertable.db`, `filesfound.db` | seek, take an entry, step over a bad one | CatalogScan |
| Step 2, cleanup | `CleanupFileDatabase` | `filesfound.db`, digests, `fileinfo.db` | hash, sort and mark duplicates, write | CleanupDb |
| Database reader | `LoadFileInfo` (`List`, `CSVExport`, steps 3 and `--one-file` call it) | the struct `file_info`, reused between calls | read an entry, pass over a comment | FileInfo |
| Step 3, all files | `RestoreFiles`, `RestoreFile`, `AlternativeFileName` | `fileinfo.db`, list of numbers, files below `restored/` | skip, keep, name, create, write, set time | RestoreFiles |
| Step 3, one file | `RestoreUncompressedFile`, `WriteFileBytes` | `bytes_left`, extent index, `file_block`, `file_buffer`, the file | refuse, create, copy an extent, copy an overflow extent, close | RestoreExtents |
| Overflow lookup | `src/eof.cpp` `EOF_CreateKey`, `EOF_GetRemainingBlocks` | the ExtentsOverflowFile in memory | find the device block of a file block | ExtentsOverflow |
| Overflow file: extraction, loading | `src/eof.cpp` `ExtractExtentsOverflowFileAutomatic`, `ExtractExtentsOverflowFile`, `EOF_OpenFile` | the extracted file | extract, extract blocks by hand, open | Pipeline |
| Step 4, directories | `FindParentDirectory`, `RenameDirectory`, `MoveUnlinkableDirectories`, `RestoreDirectories` | the table of folders, the tree `newroot` | paths, mkdir, rename | DirTree |
| Steps 5 and 6 | `MoveFiles`, `MoveDirectoryFiles`, `MoveUnknownDirectories`, `Cleanup`; `src/rmdir.cpp` | the trees `restored/<id>` and `newroot` | move, remove | MoveFiles |
| The steps in sequence | `main`, `FindFiles`, `CleanupFileDatabase`, `RestoreFiles`, `RestoreOneFile`, `SigProc` | the files of `hfsprescue-data/` and `restored/` | run a step for a volume, interrupt, run again, `--force` | Pipeline |
| Decompression | `src/decompress.cpp` | `decompress_cache`, its offsets, `bytes_left`, `buffer_in` | skip the head, find the first chunk, collect, inflate | Decompress |
| Searches through a device | `src/bytescan.cpp`, `src/vh.cpp`, `FindExtentsOverflowFile` | `buffer`, `fpos` | read, look at a place, report, advance | DeviceSearch |
| Volume header: copy to a file, printing | `VH_Extract`, `VH_PrintData` | none | one read, one write | not modelled |
| Command line, help, log, terminal | `src/help.cpp`, `src/log.cpp`, `src/ioctl.cpp`, `main` | options | parsing, text, pure I/O | not modelled |
| UTF-8 conversion | `src/utf8mac.cpp` | none | third-party conversion | not modelled |

How they interact: step 1 asks `GetCacheBuffer` for two blocks and hands them to
`ScanBuffer`, which appends to two text files.  Step 2 reads one of them and writes
`fileinfo.db`.  Step 3 goes through `fileinfo.db` with `LoadFileInfo`, decides in
`RestoreFile` what to do with each entry, and copies a file with
`RestoreUncompressedFile`, which asks the overflow lookup when the extents of the
entry do not suffice.  Step 4 builds a tree of directories from `foldertable.db`,
step 5 moves the files of step 3 into it, step 6 cleans up.  There are no threads
and no messages; the concurrency is that of a user, a signal and a disk: SIGINT at
any moment, a step run twice or out of order, sectors that cannot be read, targets
that fill up.

What makes each component correct:

- *Read cache.* ScanBuffer sees every block of the device, each with its own bytes;
  an unreadable place neither stops nor holds up the scan.
- *Scan of a block.* Every valid entry that no other one covers reaches its table,
  once; the scan of a block ends.
- *Cleanup.* One entry of each file remains, whatever order `qsort` gives
  duplicates; only files with a date in the future are dropped for their date; the
  numbers of `fileinfo.db` count its entries.
- *Database reader.* A valid entry has well-formed extents and exact derived
  fields; a misread entry spoils no other.
- *All files.* The newest recoverable version of a file is on the disk in the end;
  nothing newer is overwritten; with `--alternative` nothing is overwritten.
- *One file.* Each byte lands at its place; "restored" means whole; a short file has
  a reason.
- *Overflow lookup.* The answer is the rest of the fragment that holds the block,
  whatever order and company the records have.
- *Decompression.* The compressed chunks of the fork are written, each once and in order,
  none left out in the middle; what is damaged costs only what lies behind it; the loops
  end.  (Stored chunks are dropped, finding 4.)
- *Searches.* What is reported lies where it is said to lie; what the search looks at is
  not missed; the search ends.
- *Steps in sequence.* Whatever ran before, a scan, a listing and a restore of one
  volume, with an overflow file of its own, leave a right copy of each file that had no copy with
  bytes before; earlier copies stay as they are.
- *Directories, moves.* Every folder's path is finite and ends in the root or in
  `x_directory_problem`; every folder has one directory, in the one of its parent; no
  file vanishes on the way from `restored/<id>` to its directory, or gets to another
  folder's.

The hard behaviours, each at its line, are the `hazards` of `PROJECT.json`, with the
properties that catch them going wrong.

## 2. Modules

Every model follows the same scheme: a VARIABLE for each variable of the code that
outlives a turn of its loop, an action for each branch of a loop or call, the
conditions and early returns of the code as guards.  Data is abstracted to what the
properties tell apart.  A definition named `X_Something` in front of `X` is a slip:
what `X` would be with a plausible bug, kept so that one can see which property
notices it.  No specification uses it.

**RestoreExtents** (`RestoreUncompressedFile`, `WriteFileBytes`).  Bytes are counted
in cells, and a cell read from the device is represented by its device address, so
the output shows where each of its bytes came from.  One run of the function is
chosen in Init: the entry, the options, the overflow file, the unreadable cells, the
room on the target.  `Refuse`, `CreateFile` and `CreateFails` are the part up to
`fopen`; `StartExtent` and `EndExtents` the loop over the extents of the entry;
`StartOverflowExtent` and `EndOverflow` the loop over overflow extents; `WriteChunk`
a turn of `WriteFileBytes` (`pread64` and `fwrite`, both unchecked: what was not read
is whatever `file_buffer` still holds); `Close` the verdict.

**ExtentsOverflow** (`EOF_GetRemainingBlocks`) is a pure operator.  The overflow file
is the sequence of its record slots in the order the loops visit them; `Hits` is the
set of places where the loops can return and the answer comes from the first one.
RestoreExtents EXTENDS it: the composition of the two is what is checked and proved.
`AnswerRight` compares the answer, which is found by numbers within the file, with the
place of the block on the device.

**FileCopy** is the abstract specification of restoring one file: the copy grows from
its start by the bytes that follow, nothing written changes, and it is called
restored only when it is whole.  RestoreExtents implements it (`CopiesInOrder`).

**FileInfo** (`LoadFileInfo` in the loop of `RestoreFiles`).  An entry is a record of
the fields the code parses; the arithmetic on blocks is done modulo `Modulus` (2^32).
A name that begins with `#` is taken for a comment by `SkipName`; the entry is then
read one line late.  `info` is the reused struct, so that what a call leaves alone is
what the entry before left there.

**ScanCache** (`FillCache`, `GetCacheBuffer`, the loop of `FindFiles`).  Cells again,
with the result of `pread64` in an unsigned `cache_size` (`Huge` is 2^64 - 1).  The two
`memcpy` of a request over two windows are separate actions, `CopyPart` and
`CopyAll`, to one destination, as in the code.

**CatalogScan** (`ScanBuffer`).  A block is a function from offsets to what an entry
that starts there would be.  `Seek` is the inner loop, `TakeEntry` and `SkipEntry` a
turn of the outer one, `NextTurn` its end with the check for an endless loop,
`StartOfs` the truncation to `uint16_t`.

**CleanupDb** (`CleanupFileDatabase`).  A record is a content, a date and what the
digest does not cover.  Equal digests mean equal hashed lines (SHA-1 is taken to be
free of collisions).  `RemoveDuplicates` lets `qsort` leave equal digests in any order.
`Rawtime` is the conversion of dates in 32 bits.  `Interrupt` and `Rerun` are SIGINT
and the user's second attempt.

**RestoreFiles** (`RestoreFiles`, `RestoreFile`, `AlternativeFileName`).  How
the copy of a file ends is part of its entry (`outcome`); a file on the disk is the
entry it came from, how far it got, its size and its time.  `Interrupt` may come between
any two steps, also while a file is being written; `Continue` starts step 3 again, with
`-c` or from the beginning.  A file is known to be cut off (`CutOff`) by its time of now.

**DirTree** (step 4: `ExpandDirInfo`, `FindParentDirectory`, `RestoreDirectories`,
`RenameDirectory`, `MoveUnlinkableDirectories`).  The table of folders is any sequence
of lines from `Tables`; `Loaded` is what the program keeps of it.  `Climb` and `PathDone`
are the calls of `FindParentDirectory`; `Mkdir` and `Echo` what the shell does with the
script (`Echo` writes the id of its line, also over the id file of a directory that an
earlier, interrupted run made for another folder and renamed to that number); `Descend` and `Rename` the recursion of `RenameDirectory`; `StartUnlinkable`,
`Unlinkable` and `Recovered` the rest.  A directory is a number with the directory it
lies in, its name and its id file, and remembers the folder it was made for, by which the
properties say where it should be after it was renamed or moved; no action reads that.  A name is the number `atoi`
reads off its front and the rest.  A directory stream (`Stream`) may return names in
any order, and a name that appears while the directory is read or not at all.
`ScriptKilled` is SIGINT while the script runs, which ends the shell and not the
program; `Again4` is SIGINT at any other moment, or a second run of a complete step.

**MoveFiles** (steps 5 and 6: `MoveFiles`, `MoveDirectoryFiles`,
`MoveUnknownDirectories`, `Cleanup`) EXTENDS DirTree: the steps run one after the other
on one tree.  `Enter` is the recursion, `OpenFolder` the id of a directory and the
opening of `restored/<id>`, `MoveFile` a `rename`, which replaces a file of the same name
and fails when a directory has the name.  `Again5` is an interrupted or repeated step 5.

**Decompress** (`RestoreCompressedFile`, `GetChar`, `FillDecompressCache`).  A fork is a
sequence of bytes of the device, with the streams that can be inflated in it, and the chunks that
are stored as they are, which the function does not know; zlib
(`Uncompress`) accepts what begins with one of them.  A turn of each of the three loops
is an action (`SkipHead`, `FindFirst`, and `Collect` or `Inflate`), each of which takes a byte
from the cache as `GetChar` does.  A failed read leaves the cache as it was and moves the
offset by -1.  `Fork` is what the callers have made sure of, and what a device with a compressed
file looks like: its chunks in order behind the head, and what else looks like a stream (`Lies`)
begins inside one of them, and before its last two bytes.

**DeviceSearch** (`ByteScan`, `VH_FindHFSVolumeHeader`, `VH_FindHFSAlternateVolumeHeader`,
`FindExtentsOverflowFile`).  The four are one loop with other sizes (`ReadSize`, `Step`,
`Places`, `Width`), so they are one module with the search as an input.  `Read` fills the
buffer with what could be read and leaves the rest, `Report` writes a line and, for a
volume header, swaps its numbers in the buffer, as `VH_SwapBytes` does; `Advance` moves
`fpos` modulo `Modulus` (2^64).  `PReadCells` knows that an offset of 2^63 and more is
negative to `pread64`.

**Pipeline** composes the steps over the files they share.  A table is the volume it
was made of and how many entries it has; a file below `restored/` is right, short, wrong,
cut off or empty.  The actions are the openings, the writes and the ends of each command,
so that `Interrupt` (`SigProc`) may come between any two; what a single command does in
detail is in the modules above.  `Step1`, `Step2`, `Step3`, `OneFile`, `ExtractEof`, `ExtractBlocks` and
`Remove` (`rm`, as the messages of the program advise) are what the user may enter, for
any volume and with `--force`, `--ignore-eof`, `--force-eof` and `-b`.  `history` is what the user
knows and the program does not note: for which volume the last scan and listing
were, and whether they came to their end.

`MCVolumes` makes the file layouts for a run; an `MC` module beside each module
gives it small inputs, and a `_proof` module beside each of RestoreExtents, Pipeline,
RestoreFiles, CatalogScan, CleanupDb, FileInfo and MoveFiles (which has those of DirTree) holds
its theorems (section 5).  `Readers_proof` proves about the three modules that read through a
buffer, ScanCache, DeviceSearch and Decompress; it EXTENDS all of them, which is why the last two
have names of their own for what each module has (`SearchSpec` and `UnpackSpec`, `search_pc` and
`unpack_pc`).  `MCReaders` puts the small instances of the three side by side for one run.

## 3. Runs

Each run is one question; `readers` asks the same one of three components: what becomes of
windows, short reads and failed reads.  In all of them the integers that wrap, the sizes of
buffers and the numbers of extents are constants, so that a small instance meets
the same boundaries as the real one.

| Run | What it shows | Bounds and why they are enough |
|---|---|---|
| `restore_extents` | the right answers of the lookup, bytes at their place, honest verdict, termination, refinement of FileCopy | files of up to 5 blocks in every layout of fragments of 1 or 2 blocks, lying backwards on the device; 2 extents in the entry and 2 in an overflow record, so that 0, 1 or 2 overflow records are needed and the last one is full or not; blocks of 2 cells and a buffer of 3, so that a chunk ends inside a block and an extent inside a chunk; two unreadable cells anywhere; a target that fills up halfway; the overflow records in every order, among a record of another file, an index slot and an empty slot, or with one missing |
| `file_info` | extents and derived fields of valid entries; a misread entry harms no other | two entries: the reused struct connects an entry to the one before only; every combination of zero and non-zero fields of two extents; 2^32 is 8 and blocks have 2 cells, so that sums and products wrap, and a file system of 5 cells is exceeded below that |
| `compressed_files` | *violated*: finding 3 | the same |
| `readers` | what ScanBuffer is given, and that the scan reaches the end; what a search reports is there, and what it looks at is reported; which compressed chunks are written, none left out between others; each of the three ends | one of the three is run, the others are at rest. *ScanCache*: a device of 16 cells, windows of 6, blocks of 2, the volume at 1: windows end inside a request; up to two unreadable cells anywhere. *DeviceSearch*: every device of 3 and of 9 cells with the bytes searched for anywhere, or two headers anywhere, one of them of another system; buffers of 4 cells, so that a device is shorter than a buffer or has a rest, and a match spans buffers; blocks of 3; 2^64 is 32, so that `fpos` wraps; one unreadable cell, the first or last one or one at either side of where a buffer ends; an offset; what the buffer held before. *Decompress*: forks of up to three chunks of six kinds (with a marker inside, with half of one or a whole one at the end, not compressed with one inside, too long with what follows); a table that looks like a marker; nothing, other bytes, half a marker or another file's chunk behind the fork; in forks of up to two chunks, one unreadable byte anywhere, or the first two of the device, so that the reads that fail lead back to where there is nothing; a cache of 4 bytes and a head of 3, so that windows end inside everything; a limit of 9 bytes that two chunks exceed; stored chunks between, in front of and behind compressed ones |
| `scan_seam` | *violated*: finding 1 | ScanCache by itself, the same |
| `catalog_scan` | no entry lost, none found twice, termination | every block of six bytes with six kinds of starts at each; entries of 4 and 5 bytes overlap, cover each other and cross the end; `Modulus` is as large as the block, so that `start_ofs` holds every offset |
| `cleanup_db` | one entry of each file, numbers without gaps, termination | three records (the smallest number at which the choice of a neighbour matters), every order of equal digests, one interrupt anywhere; seconds are counted modulo 8, with a date before 1970, one now, one at the tolerance and one beyond it |
| `restore_files` | which version stays, with which time, what is never overwritten, what is there when the program gives up | three versions of a file: two that meet and one that comes after; three times and one in the future, empty files, refusals, failing creates, three alternative names, file lists, one interrupt anywhere and one continued run |
| `restore_resumed` | *violated*: finding 2 | the same, without refusals |
| `steps_4_to_6` | one directory for each folder, in its place and with its name; every file in the directory of its folder; the steps end | three folders: chains, two loops, an orphan, a duplicate id, an invalid name, a damaged root, and a chain longer than `MaxDepth` (3 ids here, some hundreds of them in PATH_MAX_LENGTH); names all alike, two alike, and names that begin with the id of another folder; directories read in every order; files with one name in different folders, one with the name of a directory, one of an unknown folder and one without a folder (id 0), a folder called `recovered`; one interrupt, killed script or repeated step anywhere |
| `stored_chunks` | *violated*: finding 4 | Decompress by itself, the same |
| `pipeline` | after which commands step 3 leaves a right copy of every file that had none with bytes; what is never repaired | six commands (a scan, a listing and a restore of one volume behind three others), one interrupt anywhere; three volumes, so that every combination of same and other occurs: one sound, one whose overflow file is damaged and cut, one without; two files in the first two, of which the last needs the last overflow block |

Deadlock is not checked: every run ends, and a final state is meant to have no
successor.

Several properties are conjunctions of named parts, so that a run asks one question
and the parts stay readable; each part has a slip of its own that breaks it.

- *RestoreExtents*: `CopyFaithful`, every written byte is the file's byte for its
  offset, or what the buffer held if a cell at most a chunk before it could not be
  read; `RestoredIsWhole`; `ShortOnlyWithoutOverflow`; `Termination`; `CopiesInOrder`.
- *FileInfo*: `ValidExtents` (the code tests `num_blocks[0]` where it means `num_blocks[i]`;
  together its tests are enough); `RightBelowWrap`
  (what holds below 4 GB); `OthersUnharmed`.
- *ScanCache*: `OnlySeamsWrong` (`FaithfulInsideWindow`, and `SeamShowsNextWindow`: what exactly
  is wrong at a seam); `Termination`, at the end of the device.
- *CatalogScan*: `NoEntryLost`, `FoundInOrder`, `Termination`.
- *CleanupDb*: `OneEntryOfEach` (`NoDuplicates`, `NumbersCount`, `PresentKept`), `Termination`.
- *RestoreFiles*: `RightVersions` when step 3 is done, in whatever runs (`LatestOrCutOff`: of each file
  with no refused version the newest one is there, or one that an interrupt cut off; `OwnTime`:
  every such file is as its entry says, with its time, or cut off), or has given up
  (`AllVersionsThere`: with `--alternative` every version before that entry is there); `VersionsKept` (`NeverOlder`, `NothingOverwritten`) of every step.
- *DirTree*, *MoveFiles*: `FoldersPlaced` (`TreeRight`: for every table each folder has one
  directory, in one made for its parent, below `recovered` or `x_directory_problem` as its
  parents say; `NamesRight`, although directories are renamed while they are read);
  `FilesPlaced` (`FilesRight`, `FilesMoved`) and `NothingLost` (`DirsKept`, `FilesKept`), also after
  interrupts and repeated steps, where a folder may have two directories, one
  without an id file, or one with another folder's id; `FilesRight` then speaks of names without a
  number at the front, or of trees in which every folder is marked with its own id; `Termination`.
  Step 4 behind a step 5, and a second step 6, are not in the model.
- *Decompress*: `NothingSkipped` (what is written are chunks in their order, and none of the
  compressed ones is left out in front of one that is written; nothing is said of stored ones);
  `SoundChunksWritten` (all compressed ones in front of the first damage, and TRUE when that is the
  whole fork); `UnpackEnds`.
- *DeviceSearch*: `ReportsRight` (wrong only about what could not be read); `HitsReported` (which
  places a search looks at is part of the statement; what it does not look at, and which header
  `--first` shows going backwards, is told in section 4); `SearchEnds`.
- *Pipeline*: `CarefulRunRestores` (`CopiesRight`, `AllCopied`, `TablesTogether`); `NothingRepaired`: what
  one command left, whole or not, is what the later ones use.

### Fairness

`WF_vars(Next)` in RestoreExtents, ScanCache and CatalogScan: the program has one
thread and waits for nobody, so while it can take a step it takes one.  (A read that
never returns is out of scope.)  In CleanupDb the same formula also says that the user
starts an interrupted step 2 again; the number of interrupts is bounded by
`MaxInterrupts`, so that Termination speaks of the run that is not interrupted.
In MoveFiles
it says that the user goes on to the next step, and starts an interrupted one again at
most `MaxRepeats` times.  In Decompress and DeviceSearch it is the one thread again: the
program goes on reading behind cells that cannot be read.  In the run `readers` one of
ScanCache, DeviceSearch and Decompress takes steps and the others have ended, so that
`WF_readers_vars(ReadersNext)` is the fairness of the one that is run.  RestoreFiles, FileInfo and
Pipeline, where the user need not do anything, are checked for safety only.

## 4. Findings

1. `scan_seam`: a request that spans two windows of the cache is copied twice to the
   start of the buffer (`src/hfsprescue.cpp:491`); the block at the seam is not scanned.
2. `restore_resumed`: the file step 3 was writing when it was interrupted has the time
   of now, and the continued run keeps it as the newest version (`:1179`).
3. `compressed_files`: a compressed entry with extents is invalid (`:1348`), one without has start
   block 0, which step 3 passes over (`:1531`): no compressed file is restored, and only
   `--one-file` decompresses, against `doc/en/hfsprescue.txt:63`.
4. `stored_chunks`: a chunk that is stored and not compressed is left out of the middle of a
   file (`src/decompress.cpp:153`), which is called restored, against the same line.

Four more have a property and a configuration of their own, each of which TLC finds violated in
seconds.  They are not among the runs of `PROJECT.json`:

- `MCCatalogScanWide.cfg` (`Termination`, `tlc -config MCCatalogScanWide.cfg MCCatalogScan`, the
  blocks of `catalog_scan` with `Modulus` 4): in a block of more than 64 KB, which `-b` can set,
  the scan goes back from an entry behind offset 65535 and never ends (`:358`); the check for an
  endless loop (`:416`) sees only a turn that does not move.
- `MCMoveFilesNumbered.cfg` (`FilesInCorrectDirectory` of MoveFiles, `MCMoveFiles`): step 5 takes the
  number at the front of a directory's name for its id when it has no id file (`:2044`), as after a
  `mkdir.sh` that was killed: the files of folder 4 go to a folder called `4th`.  ("Move restored
  files to correct directory", `:1959`.)
- `MCDeviceSearchFirst.cfg` (`FirstFromTheEnd` of DeviceSearch, `MCDeviceSearch`):
  `--find-avh --first` shows the first header of the last buffer that has one, not the last one of
  the disk (`src/vh.cpp:287`, `doc/en/hfsprescue.txt:825`).
- `MCDeviceSearchBytes.cfg` (`FindsTheBytes` of DeviceSearch, `MCDeviceSearch`): `--find` does not
  find what spans two buffers of 1 MB or begins at the last place of one (`src/bytescan.cpp:57`,
  `doc/en/hfsprescue.txt:340`); with 1 MB of bytes to search for it looks at no place at all.

Observed while modelling, without a run: `all_blocks * block_size`
(`:1364`) is a 32-bit product, so that `has_extents_overflow` is set for files of 4 GB and
more whose extents hold all of them, and entries larger than the file system get through
(`:1367`; `RightBelowWrap` is the part that holds, for blocks that have a size: `List` and
`CSVExport` call with 0, and then only print what comes of it); a date before 1970, or an empty
one, wraps into the future (`:265`), and the file is dropped (which is why `PresentKept`
speaks of dates the program can tell); `List` prints `_F_EOF_` for compressed files and `_F_COMPRESSED_` for
files with overflow extents (`:2303`), the other way round than
`doc/en/hfsprescue.txt:538`; a file whose name begins with `#` is listed under the
number 0 and cannot be restored (`:1238`); the digest takes line 48, the separator,
where it means the last extent (`:691`); a refused version gives its time to the file
of an older one (`:1229`), which is why `LatestOrCutOff` and `OwnTime` leave such files out; a
folder that is called like an id gives that folder's directory a second turn in
`RenameDirectory` (`:1749`), which is why `NamesRight` speaks of names without a number;
when step 4 is interrupted while it renames and is run again, such a directory lies where
`mkdir -p` wants that folder's, gets its id file (`:1913`), and step 5 moves the other folder's files
there, which is why `FilesRight` asks for own ids (`OwnIds`) when there are such names; when the table has an entry for folder 2 itself, the root
folder is renamed and lands in `x_directory_problem` (`:1752`, `Undisturbed`); step 4 run
twice moves the first `recovered` to `x_directory_problem` (`:1795`); when a folder in a loop is
called `x_directory_problem`, its directory in `newroot` is taken for the one of the program, and
what lies in `newroot` under the name of a directory in it stays there (`:1752`, the third
part of `Undisturbed`); the id of a file's folder is never compared with 0, which no directory
has: such a file is moved to the first directory without a number and an id file, which may be
`newroot` itself (the exception in `FilesRight`).

In the modules of the readers and the pipeline: `RestoreCompressedFile` returns TRUE also
when nothing could be inflated (`src/decompress.cpp:174`), a marker in the table loses all of it, a
chunk of another file in the 256 bytes behind the fork is appended, and when the
first read fails the cache of the file before is decompressed; each read that fails moves the
offset back by a byte (`src/decompress.cpp:52`), so that bytes are met twice, in front of the fork too; a
chunk that ends with the two bytes of a marker, or makes one together with the byte behind it, is
written, but the next one is then taken to begin there, and all that lies behind it is lost
(`:153`, which is why `SoundChunksWritten` looks two bytes back from the end of a chunk);
`--find-avh` does not look at the first part of the device, less than a buffer, and goes on
below the beginning until `fpos` has come down to 2^63 (`src/vh.cpp:300`); a file given with `-ff` that is
shorter than the bytes to search for is filled up with what `malloc` returned
(`src/bytescan.cpp:117`); an ExtentsOverflowFile that was
cut off or is fragmented itself is used by every later run (`src/eof.cpp:134`), and the files
that became short by it have the time of their entries and are never completed;
`catalog_num_blocks` is not initialised there (`:188`), and the local `zero` of `:172` hides the
one that is meant, so that a gap in the extents is not noticed.

## 5. Proofs

Each theorem holds for every value of the constants that the named assumptions of its
module allow; TLC evaluates those assumptions on the instance of each run.

| Module | Theorems: Spec implies | Beyond sizes and types it assumes |
|---|---|---|
| `RestoreExtents_proof` | `[]TypeOK`, `[]CopyFaithful`, `[]RestoredIsWhole`, `[]ShortOnlyWithoutOverflow`, FileCopy's specification under the mapping of `CopiesInOrder`, and `[]AnswerRight` | the entry's extents name the file's own blocks, and so does each record of the file in a leaf of the overflow file (`InputsAssumption`); the last one also: no block of the device has two numbers in the file (`VolumeAssumption`) |
| `RestoreFiles_proof` | `[]TypeOK`, `[]RightVersions`, `VersionsKept` | a file with missing blocks is not empty (`FilesAssumption`) |
| `MoveFiles_proof` | `[]TypeOK`, `NothingLost`, `[]FilesPlaced`, `[]FoldersPlaced` | nothing |
| `Pipeline_proof` | `[]TypeOK`, `[]CarefulRunRestores`, `NothingRepaired` | only a volume whose header has sound extents holds blocks of the overflow file; no volume is called "none" |
| `CleanupDb_proof` | `[]TypeOK`, `[]OneEntryOfEach` | nothing |
| `CatalogScan_proof` | `[]TypeOK`, `[]FoundInOrder`, `[]NoEntryLost` | the last two: a block is not larger than `start_ofs` can count (`Modulus`) and than the model's bound on its logs |
| `FileInfo_proof` | `[]TypeOK`, `[]ValidExtents`, `[]OthersUnharmed`, `[]RightBelowWrap` | the last one: blocks have a size |
| `Readers_proof`, ScanCache | `[]TypeOK`, `[]OnlySeamsWrong` | a request fits into a window; the first cell of the device can be read (`FirstCellAssumption`) |
| `Readers_proof`, DeviceSearch | `[]SearchTypeOK`, `[]ReportsRight`, `[]HitsReported` | a buffer holds the bytes searched for; an offset does not lie behind the device; the device and a buffer are less than half of what `fpos` counts (2^63 bytes) (`SearchAssumption`) |
| `Readers_proof`, Decompress | `[]UnpackTypeOK`, `[]NothingSkipped`, `[]SoundChunksWritten` | a compressed chunk begins with the marker and says where it ends, so that none is the beginning of another (`StreamsAssumption`); the fork is one (`ForksAssumption`) |

None of the invariants is inductive by itself.  What each `IInv` adds, and why:

- *RestoreExtents.*  `InputsAssumption` says that the extents of the entry follow one another
  (`CatalogSound`) and that the records of the file in the overflow file tell the truth
  (`OverflowSound`); without them no program could restore a file.  That what the lookup makes of
  these records is a piece of the file is proved: a slot has start blocks (`StartsExist`,
  `StartsAreNat`), there is a first place at which the loops return (`FirstHit`), and the rest
  of the extent there is the file's (`AnswersSound`).  For `AnswerRight` two lemmas go the two
  ways between number and place: a hit lies around the cell (`HitAround`), an extent around the
  cell is a hit (`AroundHit`).  `CopyFaithful` says nothing of what is about to be read.
  `Aim` does: the device cells the current call of `WriteFileBytes` will read are the file's for
  the offsets it will write; `Place`: between two calls the position is the first block of
  the extent whose turn it is; `Verdict`: what each result says about `bytes_left`, and
  why the loops were left early.  `CopyBlocksAims` shows once that a call made at the
  right block aims right; both loops cite it.
- *RestoreFiles.*  `Running` (the loop with its file list and its two ways to end), `Writing`
  (the path being written belongs to the entry), `OnDisk` (a file is not older than the
  version it holds, which `NeverOlder` rests on), and three of what `RightVersions`
  says at the end, for the entries reached so far: `VersionsThere`, `Times` (what is not being
  written is as its entry says, or has the time of now), and `NewestThere`: for each version reached
  there is a file as new or newer (`Kept`), or a newer version is still to come
  (`NewerToCome`), which is so while one is written over it (`Replacing`).  An interrupt only makes
  less reached, so it disturbs none of them.
- *MoveFiles.*  `TreeOK`: the directories are a tree, under names of their own, with ranks
  that fall towards `newroot`; a name is the id of the folder, has no number, or is the
  name of some folder, and then the folder is known.  `Stacked`: the directories being read
  lie in one another, so none of them is empty and `rename` replaces none of them.
  `Placed`: a file in the tree is in the directory whose id it asked for, so the file whose
  name it would take has the same folder and name, and is the same file.  `Traversed`:
  there is a set of directories that step 5 is through with (`Behind`), which has
  everything that was seen of the directories still open; at the end it has all of `newroot`,
  and by the ranks all of the tree (`AllOfTree`).
- *DirTree*, for `FoldersPlaced`, in a run that nothing disturbed.  `Tidy`: no two entries have one id,
  and while the unlinkable directories are moved, names that will meet in one directory
  differ, so that no `rename` fails (`Aside`).  `NamesInv`: there is a set of directories that
  `RenameDirectory` is through with (`RenamedBehind`), in which each has its name, or its id where the
  name was taken (`Settled`), and which has everything that was seen of the directories still
  open; at the end it is the whole tree.  `PathsInv`: what `FindParentDirectory` has climbed leads
  to the folder (`Climbing`), and when it begins in the root it is the only path from there
  (`PathFound`, from `NoRepeat`: no path from the root comes to a folder twice, and `SameEnd`: two
  paths to one folder agree from their ends on); the script is a line for the root folder
  and one for each entry (`Lines`, `Scripted`); each directory lies at the end of one path of ids and
  no two at the same (`Leads`), and those at the end of a whole line that is done have the id file
  (`Ends`); in the end, only the root folder's directory, called `recovered`, and those of the
  problems lie in `newroot` (`RootPlace`).  `ReachesIs` and `FolderPlaced` turn this into what
  `TreeRight` says, by going up from a directory to the first folder of its path (`GoesUp`).  `Below` and
  `Reaches`, by which `TreeRight` says it, speak of sets and paths and need no recursion.
- *Pipeline.*  `TablesKnown` (what the tables hold while a command writes them, and that
  what the user believes to be whole is whole), `EofKnown` (whose overflow file it is, and
  that it can only be short when an extraction was cut), `CopyGoing` (a careful run has left
  a copy of each entry it has passed).
- *CleanupDb.*  `Hashed` and `Marked` (exactly one record of each digest keeps it, whatever
  `qsort` did), `WrittenSoFar` (the file is made of records from the part that was passed,
  in order, and has all that kept a digest and are in reach).
- *CatalogScan.*  `InFront` (what was found ends in front of the scan) and `Scanned` (`NoEntryLost`
  for the part of the block that was passed).
- *ScanCache.*  `CacheRight` (the cache holds what it claims, except after a failed read), `Turn`
  (a second turn of `GetCacheBuffer` begins at a seam, with a cache that must be
  filled), and what a buffer may show (`Seen`), also while it is handed over.
- *DeviceSearch*, `SearchInv`.  `BufferRight` (what is left to look at in the buffer is what the device
  holds, if all in front of it could be read), `Addressed` and `Scans` (where `fpos` may be: at a place
  where the search reads, or, going backwards, gone through 0 and near `Modulus`), `LogPassed` and
  `HitsPassed` (what is in the log was passed, and what was passed and counts is in the log),
  `NotStopped` and `InOrder` for `--first`.
- *Decompress*, `CopyInv`.  `BytesRight` (the cache holds what the device does, and will be filled with
  what follows, as long as all of it can be read), `Before` (the byte before), `Searched` (no marker was
  passed in the search), `Collected` (the buffer is a piece of the device; either it begins with
  the chunk whose turn it is, `OnChunk`, or no stream begins where it does and it is never
  inflated, `Nowhere`), `NoHole` (what is written are the first compressed chunks) and `Kept` (a sound chunk is written,
  or the buffer is with one in front of it).  That one of the two holds of the buffer after
  `Inflate` rests on what `Fork` says of lookalikes.
- *FileInfo.*  `Read`: each struct the loop saw comes from its own entry and some earlier
  struct, of which the fields an entry does not set are left.

A step that needs a least element (the first record of a digest in the sorted array, the lowest
directory step 5 would not have been in, the number of a new directory, the first hit of the
lookup) takes it from the library's theorems on well-founded relations, without induction
(`SmallestOf`).  The sum of the extents in FileInfo and the start blocks in ExtentsOverflow are
recursive functions; that there are such functions, and that their values are numbers, is shown in
the same way, by the smallest argument for which it would not be so (`SumsExist`, `StartsExist`).

Only model-checked: that the loops end (`Termination`, `UnpackEnds`, `SearchEnds`; liveness and
ENABLED are outside the prover's reach), and what section 4 says is violated.  All
the other properties of the passing runs are theorems.

## 6. Plan

In the order of what matters most to somebody who wants his files back.

1. Done: RestoreExtents with ExtentsOverflow and FileCopy, and the proofs; FileInfo;
   ScanCache; CatalogScan; CleanupDb; RestoreFiles; DirTree and MoveFiles; Pipeline;
   Decompress; DeviceSearch.
2. Done: the proofs of section 5, with a theorem for each safety property of the passing runs.
3. Left: abstract specifications: "every block is scanned once, in order" for ScanCache;
   "the set of digests" for CleanupDb; "the newest version" for RestoreFiles.

## 7. Not modelled

`src/rmdir.cpp` (`--remove-empty-dirs`: a shell script of `find`, `sort` and `rmdir`, which removes empty
directories only; its `echo -en` sets IFS to letters of names in shells whose `echo` knows no
`-e`), the lists of files and `INFO.TXT` that step 6
writes, `List` and `CSVExport` (they print what FileInfo returns), `VH_Extract` (one read and one
write) and `VH_PrintData`, the backup of `utf8len` between steps 2 and 4, the parsing of file lists and of the command line, the
wording of messages and the log, zlib, the terminal and the size of the device
(`src/ioctl.cpp`), and `src/utf8mac.cpp`, a conversion taken over from elsewhere.
ValidEncoding and ConvertFilename are verdicts of an entry (`valid`, `BadNames`).  Paths are
not cut at PATH_MAX_LENGTH.  In ScanCache the run in which the first cell of the
device is unreadable is left out (`FirstCellAssumption`): the program then reads behind its
cache, which is undefined.
