----------------------------- MODULE Decompress -----------------------------
(***************************************************************************)
(* RestoreCompressedFile (src/decompress.cpp).  A compressed file is a     *)
(* resource fork: a head, a table, chunks of 64 KB and an end.  The        *)
(* program reads it byte by byte through a cache, takes 78 5e for the      *)
(* beginning of a chunk, collects what follows, and tries to inflate it    *)
(* whenever another 78 5e, or the last byte, has been read.                *)
(*                                                                         *)
(* What can be inflated is one of a set of streams; inflating ignores what *)
(* lies behind the end of a stream.  A chunk can also be stored as it is;  *)
(* the function knows no such chunks.  The file is the sequence of the     *)
(* streams written to it.  The program does not notice that a read failed: *)
(* the cache keeps what it had.                                            *)
(***************************************************************************)
EXTENDS Integers, SequencesExt

CONSTANTS
  Bytes,
  CacheSize,   \* sizeof (decompress_cache)
  HeadSize,    \* 0x100, the bytes of the head
  BufferMax,   \* 65536
  Marker,      \* 78 5e
  NoByte,      \* what c1 and c2 are set to
  Streams,     \* what can be inflated
  Forks        \* the forks to choose from

(* The stream begins at this byte of the device.                           *)
Lies(f, s, a) ==
  a + Len(s) - 1 <= Len(f.device) /\ SubSeq(f.device, a, a + Len(s) - 1) = s

(* A fork: its first byte in the device, its size, the streams of the      *)
(* device behind its head, in order, which are the chunks of the fork that *)
(* are compressed and any of another file behind it, and the chunks of the *)
(* fork that are stored, apart from them.  Inside a stream something may look   *)
(* like another one, but for what ends behind it or with its last two      *)
(* bytes.  The blocks of a fork lie together, as an entry whose first      *)
(* extent does not hold the whole fork is invalid, and a fork of size 0 is *)
(* not decompressed.                                                       *)
Fork(f) ==
  LET at(i) == f.chunks[i].at
      end(i) == f.chunks[i].at + Len(f.chunks[i].stream)
  IN  /\ f.start \in Nat \ {0} /\ f.size \in Nat \ {0}
      /\ f.device \in Seq(Bytes) /\ f.cache \in [0 .. CacheSize - 1 -> Bytes]
      /\ f.bad \subseteq DOMAIN f.device
      /\ f.chunks \in Seq([at : Nat, stream : Streams])
      /\ \A i \in DOMAIN f.chunks :
           /\ Lies(f, f.chunks[i].stream, at(i))
           /\ at(i) >= IF i = 1 THEN f.start + HeadSize ELSE end(i - 1)
      /\ f.stored \subseteq [at : f.start + HeadSize .. f.start + f.size - 1,
                             bytes : Seq(Bytes) \ {<<>>}]
      /\ \A c \in f.stored :
           /\ Lies(f, c.bytes, c.at) /\ c.at + Len(c.bytes) <= f.start + f.size
           /\ \A i \in DOMAIN f.chunks :
                c.at + Len(c.bytes) <= at(i) \/ end(i) <= c.at
      /\ \A a \in f.start + HeadSize .. Len(f.device) : \A s \in Streams :
           Lies(f, s, a) =>
             \E i \in DOMAIN f.chunks : at(i) = a \/ (at(i) < a /\ a + 2 < end(i))

ASSUME SizesAssumption ==
  /\ CacheSize \in Nat \ {0}
  /\ HeadSize \in Nat \ {0}
  /\ BufferMax \in Nat /\ BufferMax > 1
  /\ Marker \in Seq(Bytes) /\ Len(Marker) = 2 /\ NoByte \notin {Marker[1], Marker[2]}

(* A stream says itself where it ends, and there is something in it.       *)
ASSUME StreamsAssumption ==
  /\ Streams \subseteq Seq(Bytes)
  /\ \A s \in Streams :
       /\ Len(s) > 2 /\ IsPrefix(Marker, s)
       /\ \A t \in Streams : IsPrefix(s, t) => s = t

ASSUME ForksAssumption == \A f \in Forks : Fork(f)

VARIABLES
  fork,                     \* the arguments, and the device they point into
  unpack_pc,                \* "open"; "head": skip bytes; "find": find first
                            \* block; "blocks": decompress blocks; "done"
  decompress_cache,
  decompress_cache_offset,
  decompress_file_offset,
  skipped,                  \* i, bytes of the head
  c2,                       \* the byte before
  bytes_left,
  buffer_in,
  out,                      \* the file
  restored                  \* what the function returns

reader == <<decompress_cache, decompress_cache_offset, decompress_file_offset>>
unpack_vars == <<fork, unpack_pc, reader, skipped, c2, bytes_left, buffer_in, out, restored>>

-----------------------------------------------------------------------------
(* What pread64 returns when the first byte cannot be read.                *)
Failed == -1

ReadableByte(f, a) == a \in DOMAIN f.device \ f.bad

(* What pread64 of a cache at a place returns: the bytes up to the first   *)
(* one that cannot be read, 0 behind the end of the device.                *)
PReadBytes(at) ==
  IF at > Len(fork.device) THEN 0
  ELSE IF ~ReadableByte(fork, at) THEN Failed
  ELSE CHOOSE n \in 1 .. CacheSize :
         /\ \A a \in at .. at + n - 1 : ReadableByte(fork, a)
         /\ n < CacheSize => ~ReadableByte(fork, at + n)

(* Slip of FillDecompressCache: it reads where the last one began.         *)
FillDecompressCache_Behind(at) ==
  LET n == PReadBytes(at) IN
  /\ decompress_cache' = [c \in DOMAIN decompress_cache |->
                            IF c < n THEN fork.device[at + c] ELSE decompress_cache[c]]
  /\ decompress_file_offset' = IF n > 0 THEN at + CacheSize - 1 ELSE at + n

(* FillDecompressCache: a failed read moves the offset as well, by -1.     *)
FillDecompressCache(at) ==
  LET n == PReadBytes(at) IN
  /\ decompress_cache' = [c \in DOMAIN decompress_cache |->
                            IF c < n THEN fork.device[at + c] ELSE decompress_cache[c]]
  /\ decompress_file_offset' = at + n

Char == decompress_cache[decompress_cache_offset]

(* Slip of GetChar: the cache is filled one byte late.                     *)
GetChar_Late ==
  IF decompress_cache_offset >= CacheSize
  THEN decompress_cache_offset' = 0 /\ FillDecompressCache(decompress_file_offset)
  ELSE /\ decompress_cache_offset' = decompress_cache_offset + 1
       /\ UNCHANGED <<decompress_cache, decompress_file_offset>>

(* Slip of GetChar: the last byte of the cache is not used.                *)
GetChar_Short ==
  IF decompress_cache_offset + 2 >= CacheSize
  THEN decompress_cache_offset' = 0 /\ FillDecompressCache(decompress_file_offset)
  ELSE /\ decompress_cache_offset' = decompress_cache_offset + 1
       /\ UNCHANGED <<decompress_cache, decompress_file_offset>>

(* GetChar, besides the byte it returns.                                   *)
GetChar ==
  IF decompress_cache_offset + 1 >= CacheSize
  THEN decompress_cache_offset' = 0 /\ FillDecompressCache(decompress_file_offset)
  ELSE /\ decompress_cache_offset' = decompress_cache_offset + 1
       /\ UNCHANGED <<decompress_cache, decompress_file_offset>>

(* What uncompress makes of a buffer, if it is Z_OK.                       *)
Uncompress(buffer) == { s \in Streams : IsPrefix(s, buffer) }

AtMarker == <<c2, Char>> = Marker

UnpackInit ==
  /\ fork \in Forks
  /\ unpack_pc = "open"
  /\ decompress_cache = fork.cache /\ decompress_cache_offset = 0
  /\ decompress_file_offset = fork.start
  /\ skipped = 0 /\ c2 = NoByte
  /\ bytes_left = fork.size
  /\ buffer_in = <<>> /\ out = <<>> /\ restored = FALSE

(* fopen and the first FillDecompressCache.                                *)
Open ==
  /\ unpack_pc = "open"
  /\ unpack_pc' = "head"
  /\ FillDecompressCache(decompress_file_offset)
  /\ UNCHANGED <<fork, decompress_cache_offset, skipped, c2, bytes_left, buffer_in, out, restored>>

(* fopen fails: the function returns FALSE, or the program ends.           *)
OpenFails ==
  /\ unpack_pc = "open"
  /\ unpack_pc' = "done"
  /\ UNCHANGED <<fork, reader, skipped, c2, bytes_left, buffer_in, out, restored>>

SkipHead ==
  /\ unpack_pc = "head"
  /\ GetChar
  /\ skipped' = skipped + 1
  /\ unpack_pc' = IF skipped' = HeadSize THEN "find" ELSE "head"
  /\ UNCHANGED <<fork, c2, bytes_left, buffer_in, out, restored>>

(* Slip of FindFirst: the bytes of the search are not counted.             *)
FindFirst_Uncounted ==
  /\ unpack_pc = "find"
  /\ GetChar
  /\ c2' = Char
  /\ unpack_pc' = IF AtMarker THEN "blocks" ELSE "find"
  /\ buffer_in' = IF unpack_pc' = "blocks" THEN Marker ELSE buffer_in
  /\ UNCHANGED <<fork, skipped, bytes_left, out, restored>>

(* A turn of the search for the first block.  The end is looked at first.  *)
FindFirst ==
  /\ unpack_pc = "find"
  /\ GetChar
  /\ c2' = Char
  /\ bytes_left' = bytes_left - 1
  /\ unpack_pc' = IF bytes_left' = 0 THEN "done" ELSE IF AtMarker THEN "blocks" ELSE "find"
  /\ buffer_in' = IF unpack_pc' = "blocks" THEN Marker ELSE buffer_in
  /\ UNCHANGED <<fork, skipped, out, restored>>

(* One more byte of a block.                                               *)
Taken == Append(buffer_in, Char)

(* The buffer is inflated at a marker and at the last byte.                *)
Tried == bytes_left = 1 \/ AtMarker

(* bytes_left = 0 stops both loops when the buffer is too long, also when  *)
(* it has just been inflated.                                              *)
BytesLeft == IF Len(Taken) > BufferMax THEN 0 ELSE bytes_left - 1

TakeByte ==
  /\ unpack_pc = "blocks"
  /\ GetChar
  /\ c2' = Char
  /\ bytes_left' = BytesLeft
  /\ unpack_pc' = IF bytes_left' = 0 THEN "done" ELSE "blocks"
  /\ restored' = (unpack_pc' = "done")
  /\ UNCHANGED <<fork, skipped>>

Collect ==
  /\ TakeByte
  /\ ~Tried \/ Uncompress(Taken) = {}
  /\ buffer_in' = Taken
  /\ UNCHANGED out

(* Slip of Inflate: the next block begins behind its marker.               *)
Inflate_NoMarker ==
  /\ TakeByte
  /\ Tried
  /\ \E s \in Uncompress(Taken) : out' = Append(out, s)
  /\ buffer_in' = <<>>

(* The block is written, and the next one begins with the marker just read.*)
Inflate ==
  /\ TakeByte
  /\ Tried
  /\ \E s \in Uncompress(Taken) : out' = Append(out, s)
  /\ buffer_in' = Marker

UnpackNext == Open \/ OpenFails \/ SkipHead \/ FindFirst \/ Collect \/ Inflate

UnpackSpec == UnpackInit /\ [][UnpackNext]_unpack_vars

FairUnpackSpec == UnpackSpec /\ WF_unpack_vars(UnpackNext)

-----------------------------------------------------------------------------
(* Properties.                                                             *)

(* Shape and bounds of the variables of RestoreCompressedFile: the buffer  *)
(* has room for its 70 KB and gets at most one byte more than BufferMax,   *)
(* and failed reads move the offset back by fewer bytes than were taken.   *)
UnpackTypeOK ==
  /\ unpack_pc \in {"open", "head", "find", "blocks", "done"}
  /\ decompress_cache_offset \in 0 .. CacheSize - 1
  /\ skipped \in 0 .. HeadSize
  /\ bytes_left \in 0 .. fork.size
  /\ decompress_file_offset \in Int
  /\ decompress_file_offset >= fork.start - 1 - (skipped + fork.size - bytes_left)
  /\ decompress_file_offset <= fork.start \/ decompress_file_offset <= Len(fork.device) + 1
  /\ Len(buffer_in) <= BufferMax + 1
  /\ out \in Seq(Streams)
  /\ restored \in BOOLEAN

(* The bytes the function reads.  The head is not counted, so that it      *)
(* reads as many bytes behind the fork.                                    *)
FirstByte == fork.start + HeadSize
LastByte == fork.start + HeadSize + fork.size - 1

ReadableTo(a) == \A b \in fork.start .. a : ReadableByte(fork, b)

chunks == fork.chunks

Compressed == { [at |-> chunks[i].at, bytes |-> chunks[i].stream] : i \in DOMAIN chunks }
Pieces == Compressed \cup fork.stored

(* What has been written are chunks, each once and in their order, and     *)
(* none of those in some set lies in front of one that has been written    *)
(* and is not written itself.                                              *)
NoneLeftOut(some) ==
  \E place \in [DOMAIN out -> { p.at : p \in Pieces }] :
    /\ \A k \in DOMAIN out :
         /\ [at |-> place[k], bytes |-> out[k]] \in Pieces
         /\ \A l \in 1 .. k - 1 : place[l] < place[k]
    /\ \A p \in some, k \in DOMAIN out :
         p.at <= place[k] => \E l \in DOMAIN out : place[l] = p.at

(* As long as everything can be read, RestoreCompressedFile leaves no      *)
(* compressed chunk out and goes on behind it, and writes none twice or    *)
(* out of order: bytes that look like a marker inside a chunk, in one that *)
(* is stored or in the table lose the chunks that follow.  (Behind the     *)
(* last one it may write those of another file that lie whole in what is   *)
(* read behind the fork.)  Whether stored chunks are written is left open. *)
NothingSkipped == ReadableTo(LastByte) => NoneLeftOut(Compressed)

InFork(i) == chunks[i].at + Len(chunks[i].stream) <= fork.start + fork.size

(* In a fork that has no other file's chunks behind it no chunk at all is  *)
(* left out in the middle, as the file would not be the file: compression  *)
(* in the resource fork is supported (doc/en/hfsprescue.txt:63).           *)
(* RestoreCompressedFile knows 78 5e only: it inflates the chunk in front  *)
(* of a stored one together with it, and inflating ignores what is behind  *)
(* the end of a stream.                                                    *)
StoredChunksToo ==
  ReadableTo(LastByte) /\ (\A i \in DOMAIN chunks : InFork(i)) => NoneLeftOut(Pieces)

MarkerAt(a) == a < Len(fork.device) /\ SubSeq(fork.device, a, a + 1) = Marker

(* The byte at which chunk i should be inflated, at the latest.            *)
Inflated(i) ==
  IF i < Len(chunks) /\ chunks[i + 1].at + 1 <= LastByte THEN chunks[i + 1].at + 1 ELSE LastByte

(* The first place at which a marker would be taken for the beginning of   *)
(* chunk i: one that ends with the chunk before it, at the earliest.       *)
Behind(i) == IF i = 1 THEN FirstByte ELSE chunks[i - 1].at + Len(chunks[i - 1].stream) - 2

(* Chunk i and the ones before it can be had: they lie whole in what is    *)
(* read, up to the marker behind them, nothing in front of one of them     *)
(* looks like a marker, and none is too long with what lies behind it,     *)
(* which may be a stored chunk.                                            *)
Sound(i) ==
  /\ ReadableTo(Inflated(i))
  /\ \A j \in 1 .. i :
       /\ chunks[j].at + Len(chunks[j].stream) - 1 <= LastByte
       /\ \A a \in Behind(j) .. chunks[j].at - 1 : ~MarkerAt(a)
       /\ Inflated(j) - chunks[j].at + 1 <= BufferMax

(* In the end RestoreCompressedFile has written, in order, every           *)
(* compressed chunk of the fork in front of the first place that is        *)
(* damaged, wherever the windows of the cache end and whatever inside a    *)
(* chunk, but for its end, looks like a marker.  If all chunks of the fork *)
(* are such ones it returns TRUE.                                          *)
SoundChunksWritten ==
  LET ours == { i \in DOMAIN chunks : InFork(i) }
      sound == { i \in ours : Sound(i) }
  IN  unpack_pc = "done" /\ skipped = HeadSize =>
        /\ \E where \in [sound -> DOMAIN out] :
             \A i \in sound :
               /\ out[where[i]] = chunks[i].stream
               /\ \A j \in sound : j < i => where[j] < where[i]
        /\ fork.stored = {} /\ sound = ours /\ ours # {} => restored

(* The loops end also when the cache is not filled any more: each turn     *)
(* counts.                                                                 *)
UnpackEnds == <>(unpack_pc = "done")
=============================================================================
