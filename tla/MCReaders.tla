----------------------------- MODULE MCReaders -----------------------------
(***************************************************************************)
(* The three parts of the program that read a device through a buffer,     *)
(* each on its own small instances: the scan of step 1, the searches and   *)
(* the decompression.  An invocation runs one of them; the other two are   *)
(* at rest, in a state that has ended.                                     *)
(***************************************************************************)
EXTENDS MCScanCache, MCDeviceSearch, MCDecompress

ScanAtRest ==
  /\ bad = {} /\ pc = "done" /\ fofs = DeviceSize
  /\ num_bytes = 0 /\ file_offset = 0
  /\ cache_file_offset = 0 /\ cache_size = 0
  /\ cache_mem = [c \in 0 .. Window - 1 |-> None]
  /\ buffer = [b \in 0 .. 2 * BlockSize - 1 |-> None]
  /\ scanned = <<>> /\ fills = {}

SearchAtRest ==
  /\ command = [search |-> "find", first |-> FALSE, force |-> FALSE]
  /\ offset = 0 /\ device = <<"a", "a", "a">> /\ bad_cells = {}
  /\ search_pc = "done" /\ fpos = 0 /\ ofs = 0 /\ log = <<>>
  /\ search_buffer = [i \in 0 .. BufferSize - 1 |-> "a"]

UnpackAtRest ==
  /\ fork = MakeFork(<<>>, <<S1>>, <<>>, {})
  /\ unpack_pc = "done"
  /\ decompress_cache = fork.cache /\ decompress_cache_offset = 0
  /\ decompress_file_offset = fork.start
  /\ skipped = 0 /\ c2 = NoByte /\ bytes_left = fork.size
  /\ buffer_in = <<>> /\ out = <<>> /\ restored = FALSE

ReadersInit ==
  \/ Init /\ SearchAtRest /\ UnpackAtRest
  \/ SearchInit /\ ScanAtRest /\ UnpackAtRest
  \/ UnpackInit /\ ScanAtRest /\ SearchAtRest

ReadersNext ==
  \/ Next /\ UNCHANGED <<search_vars, unpack_vars>>
  \/ SearchNext /\ UNCHANGED <<vars, unpack_vars>>
  \/ UnpackNext /\ UNCHANGED <<vars, search_vars>>

readers_vars == <<vars, search_vars, unpack_vars>>

(* One thread in each of them.                                             *)
FairReaders ==
  ReadersInit /\ [][ReadersNext]_readers_vars /\ WF_readers_vars(ReadersNext)
=============================================================================
