---------------------------- MODULE DeviceSearch ----------------------------
(***************************************************************************)
(* The searches through a device: --find for bytes or a string (ByteScan,  *)
(* src/bytescan.cpp), --find-vh and --find-avh for volume headers          *)
(* (VH_FindHFSVolumeHeader, VH_FindHFSAlternateVolumeHeader, src/vh.cpp),  *)
(* and --find-eof for the magic bytes of the ExtentsOverflowFile           *)
(* (FindExtentsOverflowFile, src/eof.cpp).  All four are the same loop:    *)
(* read a buffer at fpos until pread64 returns 0, look at places of the    *)
(* buffer, move fpos; --find-avh moves it backwards.                       *)
(*                                                                         *)
(* Nothing looks at how much was read: behind the end of the device, and   *)
(* where it cannot be read, the buffer holds what it held before.  A cell  *)
(* is a byte, or a sector where volume headers are searched for.           *)
(***************************************************************************)
EXTENDS Integers, SequencesExt

CONSTANTS
  BufferSize,    \* the buffer of 1 MB
  EofBlockSize,  \* vh->blockSize, the step of --find-eof
  Modulus,       \* 2^64
  Cells,         \* what a device holds
  Needle,        \* the bytes searched for
  Devices,       \* per search, the devices to choose from
  Offsets,       \* -o
  BadCellSets,   \* the sets of unreadable cells to choose from
  Junk           \* per search, what the buffer on the stack may hold first

Searches == {"find", "find-eof", "find-vh", "find-avh"}

Headers == {"find-vh", "find-avh"}

ASSUME SearchAssumption ==
  /\ EofBlockSize \in Nat \ {0}
  /\ Needle \in Seq(Cells) \ {<<>>}
  /\ BufferSize \in Nat /\ BufferSize >= Len(Needle)
  /\ Offsets \subseteq Nat
  /\ Modulus \in Nat
  /\ Cells \cap {"h", "f"} = {}
  /\ \A m \in Searches : \A d \in Devices[m] :
       /\ d \in Seq(Cells)
       /\ 2 * (Len(d) + BufferSize) < Modulus
       /\ 2 * (Len(d) + EofBlockSize) < Modulus
       /\ \A o \in Offsets : o <= Len(d)

VARIABLES
  command,    \* the search, --first and --force
  offset,     \* -o
  device,     \* the cells, the one at address a is device[a + 1]
  bad_cells,  \* addresses that cannot be read
  search_pc,  \* "read", "scan", "done"
  fpos,
  search_buffer,
  ofs,        \* the next place of the buffer to look at
  log         \* what was reported: where, and whether its data was garbled

input == <<command, offset, device, bad_cells>>
search_vars == <<command, offset, device, bad_cells, search_pc, fpos, search_buffer,
                 ofs, log>>

-----------------------------------------------------------------------------
Search == command.search

ReadSize == IF Search = "find-eof" THEN Len(Needle) ELSE BufferSize

Step == IF Search = "find-eof" THEN EofBlockSize ELSE BufferSize

Width == IF Search \in Headers THEN 1 ELSE Len(Needle)

(* Slip of Places: the last part of the buffer is left to the next one.    *)
Places_Less == IF Search = "find" THEN BufferSize - Len(Needle) - 1 ELSE ReadSize - Width

(* The places looked at are 0 .. Places - 1: --find leaves the last place  *)
(* that has room for the bytes out.                                        *)
Places == IF Search = "find" THEN BufferSize - Len(Needle) ELSE ReadSize - Width + 1

(* fpos is an unsigned number of 64 bits.                                  *)
Wrap(n) == n % Modulus

ReadFailed == -1

ReadableCell(a) == a \in 0 .. Len(device) - 1 /\ a \notin bad_cells

(* What pread64 returns: an offset with the highest bit is negative there. *)
PReadCells(at) ==
  IF 2 * at < Modulus /\ at >= Len(device) THEN 0
  ELSE IF ~ReadableCell(at) THEN ReadFailed
  ELSE CHOOSE n \in 1 .. ReadSize :
         /\ \A a \in at .. at + n - 1 : ReadableCell(a)
         /\ n < ReadSize => ~ReadableCell(at + n)

(* A volume header: VH_SwapBytes swaps its numbers where it lies in the    *)
(* buffer, and back again when it is found there a second time.  One that  *)
(* another system mounted last is shown with --force only.                 *)
Swapped == [ H |-> "h", h |-> "H", F |-> "f", f |-> "F" ]

Shown == IF command.force THEN {"H", "h", "F", "f"} ELSE {"H", "h"}

IsHit(cells) == IF Search \in Headers THEN cells[1] \in Shown ELSE cells = Needle

(* What lies at a place of the buffer.                                     *)
At(i) == [k \in 1 .. Width |-> search_buffer[i + k - 1]]

Stop == Search \in Headers /\ command.first

SearchInit ==
  /\ command \in [search : Searches, first : BOOLEAN, force : BOOLEAN]
  /\ Search \notin Headers => ~command.first /\ ~command.force
  /\ offset \in Offsets
  /\ device \in Devices[Search]
  /\ bad_cells \in BadCellSets
  /\ search_pc = "read" /\ ofs = 0 /\ log = <<>>
  /\ fpos = IF Search = "find-avh" THEN Wrap(Len(device) - offset - BufferSize) ELSE offset
  /\ search_buffer \in { [i \in 0 .. ReadSize - 1 |-> j] : j \in Junk[Search] }

Read ==
  /\ search_pc = "read"
  /\ PReadCells(fpos) # 0
  /\ LET n == PReadCells(fpos)
     IN  search_buffer' = [i \in DOMAIN search_buffer |->
                              IF i < n THEN device[fpos + i + 1] ELSE search_buffer[i]]
  /\ search_pc' = "scan" /\ ofs' = 0
  /\ UNCHANGED <<input, fpos, log>>

ReadEnds ==
  /\ search_pc = "read"
  /\ PReadCells(fpos) = 0
  /\ search_pc' = "done"
  /\ UNCHANGED <<input, fpos, search_buffer, ofs, log>>

Pass ==
  /\ search_pc = "scan" /\ ofs < Places
  /\ ~IsHit(At(ofs))
  /\ ofs' = ofs + 1
  /\ UNCHANGED <<input, search_pc, fpos, search_buffer, log>>

(* Slip of Report: one header is enough for a buffer.                      *)
Report_One ==
  /\ search_pc = "scan" /\ ofs < Places
  /\ IsHit(At(ofs))
  /\ log' = Append(log, [at |-> Wrap(fpos + ofs), garbled |-> At(ofs)[1] \in {"h", "f"}])
  /\ search_buffer' = IF Search \in Headers THEN [search_buffer EXCEPT ![ofs] = Swapped[@]]
                                             ELSE search_buffer
  /\ ofs' = IF Search \in Headers THEN Places ELSE ofs + 1
  /\ search_pc' = IF Stop THEN "done" ELSE "scan"
  /\ UNCHANGED <<input, fpos>>

(* A hit; with --first it is the last one.                                 *)
Report ==
  /\ search_pc = "scan" /\ ofs < Places
  /\ IsHit(At(ofs))
  /\ log' = Append(log, [at |-> Wrap(fpos + ofs), garbled |-> At(ofs)[1] \in {"h", "f"}])
  /\ search_buffer' = IF Search \in Headers THEN [search_buffer EXCEPT ![ofs] = Swapped[@]]
                                             ELSE search_buffer
  /\ ofs' = ofs + 1
  /\ search_pc' = IF Stop THEN "done" ELSE "scan"
  /\ UNCHANGED <<input, fpos>>

(* Slip of Advance: fpos has a sign.                                       *)
Advance_Signed ==
  /\ search_pc = "scan" /\ ofs >= Places
  /\ fpos' = IF Search = "find-avh" THEN fpos - Step ELSE fpos + Step
  /\ search_pc' = "read"
  /\ UNCHANGED <<input, search_buffer, ofs, log>>

(* Slip of Advance: going backwards does not go below the first buffer.    *)
Advance_Clamped ==
  /\ search_pc = "scan" /\ ofs >= Places
  /\ fpos' = IF Search # "find-avh" THEN Wrap(fpos + Step)
             ELSE IF fpos < Step THEN 0 ELSE fpos - Step
  /\ search_pc' = "read"
  /\ UNCHANGED <<input, search_buffer, ofs, log>>

(* Slip of Advance: a buffer begins with the last cell of the one before.  *)
Advance_Overlap ==
  /\ search_pc = "scan" /\ ofs >= Places
  /\ fpos' = IF Search = "find-avh" THEN Wrap(fpos - Step + 1) ELSE Wrap(fpos + Step - 1)
  /\ search_pc' = "read"
  /\ UNCHANGED <<input, search_buffer, ofs, log>>

Advance ==
  /\ search_pc = "scan" /\ ofs >= Places
  /\ fpos' = IF Search = "find-avh" THEN Wrap(fpos - Step) ELSE Wrap(fpos + Step)
  /\ search_pc' = "read"
  /\ UNCHANGED <<input, search_buffer, ofs, log>>

SearchNext == Read \/ ReadEnds \/ Pass \/ Report \/ Advance

SearchSpec == SearchInit /\ [][SearchNext]_search_vars

FairSearchSpec == SearchSpec /\ WF_search_vars(SearchNext)

-----------------------------------------------------------------------------
(* Properties.                                                             *)

(* Shape of the state of a search: fpos stays a number of 64 bits, and no  *)
(* place is looked at behind the buffer.                                   *)
SearchTypeOK ==
  /\ search_pc \in {"read", "scan", "done"}
  /\ fpos \in 0 .. Modulus - 1
  /\ DOMAIN search_buffer = 0 .. ReadSize - 1
  /\ ofs \in 0 .. ReadSize
  /\ \A k \in DOMAIN log : log[k].at \in 0 .. Modulus - 1 /\ log[k].garbled \in BOOLEAN

(* Where the buffer begins that a place is looked at in, for a search that *)
(* goes forwards from the offset, or backwards from the end.               *)
Begin(p) ==
  IF Search = "find-avh"
  THEN LET e == Len(device) - offset IN e - ((e - 1 - p) \div Step + 1) * Step
  ELSE p - ((p - offset) % Step)

(* A search looks at this place, and everything in its buffer up to there  *)
(* can be read.                                                            *)
Seen(p) ==
  /\ p \in IF Search = "find-avh" THEN 0 .. Len(device) - offset - 1
                                  ELSE offset .. Len(device) - 1
  /\ Begin(p) >= 0
  /\ CASE Search = "find" -> p + Len(Needle) < Begin(p) + BufferSize
       [] Search = "find-eof" -> p = Begin(p)
       [] OTHER -> TRUE
  /\ \A a \in Begin(p) .. p + Width - 1 : ReadableCell(a)

(* What is searched for lies at this address of the device.                *)
HitAt(p) == IsHit([k \in 1 .. Width |-> device[p + k]])

(* The hits of a device a search looks at: all of them, but for those that *)
(* span two buffers or begin at the last place of one (--find), do not     *)
(* begin a block (--find-eof), lie in the first part of the device, less   *)
(* than a buffer (--find-avh), or behind something that cannot be read.    *)
Hits == { p \in 0 .. Len(device) - 1 : Seen(p) /\ HitAt(p) }

Reported == { log[k].at : k \in DOMAIN log }

(* A search is wrong only about places it could not read: what is reported *)
(* anywhere else lies there, with its data as it is, and is reported once. *)
(* What an earlier read left in the buffer is reported again in the wrong  *)
(* place only behind an unreadable cell or the end of the device.          *)
ReportsRight ==
  \A k \in DOMAIN log :
    Seen(log[k].at) =>
      /\ log[k].at \in Hits
      /\ ~log[k].garbled
      /\ \A l \in DOMAIN log : log[l].at = log[k].at => l = k

(* A search that has ended has reported every hit it looks at; forwards,   *)
(* in the order of the device.  With --first it has reported one, and no   *)
(* hit lies in front of it, going forwards, or in a buffer behind its own, *)
(* going backwards.  (Which one of the hits of a buffer it is, going       *)
(* backwards, is left open.)                                               *)
HitsReported ==
  search_pc = "done" =>
    /\ ~Stop => Hits \subseteq Reported
    /\ Search # "find-avh" =>
         \A k, l \in DOMAIN log : k < l => log[k].at < log[l].at
    /\ Stop /\ log = <<>> => Hits = {}
    /\ Stop /\ log # <<>> =>
         /\ Len(log) = 1
         /\ Search = "find-vh" => \A p \in Hits : log[1].at <= p
         /\ Search = "find-avh" /\ Seen(log[1].at) =>
              \A p \in Hits : Begin(p) <= Begin(log[1].at)

(* --find-avh --first stops after the first header, and the search goes    *)
(* from the end of the disk to the beginning (doc/en/hfsprescue.txt:825,   *)
(* :832): no other one lies behind it.  The buffers come in that order,    *)
(* but each is scanned forwards.                                           *)
FirstFromTheEnd ==
  search_pc = "done" /\ Search = "find-avh" /\ Stop =>
    \A k \in DOMAIN log : Seen(log[k].at) => \A p \in Hits : p <= log[k].at

(* --find finds the bytes wherever they lie behind the offset, on a device *)
(* that can be read (doc/en/hfsprescue.txt:340, :1100).  ByteScan does not *)
(* look at the last place of a buffer, nor at places whose bytes end in    *)
(* the next one.                                                           *)
FindsTheBytes ==
  search_pc = "done" /\ Search = "find" /\ bad_cells = {} =>
    { p \in offset .. Len(device) - Width : HitAt(p) } \subseteq Reported

(* A search ends, over cells that cannot be read as well.  Backwards it    *)
(* ends because fpos wraps and at last is an address behind the device:    *)
(* of 2^64 it goes through half.                                           *)
SearchEnds == <>(search_pc = "done")
=============================================================================
