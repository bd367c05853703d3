---------------------------- MODULE MCDecompress ----------------------------
(***************************************************************************)
(* Small forks: up to MaxItems chunks that are compressed, with a marker   *)
(* inside or with half of one, or a whole one, at the end, or stored, also *)
(* with what looks like a marker at the end, or nothing of the kind,       *)
(* behind a table that may look like a marker, in front of nothing, of     *)
(* other data, or of a chunk of another file; and in forks of one chunk    *)
(* less, one or two bytes that cannot be read.                             *)
(***************************************************************************)
EXTENDS Decompress

CONSTANTS MaxItems

S1 == <<"78", "5e", "x">>
S2 == <<"78", "5e", "v", "78", "5e", "y">>
S3 == <<"78", "5e", "y", "78">>
S4 == <<"78", "5e", "u", "78", "5e">>
Raw == <<"ff", "78", "5e">>
Plain == <<"ff", "u">>
Long == <<"5e", "z", "x", "x", "x">>

MCMarker == <<"78", "5e">>
MCStreams == {S1, S2, S3, S4}

MCBytes == {"78", "5e", "u", "v", "x", "y", "z", "ff"}

NotCompressed == {Raw, Plain}

Items == MCStreams \cup NotCompressed \cup {Long}

Together(items) == FlattenSeq(items)

(* Where an item of a device is, and the streams and the stored chunks     *)
(* among the items.                                                        *)
PlaceOf(before, items, i) == before + 1 + Len(Together(SubSeq(items, 1, i - 1)))

Located(before, items) ==
  LET streams == SelectSeq([i \in DOMAIN items |-> i], LAMBDA i : items[i] \in MCStreams)
  IN  [k \in DOMAIN streams |->
         [at |-> PlaceOf(before, items, streams[k]), stream |-> items[streams[k]]]]

Stored(before, items) ==
  { [at |-> PlaceOf(before, items, i), bytes |-> items[i]] :
      i \in { i \in DOMAIN items : items[i] \in NotCompressed } }

ForkHead == <<"78", "5e", "x">>

MakeFork(table, items, after, bad) ==
  LET before == <<"z">> \o ForkHead \o table
      device == before \o Together(items) \o Together(after)
  IN  [ device |-> device, start |-> 2,
        size |-> Len(ForkHead \o table \o Together(items)),
        chunks |-> Located(Len(before), items \o after),
        stored |-> Stored(Len(before), items),
        bad |-> bad \cap DOMAIN device,
        cache |-> [c \in 0 .. CacheSize - 1 |-> IF c < 3 THEN S1[c + 1] ELSE "z"] ]

MakeForks(items_max, bads) ==
  { MakeFork(table, items, after, bad) :
      table \in { <<>>, <<"z">>, <<"78", "5e">> },
      items \in SeqOf(Items, items_max) \ {<<>>},
      after \in { <<>>, << <<"z">>, <<"z">>, <<"z">> >>, << <<"78">>, <<"5e">>, <<"z">> >>, <<S1>> },
      bad \in bads }

MCForks ==
  MakeForks(MaxItems, {{}})
    \cup MakeForks(MaxItems - 1, { {1, 2} } \cup { {a} : a \in 2 .. 13 })
=============================================================================
