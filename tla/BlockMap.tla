------------------------------- MODULE BlockMap -------------------------------
(***************************************************************************)
(* The map file between src/nvmetoy.sh and the REPL: emit_block_map | tee  *)
(* truncates it and writes it piece by piece, FileBlocks::parse of         *)
(* src/src/bin/nvmetoy_repl.rs reads it line by line, and then             *)
(* FileBlocks::check walks the extents that parse has collected, once for  *)
(* each command.  All invocations use one path, so a REPL may load a map   *)
(* that is still being written, or one a failed invocation left            *)
(* unfinished; its last line may be cut anywhere.                          *)
(*                                                                         *)
(* A line is the sequence of its fields.  A number is itself; a word is a  *)
(* negative number.  Two things are taken to hold: the file is read at one *)
(* instant (BufReader fetches 8 KiB at a time, which holds some hundred    *)
(* extents), and the writer that another one overtakes writes no more.     *)
(***************************************************************************)
EXTENDS FileBlocks, SequencesExt

CONSTANT Maps  \* what files may be resolved to: lba_size, extents

HEADER == -1    \* nvmetoy-block-map
SIZE_KEY == -2  \* device_lba_size
PARTIAL == -3   \* the beginning of a word

ASSUME MapsAssumption ==
  \A m \in Maps : m.lba_size \in Lbas /\ m.extents \in Seq(Lbas \X Lbas \X {0, 1})

VARIABLES
  map,       \* the map being written
  written,   \* its lines that are complete in the file
  cut,       \* what the file has of the next line
  from, complete,  \* history: the map loaded, and whether it was all there
  rest,      \* lines still to be parsed
  device_lba_size

fileVars == <<map, written, cut>>
parseVars == <<from, complete, rest, device_lba_size>>
mapVars == <<fileVars, parseVars, vars>>

LinesOf(m) == <<<<HEADER, 1>>, <<SIZE_KEY, m.lba_size>>>> \o m.extents

\* The lines of a file of which w are complete and the next one is there in part.
TextOf(m, w, part) == Append(SubSeq(LinesOf(m), 1, w), part)

\* The extents that the lines of a file describe.
ExtentOf(line) == [device_lba |-> line[1], lba_count |-> line[2]]
ExtentsOf(m) == [i \in DOMAIN m.extents |-> ExtentOf(m.extents[i])]

MapInit ==
  /\ map \in Maps
  /\ written = 0 /\ cut = << >>
  /\ pc = "idle"
  /\ from = map /\ complete = FALSE
  /\ rest = << >>
  /\ device_lba_size = 0 /\ extents = << >>
  /\ device_lba = 0 /\ count = 0 /\ end = 0 /\ covered = 0
  /\ verdict = "none"

------------------------------------------------------------------------------
(* emit_block_map | tee *)

\* A field of which only some leading characters have arrived.
PartsOf(field) == IF field < 0 THEN {field, PARTIAL}
                  ELSE {field} \cup ({field \div d : d \in {10, 100, 1000}} \ {0})

\* The ways a line may be cut short.
CutsOf(line) ==
  {c \in UNION {{Append(SubSeq(line, 1, n - 1), part) : part \in PartsOf(line[n])}
                  : n \in DOMAIN line} : c # line}

\* Another invocation's tee opens the file.
Truncate(m) ==
  /\ map' = m
  /\ written' = 0 /\ cut' = << >>
  /\ UNCHANGED <<parseVars, vars>>

WritePart ==
  /\ written < Len(LinesOf(map))
  /\ cut = << >>
  /\ cut' \in CutsOf(LinesOf(map)[written + 1])
  /\ UNCHANGED <<map, written, parseVars, vars>>

WriteLine ==
  /\ written < Len(LinesOf(map))
  /\ written' = written + 1 /\ cut' = << >>
  /\ UNCHANGED <<map, parseVars, vars>>

------------------------------------------------------------------------------
(* FileBlocks::parse *)

Load ==
  /\ pc = "idle"
  /\ rest' = TextOf(map, written, cut)
  /\ from' = map
  /\ complete' = (written = Len(LinesOf(map)))
  /\ device_lba_size' = 0 /\ extents' = << >>
  /\ pc' = "parsing"
  /\ UNCHANGED <<fileVars, device_lba, count, end, covered, verdict>>

\* Mutants: the flag is optional; an extent that was never written is no extent.
IsExtentOrFlagless(line) == Len(line) \in {2, 3} /\ line[1] \in Lbas
IsWrittenExtent(line) == Len(line) = 3 /\ line[1] \in Lbas /\ line[3] = 0

IsIgnored(line) == line = << >> \/ line = <<HEADER, 1>>
IsSize(line) == Len(line) = 2 /\ line[1] = SIZE_KEY /\ line[2] \in Lbas
IsExtent(line) ==
  Len(line) = 3 /\ line[1] \in Lbas /\ line[2] \in Lbas /\ line[3] \in 0 .. 255

\* Every other line is malformed, or has a field that does not parse.
ParseLine ==
  LET line == Head(rest)
  IN /\ pc = "parsing" /\ rest # << >>
     /\ \/ /\ IsIgnored(line)
           /\ UNCHANGED <<pc, device_lba_size, extents>>
        \/ /\ IsSize(line)
           /\ device_lba_size' = line[2]
           /\ UNCHANGED <<pc, extents>>
        \/ /\ IsExtent(line)
           /\ extents' = Append(extents, ExtentOf(line))
           /\ UNCHANGED <<pc, device_lba_size>>
        \/ /\ ~ (IsIgnored(line) \/ IsSize(line) \/ IsExtent(line))
           /\ pc' = "error"
           /\ UNCHANGED <<device_lba_size, extents>>
     /\ rest' = Tail(rest)
     /\ UNCHANGED <<fileVars, from, complete, device_lba, count, end, covered,
                    verdict>>

ParseEnds ==
  /\ pc = "parsing" /\ rest = << >>
  /\ pc' = "loaded"
  /\ UNCHANGED <<fileVars, parseVars, extents, device_lba, count, end, covered,
                 verdict>>

------------------------------------------------------------------------------
(* FileBlocks::check, for one command after another *)

Ask(lba, n) ==
  /\ pc \in {"loaded", "done"}
  /\ device_lba' = lba /\ count' = n
  /\ end' = 0 /\ covered' = 0
  /\ pc' = "start" /\ verdict' = "none"
  /\ UNCHANGED <<fileVars, parseVars, extents>>

CheckStep == Next /\ UNCHANGED <<fileVars, parseVars>>

MapNext ==
  \/ \E m \in Maps : Truncate(m)
  \/ WritePart \/ WriteLine
  \/ Load \/ ParseLine \/ ParseEnds
  \/ \E lba, n \in Lbas : Ask(lba, n)
  \/ CheckStep

MapSpec == MapInit /\ [][MapNext]_mapVars

------------------------------------------------------------------------------
(* Properties *)

Loaded == pc \in {"loaded", "start", "walk", "done"}

\* A map that loads while it is being written gives extents of one file only and
\* none that was cut short, and no extents before the block size they count in.
LoadsPrefix ==
  Loaded => /\ IsPrefix(extents, ExtentsOf(from))
            /\ extents # << >> => device_lba_size = from.lba_size

\* A map that is all there loads, with every extent in order.
LoadsComplete ==
  complete /\ (Loaded \/ pc = "error") =>
    Loaded /\ extents = ExtentsOf(from) /\ device_lba_size = from.lba_size

\* The blocks of the file that a map describes.
BlocksOf(m) ==
  UNION {line[1] .. line[1] + line[2] - 1 : line \in Range(m.extents)}

\* Whatever has become of the map in the meantime, and however little of it was
\* there when it was loaded: check accepts blocks of the one file it was of.
AcceptsOnlyTheMapped == verdict = "ok" => Asked \subseteq BlocksOf(from)

\* What there may be of the line after w complete ones.
PartAfter(m, w) ==
  {<< >>} \cup (IF w < Len(LinesOf(m)) THEN CutsOf(LinesOf(m)[w + 1]) ELSE {})

\* The file holds a beginning of the map being written.
FileInvariant ==
  /\ map \in Maps
  /\ written \in 0 .. Len(LinesOf(map))
  /\ cut \in PartAfter(map, written)

\* Of w lines and the part c of the next one, k have been parsed.
ParsedUpTo(k, w, c) ==
  /\ rest = SubSeq(TextOf(from, w, c), k + 1, w + 1)
  /\ extents = SubSeq(ExtentsOf(from), 1, (IF k <= w THEN k ELSE w) - 2)
  /\ k >= 2 /\ w >= 2 => device_lba_size = from.lba_size
  /\ complete <=> w = Len(LinesOf(from))

\* Where parse is in the file that it reads, and check in what that gave.
ParseInvariant ==
  /\ from \in Maps
  /\ extents \in Seq(Extent)
  /\ pc \in {"idle", "parsing", "error"} \/ Loaded
  /\ pc = "parsing" =>
       \E w \in 0 .. Len(LinesOf(from)) : \E k \in 0 .. w + 1 :
         \E c \in PartAfter(from, w) : ParsedUpTo(k, w, c)
  /\ pc # "done" => verdict = "none"
  /\ pc \in {"start", "walk", "done"} => WalkInvariant

\* The invariant of the whole: a prefix loads because parse is k lines into some
\* w lines and a part of one map, whatever is written meanwhile.
LoadInvariant ==
  FileInvariant /\ ParseInvariant /\ LoadsPrefix /\ LoadsComplete
=============================================================================
