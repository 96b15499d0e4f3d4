------------------------------- MODULE Inplace -------------------------------
(***************************************************************************)
(* lmpc.c, ActionInplaceDEM and ActionInplaceDM2 (--fix-multi without a    *)
(* conversion): a recording is repaired where it is.  Each block is read   *)
(* into a buffer, commands are looked for by their bytes and made nops, and*)
(* a block that has changed is written back.  A symbol stands for a text as*)
(* in Binblock, but is followed here by as many Rest as the text has more  *)
(* characters: what is found and where the search goes on depends on the   *)
(* lengths.                                                                *)
(***************************************************************************)
EXTENDS Dm2File

CONSTANTS Restarted,  \* the symbol of "Server restarted\n"
          Rest        \* the other characters of a text

\* A symbol is none of the bytes that have a meaning, and no two are the same.
ASSUME SymbolsAssumption ==
  LET Symbols == <<Reconnect, CmdConfigstrings, CmdBaselines, Record, Precache, PrecacheAlone,
                   Restarted, Rest>>
  IN  IsInjective(Symbols) /\ \A i \in DOMAIN Symbols : Symbols[i] \in 17 .. 254

VARIABLES ikind,      \* "dem", "dm2"
          original,   \* the recording: its track (dem) and its blocks, lists of messages
          bytes,      \* the file
          iphase,     \* "off" if it is not this action that runs
          at, buffer, bufferbase, changed, lastwasbetweenblock
search == <<buffer, bufferbase, changed>>
ivars  == <<ikind, original, bytes, iphase, at, search, lastwasbetweenblock>>

Text(symbol, n) == <<symbol>> \o [i \in 1 .. n - 1 |-> Rest]
StringEnd(b, i) == Least(i .. Len(b), LAMBDA j : b[j] = 0)
Nops(b, i, j, nop) == [k \in DOMAIN b |-> IF k \in i .. j THEN nop ELSE b[k]]
memmem(b, base, pat) == {i \in base .. Len(b) - Len(pat) + 1 : SubSeq(b, i, i + Len(pat) - 1) = pat}

c_nop == 1
FixMultiString == <<9>> \o Text(Reconnect, 10) \o <<0>>
\* Mutant: strlen without the NUL.
FM_reconnect_open == <<11>> \o Text(Reconnect, 10)
FM_reconnect == <<11>> \o Text(Reconnect, 10) \o <<0>>
FM_configstrings == <<11>> \o Text(CmdConfigstrings, 18)
FM_baselines == <<11>> \o Text(CmdBaselines, 14)
FM_record == <<11>> \o Text(Record, 7)
FM_precache == <<11>> \o Text(Precache, 9)
FM_reconnect_m == <<10, 2>> \o Text(Restarted, 17) \o <<0, 8>>
FM_download == <<16, 255, 255, 0>>
\* In the order they are looked for, and what is done at the place of each.
Repairs == <<[pat |-> FM_reconnect, do |-> "whole"], [pat |-> FM_configstrings, do |-> "string"],
             [pat |-> FM_baselines, do |-> "string"], [pat |-> FM_record, do |-> "string"],
             [pat |-> FM_download, do |-> "whole"], [pat |-> FM_precache, do |-> "argument"],
             [pat |-> FM_reconnect_m, do |-> "last"]>>
DM2_nop == 6

\* Mutant: strlen + 1 bytes are counted from behind the first one.
Repaired_onemore(b, i, r) ==
  LET n == Len(r.pat) IN
  IF r.do = "string" THEN [b |-> Nops(b, i, StringEnd(b, i) + 1, DM2_nop), l |-> StringEnd(b, i) - i + 1]
  ELSE [b |-> Nops(b, i, i + n - 1, DM2_nop), l |-> n]
\* The buffer with the command at i repaired, and how far bufferbase goes on.  Of
\* "precache " the argument becomes nops, its first character the end of the text.
Repaired(b, i, r) ==
  LET n == Len(r.pat) IN
  CASE r.do = "whole"  -> [b |-> Nops(b, i, i + n - 1, DM2_nop), l |-> n]
    [] r.do = "string" -> [b |-> Nops(b, i, StringEnd(b, i), DM2_nop), l |-> StringEnd(b, i) - i + 1]
    [] r.do = "argument" ->
         [b |-> [Nops(b, i + n + 1, StringEnd(b, i + n + 1), DM2_nop)
                   EXCEPT ![i + 1] = PrecacheAlone, ![i + n] = 0],
          l |-> StringEnd(b, i + n + 1) - (i + n + 1) + 1]
    [] r.do = "last"   -> [b |-> Nops(b, i + n - 1, i + n - 1, DM2_nop), l |-> n]
\* Mutant: bufferbase goes on twice as far.
Repairing_twice(s, g) == [b |-> g.b, base |-> s.base + 2 * g.l, changed |-> TRUE]
Repairing(s, g) == [b |-> g.b, base |-> s.base + g.l, changed |-> TRUE]
RepairFirst(s, r, found) == IF found = {} THEN s ELSE Repairing(s, Repaired(s.b, Min(found), r))
RepairNext(s, r) == RepairFirst(s, r, memmem(s.b, s.base, r.pat))
\* Once through the body of the loop: each command is looked for behind the one before.
SearchedOnce(s) ==
  LET after[k \in 0 .. Len(Repairs)] == IF k = 0 THEN s ELSE RepairNext(after[k - 1], Repairs[k])
  IN  after[Len(Repairs)]

InplaceIdle ==
  /\ iphase = "off" /\ ikind = "dm2" /\ original = [track |-> <<>>, blocks |-> <<>>, end |-> <<>>]
ViewAngles == [i \in 1 .. 12 |-> 0]
BlockOf(kind, ms) ==
  put_long(Len(FlattenSeq(ms))) \o (IF kind = "dem" THEN ViewAngles ELSE <<>>) \o FlattenSeq(ms)
FileOf(kind, o) ==
  o.track \o FlattenSeq([i \in DOMAIN o.blocks |-> BlockOf(kind, o.blocks[i])]) \o o.end
OriginalBytes == FileOf(ikind, original)
\* DEM_init and do_track_read_bin leave the file behind the track.
InplaceInit ==
  /\ bytes = OriginalBytes
  /\ at = Len(original.track)
  /\ buffer = <<>> /\ bufferbase = 1 /\ changed = FALSE /\ lastwasbetweenblock = FALSE

HeadBytes == IF ikind = "dem" THEN 16 ELSE 4
SizeOf(b) == get_next_long(b, 1)
\* A size of -1 is the end of a DM2 file: there are no more bytes.
ReadBlock ==
  /\ iphase = "block" /\ at < Len(bytes)
  /\ \E size \in {get_next_long(bytes, at + 1)} :
       \E end \in {at + (IF size = -1 THEN 4 ELSE HeadBytes + size)} :
         /\ buffer' = SubSeq(bytes, at + 1, end)
         /\ at' = end
  /\ bufferbase' = HeadBytes + 1 /\ changed' = FALSE
  /\ iphase' = "search"
  /\ UNCHANGED <<ikind, original, bytes, lastwasbetweenblock>>

\* The search goes on behind the bytes it has repaired, counted from where it was.
SearchDEM ==
  /\ iphase = "search" /\ ikind = "dem" /\ bufferbase <= Len(buffer)
  /\ \E found \in {memmem(buffer, bufferbase, FixMultiString)} :
       IF found = {} THEN iphase' = "write" /\ UNCHANGED search
       ELSE /\ buffer' = Nops(buffer, Min(found), Min(found) + Len(FixMultiString) - 1, c_nop)
            /\ bufferbase' = bufferbase + Len(FixMultiString) + 1
            /\ changed' = TRUE
            /\ UNCHANGED iphase
  /\ UNCHANGED <<ikind, original, bytes, at, lastwasbetweenblock>>
SearchDM2 ==
  /\ iphase = "search" /\ ikind = "dm2" /\ bufferbase <= Len(buffer)
  /\ \E s \in {SearchedOnce([b |-> buffer, base |-> bufferbase, changed |-> changed])} :
         /\ buffer' = s.b /\ changed' = s.changed
         /\ bufferbase' = IF s.changed THEN s.base + 1 ELSE bufferbase
         /\ iphase' = IF s.changed THEN iphase ELSE "fields"
  /\ UNCHANGED <<ikind, original, bytes, at, lastwasbetweenblock>>
SearchEnds ==
  /\ iphase = "search" /\ bufferbase > Len(buffer)
  /\ iphase' = IF ikind = "dem" THEN "write" ELSE "fields"
  /\ UNCHANGED <<ikind, original, bytes, at, search, lastwasbetweenblock>>

\* The first message: reconnect, or serverdata with isdemo = 0.
FirstIsReconnect == SizeOf(buffer) > 4 /\ buffer[5] = 8
FirstIsNetwork   == SizeOf(buffer) > 13 /\ buffer[5] = 12 /\ buffer[14] = 0
FirstRepaired ==
  IF FirstIsReconnect THEN [buffer EXCEPT ![5] = DM2_nop]
  ELSE IF FirstIsNetwork THEN [buffer EXCEPT ![14] = 1] ELSE buffer
Fields ==
  /\ iphase = "fields"
  /\ buffer' = FirstRepaired
  /\ changed' = (changed \/ FirstIsReconnect \/ FirstIsNetwork)
  /\ iphase' = IF lastwasbetweenblock THEN "merge" ELSE "write"
  /\ lastwasbetweenblock' = (~ lastwasbetweenblock /\ SizeOf(buffer) = 0)
  /\ UNCHANGED <<ikind, original, bytes, at, bufferbase>>
\* Mutant: the size of the merged block is the one it had.
Merge_same_size ==
  /\ iphase = "merge" /\ SizeOf(buffer) # -1
  /\ buffer' = SubSeq(buffer, 1, 4) \o [i \in 1 .. 4 |-> DM2_nop] \o SubSeq(buffer, 5, Len(buffer))
  /\ changed' = TRUE
  /\ iphase' = "write"
  /\ UNCHANGED <<ikind, original, bytes, at, bufferbase, lastwasbetweenblock>>
\* An empty block and the one behind it become one block, with its size in the
\* place of the empty block's and nops in the place of its own.
Merge ==
  /\ iphase = "merge" /\ SizeOf(buffer) # -1
  /\ buffer' = put_long(SizeOf(buffer) + 4) \o [i \in 1 .. 4 |-> DM2_nop]
               \o SubSeq(buffer, 5, Len(buffer))
  /\ changed' = TRUE
  /\ iphase' = "write"
  /\ UNCHANGED <<ikind, original, bytes, at, bufferbase, lastwasbetweenblock>>
\* The same with the end block makes a block of three nops and leaves its last byte,
\* which is read as the size of a block the file does not have: what happens next
\* depends on what is in the buffer.
MergeEnd ==
  /\ iphase = "merge" /\ SizeOf(buffer) = -1
  /\ bytes' = SubSeq(bytes, 1, at - 8) \o put_long(3) \o [i \in 1 .. 3 |-> DM2_nop] \o <<Last(bytes)>>
  /\ iphase' = "lost"
  /\ UNCHANGED <<ikind, original, at, search, lastwasbetweenblock>>

WriteBack ==
  /\ iphase = "write"
  /\ bytes' = IF changed
              THEN SubSeq(bytes, 1, at - Len(buffer)) \o buffer \o SubSeq(bytes, at + 1, Len(bytes))
              ELSE bytes
  /\ iphase' = "block"
  /\ UNCHANGED <<ikind, original, at, search, lastwasbetweenblock>>
Close ==
  /\ iphase = "block" /\ at = Len(bytes)
  /\ iphase' = "done"
  /\ UNCHANGED <<ikind, original, bytes, at, search, lastwasbetweenblock>>

ActionInplace == ReadBlock \/ SearchDEM \/ SearchDM2 \/ SearchEnds \/ Fields \/ Merge \/ MergeEnd
                 \/ WriteBack \/ Close
InplaceEnded == iphase \in {"done", "lost"}
=============================================================================
