-------------------------------- MODULE Lmpc --------------------------------
(***************************************************************************)
(* lmpc.c, main: the two actions that change a recording without making a  *)
(* tree of it.  One file is given, and for acConvert the output's name.    *)
(***************************************************************************)
EXTENDS Inplace, LmpConvert

CONSTANTS Conversions,   \* [lfile, opt]: an LMP file and the options of ActionConvert
          Repairable     \* [ikind, original]: recordings
\* A shorter file than the longest header leaves a part of header[] undefined.
ASSUME ConversionsAssumption ==
  \A c \in Conversions : /\ c.lfile \in [bytes : Seq(Byte), recent : BOOLEAN]
                         /\ \A g \in Games : HeaderSize(g) < Len(c.lfile.bytes)
                         /\ c.opt \in Options
\* In a block of a DM2 file each text looked for has an end (and "precache " an argument),
\* and no other command begins in it.
TextsEnd(b) ==
  \A r \in Range(Repairs) : r.do \in {"string", "argument"} =>
    \A i \in memmem(b, 5, r.pat) :
      \E z \in i + (IF r.do = "argument" THEN Len(r.pat) + 1 ELSE 1) .. Len(b) :
        /\ b[z] = 0
        /\ \A q \in Range(Repairs) : q.do # "last" => memmem(b, 5, q.pat) \cap (i + 1 .. z) = {}
LongMax == 2147483647   \* what ftell can tell
\* The recording o is a file that isDEMbin or isDM2bin takes, with texts that end in their block.
IsRepairable(kind, o) ==
  /\ kind \in {"dem", "dm2"}
  /\ o \in [track : Seq(Byte), blocks : Seq(Seq(Seq(Byte))),
            end : {<<>>} \cup (IF kind = "dm2" THEN {<<255, 255, 255, 255>>} ELSE {})]
  /\ Len(FileOf(kind, o)) <= LongMax
  /\ kind = "dm2" => \A i \in DOMAIN o.blocks : TextsEnd(BlockOf("dm2", o.blocks[i]))
ASSUME RepairableAssumption == \A r \in Repairable : IsRepairable(r.ikind, r.original)

mvars == <<ivars, lvars>>
Init ==
  /\ \/ \E c \in Conversions : lfile = c.lfile /\ opt = c.opt /\ lphase = "open" /\ InplaceIdle
     \/ \E r \in Repairable : ikind = r.ikind /\ original = r.original /\ iphase = "block" /\ LmpIdle
  /\ LmpInit /\ InplaceInit
acConvert == ActionConvert /\ UNCHANGED ivars
acInplace == ActionInplace /\ UNCHANGED lvars
Ended == (LmpEnded \/ InplaceEnded) /\ UNCHANGED mvars
Next == acConvert \/ acInplace \/ Ended
Spec == Init /\ [][Next]_mvars

(***************************************************************************)
(* Properties.                                                             *)
(***************************************************************************)
\* Every variable has its type; a search does not begin beyond the end of a block.
LmpcTypeOK ==
  /\ LmpTypeOK
  /\ ikind \in {"dem", "dm2"}
  /\ iphase \in {"off", "block", "search", "fields", "merge", "write", "done", "lost"}
  /\ \A b \in Range(bytes) : b \in Byte
  /\ at \in 0 .. Len(bytes) /\ changed \in BOOLEAN /\ lastwasbetweenblock \in BOOLEAN
  /\ iphase = "search" => bufferbase \in HeadBytes + 1 .. Len(buffer) + 2

InplaceDone == iphase = "done"
Blocks == original.blocks

\* The blocks of the file as the readers see them; p is where there is no more of them.
NextBlock(s, size) ==
  IF size = -1 THEN [s EXCEPT !.p = @ + 4]
  ELSE IF size \notin 0 .. Len(bytes) + 1 - s.p - HeadBytes THEN s
  ELSE [p |-> s.p + HeadBytes + size,
        list |-> Append(s.list, SubSeq(bytes, s.p + HeadBytes, s.p + HeadBytes + size - 1))]
BlockBehind(s) == IF s.p + 3 <= Len(bytes) THEN NextBlock(s, get_next_long(bytes, s.p)) ELSE s
BlocksNow ==
  LET after[k \in 0 .. Len(Blocks) + 1] ==
        IF k = 0 THEN [p |-> Len(original.track) + 1, list |-> <<>>] ELSE BlockBehind(after[k - 1])
  IN  after[Len(Blocks) + 1]

\* The repaired file is a recording: as long as it was, made of blocks and their end,
\* and there is no empty block in front of another one.
StillARecording ==
  InplaceDone =>
    \E f \in {BlocksNow} :
      /\ f.p = Len(bytes) + 1 /\ Len(bytes) = Len(OriginalBytes)
      /\ ikind = "dm2" => \A i \in 1 .. Len(f.list) - 1 : f.list[i] # <<>>

\* The messages of a block, as the readers of the converters see them.
MessageBehind(s, b, g) == [p |-> g.p, ms |-> s.ms \o g.ms]
MessagesOf(b) ==
  FoldLeft(LAMBDA s, i : IF s.p > Len(b) THEN s
                         ELSE MessageBehind(s, b, IF ikind = "dem" THEN Behind(<<>>, do_message_read_bin(b, s.p))
                                                  ELSE DM2_message_read(b, s.p, 0, {Client})),
           [p |-> 1, ms |-> <<>>], b).ms
Squeezed(b) == SelectSeq(b, LAMBDA x : x # Rest)
Speaking(ms) == SelectSeq(ms, LAMBDA m : m.type # "nop")
EditOf(ms) == IF ikind = "dem" THEN DEM_block_edit(ms) ELSE DM2_block_edit(ms)
IsEdited(m) == \E ms \in {MessagesOf(Squeezed(m))} : EditOf(ms) # ms

\* What is looked for by its bytes, and of the rest what is at the start of a block:
\* a message for one client, another download or reconnect is not found.
IsByBytes(ms, j) ==
  \/ ms[j][1] \in {9, 11} \/ ms[j] = FM_download
  \/ ms[j] = <<8>> /\ j > 1 /\ ms[j - 1] \o ms[j] = FM_reconnect_m
IsFound(ms, j) ==
  \/ IsByBytes(ms, j)
  \/ j = 1 /\ (ms[j] = <<8>> => Len(FlattenSeq(ms)) > 4) /\ ms[j][1] \in {8, 12}
\* Of several commands in a block one is overlooked if the others are longer than
\* what is in front of it.
Offset(ms, j) == Len(FlattenSeq(SubSeq(ms, 1, j - 1)))
IsReached(ms, j) ==
  LET others == {k \in DOMAIN ms \ {j} : IsEdited(ms[k]) /\ IsByBytes(ms, k)}
      place  == IF ms[j] = <<8>> THEN Offset(ms, j - 1) ELSE Offset(ms, j)
  IN  IsByBytes(ms, j) => place >= MapThenSumSet(LAMBDA k : Len(ms[k]) + 1, others)
\* The bytes of a command may also be in a text or in the coordinates of a message.
Patterns == IF ikind = "dem" THEN {FixMultiString} ELSE {r.pat : r \in Range(Repairs)}
IsStruck(m) == ~ IsEdited(m) /\ \E pat \in Patterns : memmem(m, 1, pat) # {}
AllFound ==
  \A i \in DOMAIN Blocks : \A j \in DOMAIN Blocks[i] :
    /\ IsEdited(Blocks[i][j]) => IsFound(Blocks[i], j) /\ IsReached(Blocks[i], j)
    /\ ~ IsStruck(Blocks[i][j])

\* The repaired recording has the messages of the one that a conversion with
\* --fix-multi makes, but for nops (doc/lmpc.base describes both).
RepairedAsConverted ==
  InplaceDone /\ AllFound =>
    \E f \in {BlocksNow} :
      SelectSeq([i \in DOMAIN f.list |-> Speaking(MessagesOf(Squeezed(f.list[i])))],
                LAMBDA ms : ms # <<>>)
      = SelectSeq([i \in DOMAIN Blocks |->
                     Speaking(EditOf(MessagesOf(Squeezed(FlattenSeq(Blocks[i])))))],
                  LAMBDA ms : ms # <<>>)

\* The bytes of a message that the conversion would not edit are what and where they
\* were, whatever else is in the block.
PlaceOfBlock(i) ==
  Len(original.track) + Len(FlattenSeq([k \in 1 .. i - 1 |-> BlockOf(ikind, Blocks[k])])) + HeadBytes
TouchesNothingElse ==
  InplaceDone =>
    \A i \in DOMAIN Blocks : \A j \in DOMAIN Blocks[i] :
      ~ IsEdited(Blocks[i][j]) /\ ~ IsStruck(Blocks[i][j]) =>
      \E from \in {PlaceOfBlock(i) + Offset(Blocks[i], j)} :
        SubSeq(bytes, from + 1, from + Len(Blocks[i][j])) = Blocks[i][j]
=============================================================================
