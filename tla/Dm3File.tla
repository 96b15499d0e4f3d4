------------------------------ MODULE Dm3File ------------------------------
(***************************************************************************)
(* udm3.c: the blocks and messages of a Quake III recording.  A block is   *)
(* its sequence number, its length and the bits of its messages; without   *)
(* the Huffman code the length is the number of the bits.                  *)
(*                                                                         *)
(* A message is a record of its down nodes.  An entity is its index, a flag*)
(* for remove and its changed fields; a changed field is its place in the  *)
(* table of msg.c and its value.                                           *)
(***************************************************************************)
EXTENDS Q3Msg, TLC

svc_nop == 1
svc_gamestate == 2
svc_configstring == 3
svc_baseline == 4
svc_serverCommand == 5
svc_download == 6
svc_snapshot == 7
svc_EOF == 8

Changed(f, v) == [f |-> f, v |-> v]
Entity(index, remove, fields) == [index |-> index, remove |-> remove, fields |-> fields]
LastEntity == MAX_GENTITIES - 1

PlayerValue(bits, b, p) == IF bits = 0 THEN ReadFloat(b, p) ELSE MSG_ReadBits(b, p, bits)
EntityValue(bits, b, p) ==
  IF b[p] = 0 THEN [v |-> IF bits = 0 THEN {} ELSE 0, p |-> p + 1]
  ELSE PlayerValue(bits, b, p + 1)

\* Numbers of these widths one after the other.
ReadNumbers(widths, b, p) ==
  FoldLeft(LAMBDA s, w : Another(s, MSG_ReadBits(b, s.p, w)), Nothing(p), widths)

\* The fields up to the last one that has changed, whose number lc comes first.
WithField(s, f, g) == [v |-> Append(s.v, Changed(f, g.v)), p |-> g.p]
ReadFieldsUpTo(lc, fields, Value(_, _, _), b) ==
  FoldLeft(LAMBDA s, f : IF b[s.p] = 0 THEN [s EXCEPT !.p = @ + 1]
                         ELSE WithField(s, f, Value(fields[f], b, s.p + 1)),
           [v |-> <<>>, p |-> lc.p], [f \in 1 .. lc.v |-> f])
ReadFields(fields, Value(_, _, _), b, p) == ReadFieldsUpTo(MSG_ReadByte(b, p), fields, Value, b)

\* n is empty for the entity that ends a list.
EntityIs(index, remove, fields) == [n |-> <<Entity(index, remove, fields.v)>>, p |-> fields.p]
EntityOf(b, index, q) ==
  IF index = LastEntity THEN [n |-> <<>>, p |-> q]
  ELSE IF b[q] = 1 THEN EntityIs(index, TRUE, Nothing(q + 1))
  ELSE EntityIs(index, FALSE, IF b[q + 1] = 0 THEN Nothing(q + 2)
                              ELSE ReadFields(entityStateFields, EntityValue, b, q + 2))
DM3_bin_to_node_entity(b, p) ==
  EntityOf(b, MSG_ReadBits(b, p, GENTITYNUM_BITS).v, p + GENTITYNUM_BITS)

\* The elements of a list: e is the next one, v are those before it.
RECURSIVE ReadEntities(_, _, _)
ReadEntities(b, v, e) ==
  IF e.n = <<>> THEN [v |-> v, p |-> e.p]
  ELSE ReadEntities(b, v \o e.n, DM3_bin_to_node_entity(b, e.p))

Command(seq, value) ==
  [m |-> [type |-> "serverCommand", seq |-> seq, value |-> value.v], p |-> value.p]
DM3_serverCommand_read(b, p) == Command(MSG_ReadLong(b, p).v, MSG_ReadString(b, p + 32))

Configstring(index, value) ==
  [n |-> <<[type |-> "configstring", index |-> index, value |-> value.v]>>, p |-> value.p]
Baseline(e) == [n |-> <<[type |-> "baseline", entity |-> e.n[1]]>>, p |-> e.p]
DM3_gamestate_command(b, gcmd, p) ==
  CASE gcmd = svc_EOF -> [n |-> <<>>, p |-> p]
    [] gcmd = svc_configstring ->
         Configstring(MSG_ReadShort(b, p).v, MSG_ReadBigString(b, p + 16))
    [] gcmd = svc_baseline -> Baseline(DM3_bin_to_node_entity(b, p))
ReadCommand(b, p) == DM3_gamestate_command(b, MSG_ReadByte(b, p).v, p + 8)
RECURSIVE ReadCommands(_, _, _)
ReadCommands(b, v, c) ==
  IF c.n = <<>> THEN [v |-> v, p |-> c.p] ELSE ReadCommands(b, v \o c.n, ReadCommand(b, c.p))
Gamestate(seq, commands, feet) ==
  [m |-> [type |-> "gamestate", serverCommandSequence |-> seq, commands |-> commands,
          clientNum |-> feet.v[1], checksumFeed |-> feet.v[2]], p |-> feet.p]
GamestateWith(b, seq, commands) ==
  Gamestate(seq, commands.v, ReadNumbers(<<32, 32>>, b, commands.p))
DM3_gamestate_read(b, p) ==
  GamestateWith(b, MSG_ReadLong(b, p).v, ReadCommands(b, <<>>, ReadCommand(b, p + 32)))

MSG_ReadData(b, p, size) ==
  [v |-> [i \in 1 .. size |-> MSG_ReadByte(b, p + 8 * (i - 1)).v], p |-> p + 8 * size]
Download(head, data) ==
  [m |-> [type |-> "download", transfer |-> head.v[1],
          downloadSize |-> SubSeq(head.v, 2, Len(head.v) - 1), data |-> data.v], p |-> data.p]
DownloadOf(b, head) == Download(head, MSG_ReadData(b, head.p, Last(head.v)))
DM3_download_read(b, p) ==
  DownloadOf(b, ReadNumbers(IF MSG_ReadShort(b, p).v = 0 THEN <<-16, 32, -16>> ELSE <<-16, -16>>, b, p))

(***************************************************************************)
(* snapshot.  An array is the seq of its indices and values; arrays maps   *)
(* the names of the arrays that are there to them.                         *)
(***************************************************************************)
Slot(index, value) == [index |-> index, value |-> value]
ArrayWidth(name) == IF name = "powerups" THEN 32 ELSE -16
WithSlot(s, i, g) == [v |-> Append(s.v, Slot(i, g.v)), p |-> g.p]
ReadArray(name, b, q) ==
  FoldLeft(LAMBDA s, i : IF b[q + i] = 0 THEN s
                         ELSE WithSlot(s, i, MSG_ReadBits(b, s.p, ArrayWidth(name))),
           [v |-> <<>>, p |-> q + 16], [i \in 1 .. 16 |-> i - 1])
WithArray(s, name, a) == [v |-> s.v @@ (name :> a.v), p |-> a.p]
DM3_arrays_read(b, p) ==
  IF b[p] = 0 THEN Nothing(p + 1)
  ELSE FoldLeft(LAMBDA s, name : IF b[s.p] = 0 THEN [s EXCEPT !.p = @ + 1]
                                 ELSE WithArray(s, name, ReadArray(name, b, s.p + 1)),
                Nothing(p + 1), ArrayNames)
PlayerWith(fields, arrays) == [v |-> [fields |-> fields, arrays |-> arrays.v], p |-> arrays.p]
PlayerOf(b, fields) == PlayerWith(fields.v, DM3_arrays_read(b, fields.p))
DM3_player_read(b, p) == PlayerOf(b, ReadFields(playerStateFields, PlayerValue, b, p))

\* The last number of the head is the length of the area mask.
Snapshot(head, areas, player, entities) ==
  [m |-> [type |-> "snapshot", serverTime |-> head[1], deltaNum |-> head[2],
          snapFlags |-> head[3], areamask |-> areas, player |-> player,
          entities |-> entities.v], p |-> entities.p]
SnapshotWith(b, head, areas, player) ==
  Snapshot(head, areas, player.v, ReadEntities(b, <<>>, DM3_bin_to_node_entity(b, player.p)))
SnapshotBehind(b, head, areas) == SnapshotWith(b, head, areas.v, DM3_player_read(b, areas.p))
SnapshotOf(b, head) == SnapshotBehind(b, head.v, MSG_ReadData(b, head.p, head.v[4]))
DM3_snapshot_read(b, p) == SnapshotOf(b, ReadNumbers(<<32, 8, 8, 8>>, b, p))

(***************************************************************************)
(* The loop over the messages.  A gamestate ends it as svc_EOF does.       *)
(***************************************************************************)
DM3_head_read(b) ==
  LET rel == MSG_ReadLong(b, 9)
  IN  IF get_next_long(b, 5) = -1 THEN [kind |-> "endblock", head |-> <<>>, p |-> Len(b) + 1]
      ELSE [kind |-> "block", head |-> <<get_next_long(b, 1), rel.v>>, p |-> rel.p]
DM3_message_read(b, p) ==
  LET cmd == MSG_ReadByte(b, p).v
      q == p + 8
  IN  CASE cmd = svc_nop -> [m |-> [type |-> "nop"], p |-> q]
        [] cmd = svc_gamestate -> DM3_gamestate_read(b, q)
        [] cmd = svc_serverCommand -> DM3_serverCommand_read(b, q)
        [] cmd = svc_download -> DM3_download_read(b, q)
        [] cmd = svc_snapshot -> DM3_snapshot_read(b, q)
        [] OTHER -> [m |-> [type |-> "error"], p |-> q]
IsEnd(b, p) == MSG_ReadByte(b, p).v = svc_EOF

(***************************************************************************)
(* Writers.  The fields are written up to the last one that is there.      *)
(***************************************************************************)
WriteFields(list, fields, Value(_, _)) ==
  LET changed == {list[i].f : i \in DOMAIN list}
      to(f) == list[CHOOSE i \in DOMAIN list : list[i].f = f].v
  IN  MSG_WriteByte(LastOf(changed))
      \o FlattenSeq([f \in 1 .. LastOf(changed) |->
           IF f \in changed THEN <<1>> \o Value(fields[f], to(f)) ELSE <<0>>])
WriteEntityValue(bits, a) ==
  IF IsZero(bits, a) THEN <<0>>
  ELSE <<1>> \o (IF bits = 0 THEN WriteFloat(a) ELSE MSG_WriteBits(a, bits))
WritePlayerValue(bits, a) == IF bits = 0 THEN WriteFloat(a) ELSE MSG_WriteBits(a, bits)
MSG_WriteNodeEntity(e) ==
  MSG_WriteBits(e.index, GENTITYNUM_BITS)
  \o (IF e.remove THEN <<1>> ELSE IF e.fields = <<>> THEN <<0, 0>>
      ELSE <<0, 1>> \o WriteFields(e.fields, entityStateFields, WriteEntityValue))
MSG_WriteNodeArray(name, arrays) ==
  IF name \notin DOMAIN arrays THEN <<0>>
  ELSE LET slots == arrays[name]
       IN  <<1>> \o MSG_WriteShort(FromBits({slots[i].index : i \in DOMAIN slots}))
           \o FlattenSeq([i \in DOMAIN slots |->
                IF name = "powerups" THEN MSG_WriteLong(slots[i].value)
                ELSE MSG_WriteShort(slots[i].value)])
MSG_WriteNodePlayer(player) ==
  WriteFields(player.fields, playerStateFields, WritePlayerValue)
  \o (IF DOMAIN player.arrays = {} THEN <<0>>
      ELSE <<1>> \o FlattenSeq([k \in 1 .. 4 |-> MSG_WriteNodeArray(ArrayNames[k], player.arrays)]))

DM3_configstring_write(c) == MSG_WriteShort(c.index) \o MSG_WriteString(c.value)
DM3_gamestate_write(m) ==
  MSG_WriteLong(m.serverCommandSequence)
  \o FlattenSeq([i \in DOMAIN m.commands |->
       LET c == m.commands[i]
       IN  IF c.type = "configstring" THEN MSG_WriteByte(svc_configstring) \o DM3_configstring_write(c)
           ELSE MSG_WriteByte(svc_baseline) \o MSG_WriteNodeEntity(c.entity)])
  \o MSG_WriteByte(svc_EOF) \o MSG_WriteLong(m.clientNum) \o MSG_WriteLong(m.checksumFeed)
DM3_snapshot_write(m) ==
  MSG_WriteLong(m.serverTime) \o MSG_WriteByte(m.deltaNum) \o MSG_WriteByte(m.snapFlags)
  \o MSG_WriteByte(Len(m.areamask)) \o MSG_WriteData(m.areamask)
  \o MSG_WriteNodePlayer(m.player)
  \o FlattenSeq([i \in DOMAIN m.entities |-> MSG_WriteNodeEntity(m.entities[i])])
  \o MSG_WriteBits(LastEntity, GENTITYNUM_BITS)
DM3_download_write(m) ==
  MSG_WriteShort(m.transfer) \o FlattenSeq([i \in DOMAIN m.downloadSize |-> MSG_WriteLong(m.downloadSize[i])])
  \o MSG_WriteShort(Len(m.data)) \o MSG_WriteData(m.data)
DM3_message_write(m) ==
  CASE m.type = "nop" -> MSG_WriteByte(svc_nop)
    [] m.type = "serverCommand" ->
         MSG_WriteByte(svc_serverCommand) \o MSG_WriteLong(m.seq) \o MSG_WriteString(m.value)
    [] m.type = "gamestate" -> MSG_WriteByte(svc_gamestate) \o DM3_gamestate_write(m)
    [] m.type = "snapshot" -> MSG_WriteByte(svc_snapshot) \o DM3_snapshot_write(m)
    [] m.type = "download" -> MSG_WriteByte(svc_download) \o DM3_download_write(m)
\* bits are the messages written so far, to which svc_EOF is added.
DM3_block_write(kind, head, bits) ==
  LET body == MSG_WriteLong(head[2]) \o bits \o MSG_WriteByte(svc_EOF)
  IN  IF kind = "endblock" THEN put_long(-1) \o put_long(-1)
      ELSE put_long(head[1]) \o put_long(Len(body)) \o body
=============================================================================
