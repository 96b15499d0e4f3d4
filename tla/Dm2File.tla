------------------------------ MODULE Dm2File ------------------------------
(***************************************************************************)
(* udm2.c: the blocks and messages of a Quake II recording.  ver is the    *)
(* global SERVERVERSION and demotype the global DEMOTYPE; both are set by  *)
(* the message serverdata.  The message temp_entity, whose code is made    *)
(* from tables that are not part of the repository, is left out.           *)
(***************************************************************************)
EXTENDS QwdFile

\* Texts the editor looks for: a whole one, or the first part of one.
CONSTANTS CmdConfigstrings, CmdBaselines, Record, Precache, PrecacheAlone
CONSTANT DM2_MAX_ITEMS   \* 256, the numbers of an inventory

DM2_plain == (0 :> "bad") @@ (6 :> "nop") @@ (7 :> "disconnect") @@ (8 :> "reconnect")
DM2_muzzleflash_read(type, id, b, p) ==
  Cmds(type, id, <<F("entity", "short"), F("value", "byte")>>, b, p)
DM2_inventory_read(b, p) == Cmds("inventory", 5, <<V("", "short", DM2_MAX_ITEMS)>>, b, p)

\* sound: the bits 5 to 7 of the mask are kept as they are.
Dm2SoundNames == <<"unknown_mask_bits", "soundnum", "vol", "attenuation", "timeofs",
                   "channel", "entity", "origin">>
Dm2SoundUnknown == 5 .. 7
Dm2SoundRows(k, vol, att, timeofs, origin) ==
  <<L("mask", "bits8"), F("soundnum", k), B("vol", vol, "mask", 0),
    B("attenuation", att, "mask", 1), B("timeofs", timeofs, "mask", 4),
    Among(L("mix", "short"), "mask", 3), Times(B("origin", origin, "mask", 2), 3)>>
Unknown(S) == IF S = {} THEN <<>> ELSE "unknown_mask_bits" :> Ascending(S)
DM2_sound_read(b, p) ==
  LET tab == Dm2SoundRows("byte", "vol", "att", "timeofs", "coord")
      s   == ReadTable(tab, <<>>, b, p)
      mix == Got(s.v, "mix")
      v   == Unknown(s.v["mask"][1] \cap Dm2SoundUnknown)
             @@ (IF mix = <<>> THEN <<>>
                 ELSE ("channel" :> <<mix[1] % 8>>) @@ ("entity" :> <<mix[1] \div 8>>)) @@ s.v
  IN  Read(Msg("sound", 9, DownOf(tab, Dm2SoundNames, v)), s.p)
do_dm2_sound_message_write_bin(m, unicast) ==
  LET taken   == Take(Dm2SoundNames, m)
      unknown == IF "unknown_mask_bits" \in DOMAIN taken
                 THEN Range(taken["unknown_mask_bits"].v) ELSE {}
      mix     == IF "entity" \in DOMAIN taken
                 THEN "mix" :> Cmd("", "short", <<(taken["channel"].v[1] % 8)
                                               + (taken["entity"].v[1] % 2048) * 8>>)
                 ELSE <<>>
      tab     == [i \in 1 .. 7 |-> IF i = 6 THEN B("mix", "short", "mask", 3)
                  ELSE Dm2SoundRows("node", "node", "node", "node", "node")[i]]
  IN  WriteId(m.id, unicast)
      \o WriteRowsAnd([tab EXCEPT ![1] = L("mask", "bits8")], mix @@ taken, "mask" :> unknown)

DM2_print_read(b, p) == Cmds("print", 10, <<F("level", "byte"), F("string", "string")>>, b, p)
DM2_serverdata_read(b, p) ==
  Cmds("serverdata", 12,
    <<F("serverversion", "long"), F("key", "long"), F("isdemo", "byte"), F("game", "string"),
      F("client", "short"), F("mapname", "string")>>, b, p)
DM2_configstring_read(b, p) ==
  Cmds("configstring", 13, <<F("index", "short"), F("string", "string")>>, b, p)
DM2_download_read(b, p, ver) ==
  LET size == get_next_short(b, p)
      data == V("data", "byte", size)
  IN  Cmds("download", 16, <<F("size", "short"), F("percent", "byte")>>
                           \o (IF ver >= 32 /\ size > 0 THEN <<data>> ELSE <<>>), b, p)

(***************************************************************************)
(* playerinfo.                                                             *)
(***************************************************************************)
Three(n, k, i) == Times(B(n, k, "mask", i), 3)
DM2_playerinfo_rows == <<
  L("mask", "bits16"), B("pm_type", "byte", "mask", 0), Three("origin", "coord", 1),
  Three("velocity", "coord", 2), B("pm_time", "byte", "mask", 3),
  B("pm_flags", "byte", "mask", 4), B("gravity", "short", "mask", 5),
  Three("delta_angles", "angle16", 6), Three("viewoffset", "offset", 7),
  Three("viewangles", "angle16", 8), Three("kick_angles", "offset", 9),
  B("gunindex", "byte", "mask", 12), B("gunframe", "byte", "mask", 13),
  Three("gunoffset", "offset", 13), Three("gunangles", "offset", 13),
  Times(B("blend", "blend", "mask", 10), 4), B("fov", "byte", "mask", 11),
  B("rdflags", "byte", "mask", 14)>>
DM2_playerinfo_read(b, p) ==
  LET s     == ReadTable(DM2_playerinfo_rows, <<>>, b, p)
      mask2 == ReadKind("bits32", b, s.p)
      some  == Ascending(mask2.v)
      stat(k) == <<Cmd("index", "byte", <<some[k]>>),
                   Cmd("value", "short", <<get_next_short(b, mask2.p + 2 * (k - 1))>>)>>
      stats == IF some = <<>> THEN <<>>
               ELSE <<Cmd("stats", "", [k \in DOMAIN some |-> stat(k)])>>
  IN  Read(Msg("playerinfo", 17,
             DownOf(DM2_playerinfo_rows, Names(DM2_playerinfo_rows), s.v) \o stats),
           mask2.p + 2 * Len(some))
do_dm2_playerinfo_message_write_bin(m, unicast) ==
  LET taken == Take(Names(DM2_playerinfo_rows) \o <<"stats">>, m)
      stats == IF "stats" \in DOMAIN taken THEN taken["stats"].v ELSE <<>>
      gun   == {"gunframe", "gunoffset", "gunangles"} \cap DOMAIN taken # {}
      whole == IF gun
               THEN ("gunframe" :> Cmd("", "byte", <<0>>))
                    @@ ("gunoffset" :> Cmd("", "offset", <<0, 0, 0>>))
                    @@ ("gunangles" :> Cmd("", "offset", <<0, 0, 0>>))
               ELSE <<>>
  IN  WriteId(m.id, unicast)
      \o WriteRows([i \in DOMAIN DM2_playerinfo_rows |->
                     IF i = 1 THEN DM2_playerinfo_rows[1] ELSE As(DM2_playerinfo_rows[i], "node")],
                   taken @@ whole)
      \o WriteHint("bits32", {stats[k][1].v[1] : k \in DOMAIN stats})
      \o FlattenSeq([k \in DOMAIN stats |-> put_short(stats[k][2].v[1])])

(***************************************************************************)
(* The entities of spawnbaseline and packetentities.  Bits 7, 15 and 23 of *)
(* the mask say that it has another byte.  Two bits together choose the    *)
(* width of skin, effects and renderfx.                                    *)
(***************************************************************************)
ReadMask(b, p) ==
  FoldLeft(LAMBDA s, i : IF 8 * i - 1 \in s.v
                         THEN [v |-> s.v \cup {8 * i + j : j \in Bits(b[s.p], 8)}, p |-> s.p + 1]
                         ELSE s,
           [v |-> Bits(b[p], 8), p |-> p + 1], <<1, 2, 3>>)
\* Mutant: all four bytes of a mask are written.
WriteMaskWhole(S) == [k \in 1 .. 4 |-> BitByte(S \cup {7, 15, 23}, k - 1)]
WriteMask(S) ==
  LET last == Least(0 .. 3, LAMBDA k : \A i \in S : i < 8 * (k + 1))
      more == {8 * i - 1 : i \in 1 .. last}
  IN  [k \in 1 .. last + 1 |-> BitByte(S \cup more, k - 1)]

Wide(n, k, S, unset) ==
  Row(n, k, "LSB", 1, [Always EXCEPT !.f = "mask", !.set = S, !.clear = unset])
Sized(n, small, large) ==
  <<Wide(n, "byte", {small}, {large}), Wide(n, "short", {large}, {small}),
    Wide(n, "long", {small, large}, {})>>
DM2_packet_rows == <<
  As(B("entity", "short", "mask", 8), "SB"), As(X("entity", "byte", "mask", {8}), "SB"),
  Flag("remove", "mask", 6), B("modelindex", "byte", "mask", 11),
  B("modelindex2", "byte", "mask", 20), B("modelindex3", "byte", "mask", 21),
  B("modelindex4", "byte", "mask", 22), As(B("frame", "byte", "mask", 4), "SB"),
  As(B("frame", "short", "mask", 17), "SB")>>
  \o Sized("skin", 16, 25) \o Sized("effects", 14, 19) \o Sized("renderfx", 12, 18)
  \o <<B("origin_x", "coord", "mask", 0), B("origin_y", "coord", "mask", 1),
       B("origin_z", "coord", "mask", 9), B("angles_1", "angle", "mask", 10),
       B("angles_2", "angle", "mask", 2), B("angles_3", "angle", "mask", 3),
       Three("old_origin", "coord", 24), B("sound", "byte", "mask", 26),
       B("event", "byte", "mask", 5), B("solid", "short", "mask", 27)>>
PacketUnknown == (28 .. 31) \cup {13}
Dm2PacketNames ==
  <<"unknown_mask_bits", "entity", "remove", "modelindex", "modelindex2", "modelindex3",
    "modelindex4", "frame", "skin", "vwep", "effects", "renderfx", "origin_x", "origin_y",
    "origin_z", "angles_1", "angles_2", "angles_3", "old_origin", "sound", "event", "solid">>

\* Of two frames the last one is kept; a skin is two numbers in one.
PacketValues(v) ==
  LET skin == v["skin"][1]
      vwep == (skin \div 256) % 16777216
  IN  (IF "frame" \in DOMAIN v THEN "frame" :> <<Last(v["frame"])>> ELSE <<>>)
      @@ (IF "skin" \in DOMAIN v THEN "skin" :> <<skin % 256>> ELSE <<>>)
      @@ (IF "skin" \in DOMAIN v /\ vwep # 0 THEN "vwep" :> <<vwep>> ELSE <<>>)
      @@ Unknown(v["mask"][1] \cap PacketUnknown) @@ v
DM2_packet_read(rows, b, p) ==
  LET mask == ReadMask(b, p)
      s    == ReadTable(rows, "mask" :> <<mask.v>>, b, mask.p)
  IN  [v |-> DownOf(rows, Dm2PacketNames, PacketValues(s.v)), p |-> s.p]
\* A baseline cannot be removed: the bit is not looked at.
DM2_spawnbaseline_read(b, p) ==
  LET g == DM2_packet_read(SelectSeq(DM2_packet_rows, LAMBDA row : row.n # "remove"), b, p)
  IN  Read(Msg("spawnbaseline", 14, g.v), g.p)
\* The list ends with entity 0, behind a mask of any kind.
DM2_entity(b, p) ==
  LET mask == ReadMask(b, p)
  IN  ReadKind(IF 8 \in mask.v THEN "short" ELSE "byte", b, mask.p)
DM2_packetentities_read(b, p) ==
  LET s == FoldLeft(LAMBDA a, i :
             IF a.done THEN a
             ELSE LET e == DM2_entity(b, a.p)
                      g == DM2_packet_read(DM2_packet_rows, b, a.p)
                  IN  IF e.v = 0 THEN [a EXCEPT !.p = e.p, !.done = TRUE]
                      ELSE [a EXCEPT !.p = g.p, !.v = Append(@, Cmd("packetentity", "", g.v))],
             [v |-> <<>>, p |-> p, done |-> FALSE], b)
  IN  Read(Msg("packetentities", 18, s.v), s.p)

PacketBit == ("remove" :> 6) @@ ("modelindex" :> 11) @@ ("modelindex2" :> 20)
  @@ ("modelindex3" :> 21) @@ ("modelindex4" :> 22) @@ ("origin_x" :> 0) @@ ("origin_y" :> 1)
  @@ ("origin_z" :> 9) @@ ("angles_1" :> 10) @@ ("angles_2" :> 2) @@ ("angles_3" :> 3)
  @@ ("old_origin" :> 24) @@ ("sound" :> 26) @@ ("event" :> 5) @@ ("solid" :> 27)
SizeBits(a, small, large) ==
  IF a < 256 THEN {small} ELSE IF a < 32768 THEN {large} ELSE {small, large}
Skin(taken) ==
  taken["skin"].v[1]
  + (IF "vwep" \in DOMAIN taken THEN signed(taken["vwep"].v[1], 24) * 256 ELSE 0)
\* The skin is unsigned here: a negative one is large.
SkinBits(a) == IF a < 0 THEN {16, 25} ELSE SizeBits(a, 16, 25)
WriteSkin(a) == IF a < 0 THEN put_long(a) ELSE WriteHint("LSB", a)
PacketMask(taken, n) ==
  CASE n = "entity"   -> IF taken[n].v[1] > 255 THEN {8} ELSE {}
    [] n = "frame"    -> IF taken[n].v[1] > 255 THEN {17} ELSE {4}
    [] n = "skin"     -> SkinBits(Skin(taken))
    [] n = "vwep"     -> {}
    [] n = "effects"  -> SizeBits(taken[n].v[1], 14, 19)
    [] n = "renderfx" -> SizeBits(taken[n].v[1], 12, 18)
    [] n = "unknown_mask_bits" -> Range(taken[n].v)
    [] OTHER          -> {PacketBit[n]}
do_dm2_packetmask_write_bin(taken) == UNION {PacketMask(taken, n) : n \in DOMAIN taken}
do_dm2_packetdata_write_bin(taken) ==
  LET Data(n) == CASE n \in {"unknown_mask_bits", "remove", "vwep"} -> <<>>
                   [] n = "skin" -> WriteSkin(Skin(taken))
                   [] OTHER      -> WriteArguments(taken[n])
      there   == SelectSeq(Dm2PacketNames, LAMBDA n : n \in DOMAIN taken)
  IN  FlattenSeq([i \in DOMAIN there |-> Data(there[i])])
Dm2PacketBytes(down) ==
  LET taken == Take(Dm2PacketNames, [down |-> down])
  IN  WriteMask(do_dm2_packetmask_write_bin(taken)) \o do_dm2_packetdata_write_bin(taken)
do_dm2_spawnbaseline_message_write_bin(m, unicast) ==
  WriteId(m.id, unicast) \o Dm2PacketBytes(m.down)
do_dm2_packetentities_message_write_bin(m, unicast) ==
  WriteId(m.id, unicast)
  \o FlattenSeq([i \in DOMAIN m.down |-> Dm2PacketBytes(m.down[i].v)]) \o <<0, 0>>

\* All that is left of the block.
DM2_deltapacketentities_read(b, p) ==
  Read(Msg("deltapacketentities", 19,
         IF p > Len(b) THEN <<>> ELSE <<Cmd("data", "byte", SubSeq(b, p, Len(b)))>>),
       Len(b) + 1)

(***************************************************************************)
(* frame: three kinds of recordings have another head each.  The ones that *)
(* DEMOTYPE allows are tried; one is possible if the counts are not too big*)
(* and the message behind the head is one that follows such a head.        *)
(***************************************************************************)
Client == 0
Server == 1
Relay  == 7
FrameMax == 32
Counted(n, b, p) == [v |-> Cmd(n, "byte", SubSeq(b, p + 1, p + b[p])), p |-> p + 1 + b[p]]
FrameHead(b, p, ver) ==
  ReadMsg("frame", 20, <<F("seq1", "long"), F("seq2", "long")>>
                       \o (IF ver # 26 THEN <<F("uk_b1", "byte")>> ELSE <<>>), b, p)
FrameTrial(type, b, p, ver, head) ==
  LET areas == Counted("areas", b, head.p)
      connected == Counted("connected", b, areas.p)
      With(down) == Msg("frame", 20, head.m.down \o down)
  IN  CASE type = Server ->
             [m |-> Msg("frame", 20, <<Cmd("", "long", <<get_next_long(b, p)>>)>>), p |-> p + 4,
              ok |-> b[p + 4] = 18]
        [] type = Client ->
             IF b[head.p] > FrameMax THEN [m |-> head.m, p |-> p, ok |-> FALSE]
             ELSE [m |-> With(<<areas.v>>), p |-> areas.p, ok |-> b[areas.p] = 17]
        [] type = Relay ->
             IF b[head.p] > FrameMax \/ b[areas.p] > FrameMax
             THEN [m |-> head.m, p |-> p, ok |-> FALSE]
             ELSE [m |-> With(<<areas.v, connected.v>>), p |-> connected.p,
                   ok |-> b[connected.p] % MaskUnicast \in {17, 18}]
\* The kinds that are possible; {} and most of the others end the program.
FrameTypes(b, p, ver, demotype, head) ==
  {type \in {Client, Server, Relay} \cap demotype : FrameTrial(type, b, p, ver, head).ok}
Chosen(types) ==
  CASE types \in {{Server}, {Relay}, {Client}} -> types
    [] types = {Client, Server} -> {Client}
    [] OTHER -> {}
FrameOf(types, b, p, ver, head) ==
  IF types = {} THEN Read(Msg("error", 20, <<>>), Len(b) + 1)
  ELSE LET t == FrameTrial(CHOOSE type \in types : TRUE, b, p, ver, head) IN Read(t.m, t.p)
FrameWith(b, p, ver, demotype, head) ==
  FrameOf(Chosen(FrameTypes(b, p, ver, demotype, head)), b, p, ver, head)
DM2_frame_read(b, p, ver, demotype) ==
  FrameWith(b, p, ver, demotype, FrameHead(b, p, ver))
\* Mutant: the count in front of areas is forgotten.
CountedBytesAlone(c) == WriteArguments(c)
CountedBytes(c) == put_unsigned_char(Len(c.v)) \o WriteArguments(c)
do_dm2_frame_message_write_bin(m, unicast) ==
  WriteId(m.id, unicast)
  \o FlattenSeq([i \in DOMAIN m.down |-> IF m.down[i].n \in {"areas", "connected"}
                                         THEN CountedBytes(m.down[i])
                                         ELSE WriteArguments(m.down[i])])

(***************************************************************************)
(* Messages.  A message for one client is two nodes: unicast and itself.   *)
(***************************************************************************)
DM2_message_of(id, b, p, ver, demotype) ==
  CASE id \in DOMAIN DM2_plain -> Read(Msg(DM2_plain[id], id, <<>>), p)
    [] id = 1  -> DM2_muzzleflash_read("muzzleflash", 1, b, p)
    [] id = 2  -> DM2_muzzleflash_read("muzzlflash2", 2, b, p)
    [] id = 4  -> Cmds("layout", 4, <<F("", "string")>>, b, p)
    [] id = 5  -> DM2_inventory_read(b, p)
    [] id = 9  -> DM2_sound_read(b, p)
    [] id = 10 -> DM2_print_read(b, p)
    [] id = 11 -> Cmds("stufftext", 11, <<F("", "string")>>, b, p)
    [] id = 12 -> DM2_serverdata_read(b, p)
    [] id = 13 -> DM2_configstring_read(b, p)
    [] id = 14 -> DM2_spawnbaseline_read(b, p)
    [] id = 15 -> Cmds("centerprint", 15, <<F("", "string")>>, b, p)
    [] id = 16 -> DM2_download_read(b, p, ver)
    [] id = 17 -> DM2_playerinfo_read(b, p)
    [] id = 18 -> DM2_packetentities_read(b, p)
    [] id = 19 -> DM2_deltapacketentities_read(b, p)
    [] id = 20 -> DM2_frame_read(b, p, ver, demotype)
    [] OTHER   -> do_unknown_message_read_bin(id, b, p)
Behind(ms, g) == [ms |-> Append(ms, g.m), p |-> g.p]
DM2_message_read(b, p, ver, demotype) ==
  LET for == b[p] >= MaskUnicast
      node == Msg("unicast", 0, <<Cmd("", "byte", <<b[p + 1]>>)>>)
  IN  Behind(IF for THEN <<node>> ELSE <<>>,
             DM2_message_of(b[p] % MaskUnicast, b, IF for THEN p + 2 ELSE p + 1, ver, demotype))
\* serverdata: 0 is what a client records from the network.
DM2_version_after(m, ver) == IF m.type = "serverdata" THEN m.down[1].v[1] ELSE ver
DM2_demotype_after(m, demotype) ==
  IF m.type # "serverdata" THEN demotype
  ELSE IF m.down[3].v = <<0>> THEN {Client} ELSE Bits(m.down[3].v[1], 8)

\* The loop of the writer: what a node does to the client of the next message.
UnicastAfter(m) == IF m.type = "unicast" THEN m.down[1].v ELSE <<>>
DM2_message_write(m, unicast) ==
  CASE m.type = "unicast"        -> <<>>
    [] m.type = "unknown"        -> do_unknown_message_write_bin(m)
    [] m.type = "sound"          -> do_dm2_sound_message_write_bin(m, unicast)
    [] m.type = "playerinfo"     -> do_dm2_playerinfo_message_write_bin(m, unicast)
    [] m.type = "spawnbaseline"  -> do_dm2_spawnbaseline_message_write_bin(m, unicast)
    [] m.type = "packetentities" -> do_dm2_packetentities_message_write_bin(m, unicast)
    [] m.type = "frame"          -> do_dm2_frame_message_write_bin(m, unicast)
    [] OTHER                     -> do_simple_message_write_bin_unicast(m, unicast)

\* opFixMulti for Quake II.
Unwanted == {CmdConfigstrings, CmdBaselines, Record}
Removed(m) ==
  \/ m.type \in {"reconnect", "download"}
  \/ /\ m.type = "stufftext"
     /\ LET text == m.down[1].v[1]
        IN  text = <<Reconnect>> \/ (text # <<>> /\ text[1] \in Unwanted)
Fixed(m) ==
  CASE m.type = "stufftext" /\ m.down[1].v[1] # <<>> /\ m.down[1].v[1][1] = Precache ->
         [m EXCEPT !.down[1].v = <<<<PrecacheAlone>>>>]
    [] m.type = "serverdata" /\ m.down[3].v = <<0>> -> [m EXCEPT !.down[3].v = <<1>>]
    [] OTHER -> m
\* Mutant: the loop goes on behind the message that took the place of a removed one.
DM2_block_edit_skipping(ms) ==
  FlattenSeq([i \in DOMAIN ms |->
    IF ~ Removed(ms[i]) \/ (i > 1 /\ Removed(ms[i - 1])) THEN <<Fixed(ms[i])>> ELSE <<>>])
DM2_block_edit(ms) ==
  LET kept == SelectSeq(ms, LAMBDA m : ~ Removed(m)) IN [i \in DOMAIN kept |-> Fixed(kept[i])]
DM2_head_read(b) ==
  LET size == get_next_long(b, 1)
  IN  BlockHead(CASE size = 0 -> "betweenblock" [] size = -1 -> "endblock" [] OTHER -> "block",
                <<>>, 5)
\* opFixMulti makes nothing of a betweenblock; a block needs a node to be written.
DM2_block_write(kind, nodes, messages, edit) ==
  CASE kind = "betweenblock" -> IF edit THEN <<>> ELSE put_long(0)
    [] kind = "endblock"     -> put_long(-1)
    [] kind = "block"        -> IF nodes = <<>> THEN <<>>
                                ELSE put_long(Len(messages)) \o messages
=============================================================================
