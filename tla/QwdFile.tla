------------------------------- MODULE QwdFile -------------------------------
(***************************************************************************)
(* uqwd.c: the blocks and messages of a QuakeWorld recording.  ver is the  *)
(* global SERVERVERSION, which the message serverdata sets and the layout  *)
(* of playerinfo, modellist and soundlist depends on.                      *)
(***************************************************************************)
EXTENDS DemFile

Cmds(type, id, tab, b, p) == ReadMsg(type, id, tab, b, p)

(* Messages that are like those of Quake differ in widths: 2, 3, 8, 11, ... *)
QWD_updatestat_read(b, p) ==
  Cmds("updatestat", 3, <<F("index", "byte"), F("value", "byte")>>, b, p)
QwdSoundNames == <<"channel", "entity", "vol", "attenuation", "soundnum", "origin">>
QWD_sound_read(b, p) ==
  LET bits == ReadKind("bits16", b, p).v
      s == ReadTable(<<L("entity_channel", "ushort"), B("vol", "vol", "mask", 15),
                       B("attenuation", "att", "mask", 14), F("soundnum", "byte"),
                       Vec("origin", "coord")>>, "mask" :> <<bits>>, b, p)
  IN  Read(Msg("sound", 6,
             DownOf(<<F("soundnum", "byte"), F("vol", "vol"), F("attenuation", "att"),
                      Vec("origin", "coord")>>, QwdSoundNames, Unpacked(s.v, 1024))), s.p)
do_qwd_sound_message_write_bin(m) ==
  LET taken == Take(QwdSoundNames, m)
      ec    == Packed(taken, 1024)["entity_channel"].v[1]
  IN  <<m.id>> \o WriteRowsAnd(
        <<L("mask", "bits16"), As(B("vol", "", "mask", 15), "node"),
          As(B("attenuation", "", "mask", 14), "node"), F("soundnum", "node"),
          Vec("origin", "node")>>, taken, "mask" :> Bits(ec, 13))

QWD_print_read(b, p) ==
  Cmds("print", 8, <<F("level", "byte"), F("string", "string")>>, b, p)
QWD_serverdata_read(b, p) ==
  LET ver == get_next_long(b, p)
  IN  Cmds("serverdata", 11,
        <<F("serverversion", "long"), F("age", "long"), F("game", "string"),
          F("client", "byte"), F("mapname", "string")>>
        \o (IF ver >= 25 THEN <<V("uk_floats", "float", 10)>> ELSE <<>>), b, p)
QWD_lightstyle_read(b, p) == do_lightstyle_message_read_bin(b, p)
QWD_updatefrags_read(b, p) ==
  Cmds("updatefrags", 14, <<F("player", "byte"), F("frags", "short")>>, b, p)
QWD_stopsound_read(b, p) ==
  LET s == ReadTable(<<L("entity_channel", "ushort")>>, <<>>, b, p)
  IN  Read(Msg("stopsound", 16, DownOf(<<>>, <<"channel", "entity">>, Unpacked(s.v, 8192))),
           s.p)
do_qwd_stopsound_message_write_bin(m) ==
  <<m.id>> \o WriteRows(<<F("entity_channel", "short")>>,
                        Packed(Take(<<"channel", "entity">>, m), 8192))
QWD_damage_read(b, p) ==
  Cmds("damage", 19, <<F("save", "byte"), F("take", "byte"), Vec("origin", "coord")>>, b, p)
QWD_spawnstatic_read(b, p) ==
  Cmds("spawnstatic", 20,
    StaticRows("byte") \o Placed("default_origin", "default_angles"), b, p)
do_qwd_spawnstatic_message_write_bin(m) ==
  <<m.id>> \o WriteTable(StaticRows("node") \o PlacedNode("default_origin", "default_angles"),
                         StaticNames, m)
QWD_spawnbaseline_read(b, p) ==
  Cmds("spawnbaseline", 22, <<F("entity", "short")>> \o StaticRows("byte")
                            \o Placed("default_origin", "default_angles"), b, p)
do_qwd_spawnbaseline_message_write_bin(m) ==
  <<m.id>> \o WriteTable(<<F("entity", "node")>> \o StaticRows("node")
                         \o PlacedNode("default_origin", "default_angles"),
                         <<"entity">> \o StaticNames, m)
QWD_temp_entity_read(b, p) ==
  LET beam  == {5, 6, 9}
      burst == {2, 12}
      point == {0, 1, 3, 4, 7, 8, 10, 11, 13}
  IN  Cmds("temp_entity", 23,
        <<F("entitytype", "byte"), T("entity", "short", "entitytype", beam),
          T("count", "byte", "entitytype", burst),
          Times(T("origin", "coord", "entitytype", beam \cup burst \cup point), 3),
          Times(T("trace_endpos", "coord", "entitytype", beam), 3)>>, b, p)
QWD_spawnstaticsound_read(b, p) ==
  Cmds("spawnstaticsound", 29, <<Vec("origin", "coord"), F("soundnum", "byte"),
                                 F("vol", "vol"), F("attenuation", "att")>>, b, p)
QWD_intermission_read(b, p) ==
  Cmds("intermission", 30, <<Vec("origin", "coord"), Vec("angles", "angle")>>, b, p)
QWD_cdtrack_read(b, p)      == Cmds("cdtrack", 32, <<F("", "byte")>>, b, p)
QWD_updateping_read(b, p) ==
  Cmds("updateping", 36, <<F("player", "byte"), F("ping", "short")>>, b, p)
QWD_updateentertime_read(b, p) ==
  Cmds("updateentertime", 37, <<F("player", "byte"), F("entertime", "float")>>, b, p)
QWD_updatestatlong_read(b, p) ==
  Cmds("updatestatlong", 38, <<F("index", "byte"), F("value", "long")>>, b, p)
QWD_muzzleflash_read(b, p)  == Cmds("muzzleflash", 39, <<F("", "short")>>, b, p)
QWD_updateuserinfo_read(b, p) ==
  Cmds("updateuserinfo", 40, <<F("player", "byte"), F("user", "long"),
                               F("string", "string")>>, b, p)
QWD_download_read(b, p) ==
  LET size == get_next_short(b, p)
  IN  Cmds("download", 41, <<F("size", "short"), F("percent", "byte"),
                             V("data", "byte", IF size > 0 THEN size ELSE 0)>>, b, p)

(***************************************************************************)
(* playerinfo: the part behind mask2 depends on the version of the server. *)
(***************************************************************************)
PlayerNames == <<"unknown_mask_bits", "player", "origin", "frame", "ping", "angles_1",
  "angles_2", "angles_3", "speed_x", "speed_y", "speed_z", "fire", "jump", "flag",
  "impulse", "load", "cspeed_x", "cspeed_y", "cspeed_z", "modelindex", "uk_byte6",
  "weapon", "weaponframe">>
Mask2 == Among(L("mask2", "bits8"), "mask", 1)
PlayerMove(ver, speed, h) ==
  LET angles_2 == As(F("angles_2", "angle16"), "angle16")
      load     == F("load", "byte")
  IN  << B("angles_1", "angle16", "mask2", 0),
         IF ver >= 27 THEN Among(angles_2, "mask2", 7) ELSE Among(angles_2, "mask", 1),
         B("angles_3", "angle16", "mask2", 1),
         As(B("speed_x", speed, "mask2", 2), h), As(B("speed_y", speed, "mask2", 3), h),
         As(B("speed_z", speed, "mask2", 4), h),
         B("flags", "bits8", "mask2", 5), B("impulse", "byte", "mask2", 6),
         IF ver >= 27 THEN Among(load, "mask", 1) ELSE Among(load, "mask2", 7) >>
PlayerRest == << B("cspeed_x", "coord", "mask", 2), B("cspeed_y", "coord", "mask", 3),
                 B("cspeed_z", "coord", "mask", 4), B("modelindex", "byte", "mask", 5),
                 B("uk_byte6", "byte", "mask", 6), B("weapons", "bits8", "mask", 7),
                 B("weaponframe", "byte", "mask", 8) >>
PlayerUnknownBits == 9 .. 15

\* The nodes fire, jump and flag, and the list of weapons.
PlayerLists(v) ==
  LET flags == IF "flags" \in DOMAIN v THEN v["flags"][1] ELSE {}
      other == flags \ {0, 1}
      rest  == v["mask"][1] \cap PlayerUnknownBits
      Some(there, n, x) == IF there THEN n :> x ELSE <<>>
  IN  Some(0 \in flags, "fire", <<>>) @@ Some(1 \in flags, "jump", <<>>)
      @@ Some(other # {}, "flag", Ascending(other))
      @@ Some(rest # {}, "unknown_mask_bits", Ascending(rest))
      @@ (IF "weapons" \in DOMAIN v THEN "weapon" :> WeaponList(v["weapons"][1]) ELSE <<>>)
QWD_playerinfo_read(b, p, ver) ==
  LET speed == IF ver >= 27 THEN "short" ELSE "byte"
      tab == <<F("player", "byte"), L("mask", "bits16"), Vec("origin", "coord"),
               F("frame", "byte"), B("ping", "timeofs", "mask", 0), Mask2>>
             \o PlayerMove(ver, speed, speed) \o PlayerRest
      s == ReadTable(tab, <<>>, b, p)
  IN  Read(Msg("playerinfo", 42, DownOf(tab, PlayerNames, PlayerLists(s.v) @@ s.v)), s.p)

\* The case of fire runs on into the one of jump, and that into the one of flag.
PlayerFlags(taken) ==
  UNION {CASE n = "fire" -> {0, 1} [] n = "jump" -> {1} [] n = "flag" -> Range(taken[n].v)
         : n \in DOMAIN taken \cap {"fire", "jump", "flag"}}
\* Behind the speed a node is expected, and another one behind fire and behind
\* jump: without it (up to version 26 there need not be one) the writer looks at
\* the type of a node that is not there.
MoveNames  == Range(SubSeq(PlayerNames, 6, 16))
AfterSpeed == Range(SubSeq(PlayerNames, 14, Len(PlayerNames)))
EndsEarly(taken) == DOMAIN taken \cap MoveNames # {} /\ DOMAIN taken \cap AfterSpeed = {}
WritePlayerinfo(m, taken, ver) ==
  LET flags == PlayerFlags(taken)
      more  == (IF flags # {} THEN "flags" :> Cmd("", "", <<flags>>) ELSE <<>>)
               @@ (IF "weapon" \in DOMAIN taken
                   THEN "weapons" :> Cmd("", "", <<{k - 2 : k \in Range(taken["weapon"].v) \ {1}}>>)
                   ELSE <<>>)
      bits  == IF "unknown_mask_bits" \in DOMAIN taken
               THEN Range(taken["unknown_mask_bits"].v) ELSE {}
  IN  <<m.id>> \o WriteRowsAnd(
        <<F("player", "node"), L("mask", "bits16"), Vec("origin", "node"), F("frame", "node"),
          As(B("ping", "", "mask", 0), "byte"), Mask2>>
        \o PlayerMove(ver, "", IF ver >= 27 THEN "short" ELSE "node") \o PlayerRest,
        more @@ taken, "mask" :> bits)
do_qwd_playerinfo_message_write_bin(m, ver) ==
  LET taken == Take(PlayerNames, m)
  IN  IF EndsEarly(taken) THEN Aborted ELSE WritePlayerinfo(m, taken, ver)

\* nails: three times twelve bits and four bits in five bytes.
QWD_nail(b, p) ==
  LET o == <<b[p] + (b[p + 1] % 16) * 256, (b[p + 1] \div 16) + b[p + 2] * 16,
             b[p + 3] + (b[p + 4] % 16) * 256>>
  IN  Cmd("nail", "", <<Cmd("origin", "short", [i \in 1 .. 3 |-> (o[i] - 2048) * 2]),
                        Cmd("angles_1", "float", <<signed(b[p + 4] \div 16, 4)>>),
                        Cmd("angles_2", "angle", <<signed(b[p + 5], 8)>>)>>)
QWD_nails_read(b, p) ==
  Read(Msg("nails", 43, [i \in 1 .. b[p] |-> QWD_nail(b, p + 1 + (i - 1) * 6)]),
       p + 1 + b[p] * 6)
NailBytes(nail) ==
  LET o == [i \in 1 .. 3 |-> nail[1].v[i] \div 2 + 2048]
      a == nail[2].v[1] % 16
  IN  <<o[1] % 256, ((o[1] \div 256) % 16) + (o[2] % 16) * 16, (o[2] \div 16) % 256,
        o[3] % 256, ((o[3] \div 256) % 16) + a * 16>> \o WriteArguments(nail[3])
do_qwd_nails_message_write_bin(m) ==
  <<m.id, Len(m.down) % 256>> \o FlattenSeq([i \in DOMAIN m.down |-> NailBytes(m.down[i].v)])

QWD_choke_read(b, p) == Cmds("choke", 44, <<F("", "byte")>>, b, p)
ListRows(name, ver) ==
  IF ver >= 26 THEN <<F("first", "byte"), F(name, "strings"), F("next", "byte")>>
  ELSE <<F("", "strings")>>
QWD_modellist_read(b, p, ver) == Cmds("modellist", 45, ListRows("models", ver), b, p)
QWD_soundlist_read(b, p, ver) == Cmds("soundlist", 46, ListRows("sounds", ver), b, p)

(***************************************************************************)
(* packetentities: an entity number and a mask in one short each, up to a  *)
(* short of 0.                                                             *)
(***************************************************************************)
PacketNames == <<"entity", "remove", "modelindex", "frame", "colormap", "skin", "effects",
  "origin_x", "origin_y", "origin_z", "angles_1", "angles_2", "angles_3">>
PacketRows(k, o, a) == <<
  Flag("remove", "mask", 14), Among(L("mask2", "bits8"), "mask", 15),
  B("modelindex", k, "mask2", 2), B("frame", k, "mask", 13), B("colormap", k, "mask2", 3),
  B("skin", k, "mask2", 4), B("effects", k, "mask2", 5), B("origin_x", o, "mask", 9),
  B("angles_1", a, "mask2", 0), B("origin_y", o, "mask", 10), B("angles_2", a, "mask", 12),
  B("origin_z", o, "mask", 11), B("angles_3", a, "mask2", 1)>>
EntityBits == 0 .. 8
QWD_packet_read(type, b, p) ==
  LET tab == <<L("mask", "bits16")>> \o PacketRows("byte", "coord", "angle")
      s   == ReadTable(tab, <<>>, b, p)
      v   == ("entity" :> <<FromBits(s.v["mask"][1] \cap EntityBits)>>) @@ s.v
      down == DownOf(<<F("entity", "byte")>> \o tab, PacketNames, v)
  IN  [v |-> Cmd(type, "", down), p |-> s.p]
\* All entities up to the empty mask.
ReadPackets(ReadOne(_, _), b, p) ==
  FoldLeft(LAMBDA s, i :
             IF s.done THEN s
             ELSE IF get_next_short(b, s.p) = 0 THEN [s EXCEPT !.p = @ + 2, !.done = TRUE]
             ELSE LET g == ReadOne(b, s.p) IN [s EXCEPT !.v = Append(@, g.v), !.p = g.p],
           [v |-> <<>>, p |-> p, done |-> FALSE], b)
QWD_packetentities_read(b, p) ==
  LET s == ReadPackets(LAMBDA c, q : QWD_packet_read("packetentity", c, q), b, p)
  IN  Read(Msg("packetentities", 47, s.v), s.p)
QWD_deltapacketentities_read(b, p) ==
  LET s == ReadPackets(LAMBDA c, q : QWD_packet_read("deltapacketentity", c, q), b, p + 1)
  IN  Read(Msg("deltapacketentities", 48, <<Cmd("frame", "byte", <<b[p]>>)>> \o s.v), s.p)

PacketTaken(packet) == Take(PacketNames, [down |-> packet.v])
do_qwd_packetmask_write_bin(packet) ==
  LET taken == PacketTaken(packet)
      tab   == PacketRows("node", "coord", "angle")
      mask2 == MaskBits(tab, taken, "mask2")
      mask  == MaskBits(tab, taken, "mask") \cup Bits(taken["entity"].v[1], 9)
  IN  WriteHint("bits16", mask) \o (IF mask2 # {} THEN WriteHint("bits8", mask2) ELSE <<>>)
do_qwd_packetdata_write_bin(packet) ==
  WriteRows(SelectSeq(PacketRows("node", "coord", "angle"), LAMBDA row : row.h # ""),
            PacketTaken(packet))
WritePackets(packets) ==
  IF \E i \in DOMAIN packets : packets[i].n # "packetentity" THEN Aborted
  ELSE FlattenSeq([i \in DOMAIN packets |-> do_qwd_packetmask_write_bin(packets[i])
                                            \o do_qwd_packetdata_write_bin(packets[i])])
       \o put_short(0)
do_qwd_packetentities_message_write_bin(m) == <<m.id>> \o WritePackets(m.down)
\* Its entities are expected under the name they have in packetentities.
do_qwd_deltapacketentities_message_write_bin(m) ==
  <<m.id>> \o WriteArguments(m.down[1]) \o WritePackets(Tail(m.down))

QWD_setinfo_read(b, p) ==
  Cmds("setinfo", 51, <<F("player", "byte"), F("name", "string"), F("string", "string")>>, b, p)
QWD_serverinfo_read(b, p) ==
  Cmds("serverinfo", 52, <<F("name", "string"), F("string", "string")>>, b, p)
QWD_updatepl_read(b, p) ==
  Cmds("updatepl", 53, <<F("player", "byte"), F("loss", "byte")>>, b, p)

QwdPlain == (2 :> "disconnect") @@ (27 :> "killedmonster") @@ (28 :> "foundsecret")
  @@ (33 :> "sellscreen") @@ (34 :> "smallkick") @@ (35 :> "bigkick")
QWD_message_read(b, p0, ver) ==
  LET id == b[p0]
      p  == p0 + 1
  IN  CASE id \in DOMAIN QwdPlain -> Read(Msg(QwdPlain[id], id, <<>>), p)
        [] id = 3  -> QWD_updatestat_read(b, p)
        [] id = 6  -> QWD_sound_read(b, p)
        [] id = 8  -> QWD_print_read(b, p)
        [] id = 9  -> Cmds("stufftext", 9, <<F("", "string")>>, b, p)
        [] id = 10 -> Cmds("setangle", 10, <<Vec("", "angle")>>, b, p)
        [] id = 11 -> QWD_serverdata_read(b, p)
        [] id = 12 -> QWD_lightstyle_read(b, p)
        [] id = 14 -> QWD_updatefrags_read(b, p)
        [] id = 16 -> QWD_stopsound_read(b, p)
        [] id = 19 -> QWD_damage_read(b, p)
        [] id = 20 -> QWD_spawnstatic_read(b, p)
        [] id = 22 -> QWD_spawnbaseline_read(b, p)
        [] id = 23 -> QWD_temp_entity_read(b, p)
        [] id = 24 -> Cmds("setpause", 24, <<F("", "byte")>>, b, p)
        [] id = 26 -> Cmds("centerprint", 26, <<F("", "string")>>, b, p)
        [] id = 29 -> QWD_spawnstaticsound_read(b, p)
        [] id = 30 -> QWD_intermission_read(b, p)
        [] id = 31 -> Cmds("finale", 31, <<F("", "string")>>, b, p)
        [] id = 32 -> QWD_cdtrack_read(b, p)
        [] id = 36 -> QWD_updateping_read(b, p)
        [] id = 37 -> QWD_updateentertime_read(b, p)
        [] id = 38 -> QWD_updatestatlong_read(b, p)
        [] id = 39 -> QWD_muzzleflash_read(b, p)
        [] id = 40 -> QWD_updateuserinfo_read(b, p)
        [] id = 41 -> QWD_download_read(b, p)
        [] id = 42 -> QWD_playerinfo_read(b, p, ver)
        [] id = 43 -> QWD_nails_read(b, p)
        [] id = 44 -> QWD_choke_read(b, p)
        [] id = 45 -> QWD_modellist_read(b, p, ver)
        [] id = 46 -> QWD_soundlist_read(b, p, ver)
        [] id = 47 -> QWD_packetentities_read(b, p)
        [] id = 48 -> QWD_deltapacketentities_read(b, p)
        [] id = 49 -> Cmds("maxspeed", 49, <<F("", "float")>>, b, p)
        [] id = 50 -> Cmds("entgravity", 50, <<F("", "float")>>, b, p)
        [] id = 51 -> QWD_setinfo_read(b, p)
        [] id = 52 -> QWD_serverinfo_read(b, p)
        [] id = 53 -> QWD_updatepl_read(b, p)
        [] OTHER   -> do_unknown_message_read_bin(id, b, p)

QWD_message_write(m, ver) ==
  CASE m.type = "unknown"        -> do_unknown_message_write_bin(m)
    [] m.type = "sound"          -> do_qwd_sound_message_write_bin(m)
    [] m.type = "stopsound"      -> do_qwd_stopsound_message_write_bin(m)
    [] m.type = "spawnstatic"    -> do_qwd_spawnstatic_message_write_bin(m)
    [] m.type = "spawnbaseline"  -> do_qwd_spawnbaseline_message_write_bin(m)
    [] m.type = "playerinfo"     -> do_qwd_playerinfo_message_write_bin(m, ver)
    [] m.type = "nails"          -> do_qwd_nails_message_write_bin(m)
    [] m.type = "packetentities" -> do_qwd_packetentities_message_write_bin(m)
    [] m.type = "deltapacketentities" -> do_qwd_deltapacketentities_message_write_bin(m)
    [] OTHER                     -> do_simple_message_write_bin(m)

(***************************************************************************)
(* The head of a block: the time, the kind of block and what is particular *)
(* to the kind.  [kind, head, p]: head are the nodes up to the first game  *)
(* message, which is at p.  Only a game block has messages.  The numbers of*)
(* the blocks are sets of bits, bit 31 says that the block is reliable.    *)
(***************************************************************************)
BlockHead(kind, head, p) == [kind |-> kind, head |-> head, p |-> p]
TimeRow == F("time", "float")

CblockNames == <<"time", "load", "angles", "speed", "fire", "jump", "flag", "impulse",
                 "uk_angles">>
CblockStart == <<F("load", "long"), V("angles", "float", 3), V("speed", "short", 3)>>
QWD_cblock_read(b) ==
  LET tab  == <<TimeRow, L("code", "byte")>> \o CblockStart
              \o <<L("flags", "bits8"), F("impulse", "byte"), V("uk_angles", "float", 3)>>
      s    == ReadTable(tab, <<>>, b, 1)
      kept == {n \in DOMAIN s.v : ~ (n = "impulse" /\ s.v[n] = <<0>>)}
      v    == PlayerLists(s.v @@ ("mask" :> <<{}>>)) @@ [n \in kept |-> s.v[n]]
  IN  BlockHead("cblock", DownOf(tab, CblockNames, v), s.p)
CblockFlags(c) ==
  CASE c.n = "fire" -> {0} [] c.n = "jump" -> {1} [] c.n = "flag" -> Range(c.v) [] OTHER -> {}
QWD_cblock_write(head) ==
  LET taken == Take(CblockNames, [down |-> head])
      flags == UNION {CblockFlags(head[i]) : i \in DOMAIN head}
      more  == ("code" :> Cmd("", "byte", <<0>>)) @@ ("flags" :> Cmd("", "bits8", <<flags>>))
               @@ taken @@ ("impulse" :> Cmd("", "byte", <<0>>))
  IN  WriteRows(<<TimeRow, F("code", "byte")>> \o CblockStart
                \o <<F("flags", "bits8"), F("impulse", "byte"), V("uk_angles", "float", 3)>>,
                more)

\* A block without a connection holds a single message.  The case of challenge
\* runs on into the one of connect, and its text is lost.
ConnlessText == (2 :> "disconnect") @@ (66 :> "client_command") @@ (110 :> "console")
QWD_connless_read(time, b, p0) ==
  LET id   == b[p0]
      text == get_next_string(b, p0 + 1)
      Is(n, down, p) == BlockHead("connless", <<time, Cmd(n, "", down)>>, p)
  IN  CASE id \in DOMAIN ConnlessText -> Is(ConnlessText[id], <<Cmd("", "string", <<text.v>>)>>, text.p)
        [] id = 99  -> Is("connect", <<>>, text.p)
        [] id = 106 -> Is("connect", <<>>, p0 + 1)
        [] id = 107 -> Is("ping", <<>>, p0 + 1)
        [] OTHER    -> Is("id", do_unknown_message_read_bin(id, b, p0 + 1).m.down, Len(b) + 1)
ConnlessId == ("disconnect" :> 2) @@ ("client_command" :> 66) @@ ("challenge" :> 99)
  @@ ("connect" :> 106) @@ ("ping" :> 107) @@ ("console" :> 110)
QWD_connless_write(c) ==
  IF c.n \notin DOMAIN ConnlessId THEN Aborted
  ELSE <<ConnlessId[c.n]>> \o WriteDown(c.v)

Reliable(seq1, seq2) == {i \in 1 .. 2 : 31 \in <<seq1, seq2>>[i]}
QWD_sblock_read(b) ==
  LET tab == <<TimeRow, L("code", "byte"), L("size", "long"), F("seq1", "bits32"),
               F("seq2", "bits32")>>
      s   == ReadTable(tab, <<>>, b, 1)
      rel == Reliable(s.v["seq1"][1], s.v["seq2"][1])
      v   == [n \in DOMAIN s.v |-> IF n \in {"seq1", "seq2"} THEN <<s.v[n][1] \ {31}>>
                                   ELSE s.v[n]]
             @@ (IF rel = {} THEN <<>> ELSE "reliable" :> Ascending(rel))
  IN  IF ReadKind("bits32", b, 10).v = 0 .. 31
      THEN QWD_connless_read(Cmd("time", "float", <<get_next_float(b, 1)>>), b, 14)
      ELSE BlockHead("sblock", DownOf(tab, <<"time", "seq1", "seq2", "reliable">>, v), s.p)
\* Mutant: the node reliable is taken for a flag of both numbers.
SeqBitsBoth(head, k) == head[k + 1].v[1] \cup (IF Len(head) > 3 THEN {31} ELSE {})
SeqBits(head, k) ==
  head[k + 1].v[1] \cup (IF Len(head) > 3 /\ k \in Range(head[4].v) THEN {31} ELSE {})
QWD_sblock_write(kind, head, messages) ==
  LET body == IF kind = "connless"
              THEN WriteHint("bits32", 0 .. 31) \o QWD_connless_write(head[2])
              ELSE WriteHint("bits32", SeqBits(head, 1)) \o WriteHint("bits32", SeqBits(head, 2))
                   \o messages
  IN  WriteArguments(head[1]) \o put_unsigned_char(1) \o put_long(Len(body)) \o body

QWD_fblock_read(b) ==
  LET tab == <<TimeRow, L("code", "byte"), F("seq1", "bits32"), F("seq2", "bits32")>>
      s   == ReadTable(tab, <<>>, b, 1)
  IN  BlockHead("fblock", DownOf(tab, Names(tab), s.v), s.p)
QWD_fblock_write(head) ==
  WriteArguments(head[1]) \o put_unsigned_char(2)
  \o WriteHint("bits32", SeqBits(head, 1)) \o WriteHint("bits32", SeqBits(head, 2))

QWD_head_read(b) ==
  CASE b[5] = 0 -> QWD_cblock_read(b) [] b[5] = 1 -> QWD_sblock_read(b)
    [] b[5] = 2 -> QWD_fblock_read(b)
QWD_head_write(kind, head, messages) ==
  CASE kind = "cblock" -> QWD_cblock_write(head) [] kind = "fblock" -> QWD_fblock_write(head)
    [] OTHER -> QWD_sblock_write(kind, head, messages)

\* serverdata changes the version for everything that is read after it.
QWD_version_after(ms, ver) ==
  FoldLeft(LAMBDA a, m : IF m.type = "serverdata" THEN m.down[1].v[1] ELSE a, ver, ms)
QWD_block_edit(ms) ==
  SelectSeq(ms, LAMBDA m : ~ (m.type = "stufftext" /\ m.down[1].v[1] = <<Reconnect>>))
=============================================================================
