------------------------------- MODULE DemFile -------------------------------
(***************************************************************************)
(* udem.c: the messages of a Quake recording.  do_X_message_read_bin reads *)
(* message X at p and gives the node and the place after it; the writers   *)
(* that go beyond a list of arguments follow.  Comments of nodes are left  *)
(* out.                                                                    *)
(***************************************************************************)
EXTENDS Layout

Vec(n, k) == V(n, k, 3)

\* Mutant: the place after the message is one too far.
UnknownOneTooFar(id, b, p) ==
  Read(Msg("unknown", id, <<Cmd("id", "byte", <<id>>)>>), Len(b) + 2)
do_unknown_message_read_bin(id, b, p) ==
  Read(Msg("unknown", id, <<Cmd("id", "byte", <<id>>)>>
                          \o (IF p > Len(b) THEN <<>>
                              ELSE <<Cmd("data", "byte", SubSeq(b, p, Len(b)))>>)),
       Len(b) + 1)
do_bad_message_read_bin(p)         == Read(Msg("bad", 0, <<>>), p)
do_nop_message_read_bin(p)         == Read(Msg("nop", 1, <<>>), p)
do_disconnect_message_read_bin(p)  == Read(Msg("disconnect", 2, <<>>), p)
do_updatestat_message_read_bin(b, p) ==
  ReadMsg("updatestat", 3, <<F("index", "byte"), F("value", "long")>>, b, p)
do_version_message_read_bin(b, p)  == ReadMsg("version", 4, <<F("", "long")>>, b, p)
do_setview_message_read_bin(b, p)  == ReadMsg("setview", 5, <<F("", "short")>>, b, p)

\* Channel and entity are packed into one short.
Unpacked(v, mask) ==
  LET ec == v["entity_channel"][1]
  IN  ("channel" :> <<ec % 8>>) @@ ("entity" :> <<(ec \div 8) % mask>>) @@ v
Packed(taken, mask) ==
  "entity_channel" :> Cmd("", "short",
    <<(taken["channel"].v[1] % 8) + (taken["entity"].v[1] % mask) * 8>>)

SoundNames == <<"vol", "attenuation", "channel", "entity", "soundnum", "origin">>
do_sound_message_read_bin(b, p) ==
  LET tab == <<L("mask", "bits8"), B("vol", "vol", "mask", 0),
               B("attenuation", "att", "mask", 1), L("entity_channel", "ushort"),
               F("soundnum", "byte"), Vec("origin", "coord")>>
      s == ReadTable(tab, <<>>, b, p)
  IN  Read(Msg("sound", 6, DownOf(tab, SoundNames, Unpacked(s.v, 8192))), s.p)
do_dem_sound_message_write_bin(m) ==
  LET taken == Take(SoundNames, m)
  IN  <<m.id>> \o WriteRows(
        <<L("mask", "bits8"), As(B("vol", "", "mask", 0), "node"),
          As(B("attenuation", "", "mask", 1), "node"), F("entity_channel", "short"),
          F("soundnum", "node"), Vec("origin", "node")>>,
        Packed(taken, 8192) @@ taken)

do_time_message_read_bin(b, p)      == ReadMsg("time", 7, <<F("", "float")>>, b, p)
do_print_message_read_bin(b, p)     == ReadMsg("print", 8, <<F("", "string")>>, b, p)
do_stufftext_message_read_bin(b, p) == ReadMsg("stufftext", 9, <<F("", "string")>>, b, p)
do_setangle_message_read_bin(b, p)  == ReadMsg("setangle", 10, <<Vec("", "angle")>>, b, p)
do_serverinfo_message_read_bin(b, p) ==
  ReadMsg("serverinfo", 11,
    <<F("serverversion", "long"), F("maxclients", "byte"), F("multi", "byte"),
      F("mapname", "string"), F("models", "strings"), F("sounds", "strings")>>, b, p)
do_lightstyle_message_read_bin(b, p) ==
  ReadMsg("lightstyle", 12, <<F("style", "byte"), F("string", "string")>>, b, p)
do_updatename_message_read_bin(b, p) ==
  ReadMsg("updatename", 13, <<F("player", "byte"), F("netname", "string")>>, b, p)
do_updatefrags_message_read_bin(b, p) ==
  ReadMsg("updatefrags", 14, <<F("player", "byte"), F("frags", "short")>>, b, p)

(***************************************************************************)
(* clientdata: the bytes are in another order than the nodes, and the bits *)
(* of items and weapon are sorted into lists of numbers.  The items are    *)
(* read whether their mask bit is set or not.                              *)
(***************************************************************************)
ClientdataRows(h) == <<
  L("mask", "bits16"),
  As(B("view_ofs_z", "char", "mask", 0), "bytefloat"),
  As(B("punchangle_x", "char", "mask", 1), "bytefloat"),
  As(B("angles_1", "char", "mask", 2), h), As(B("vel_x", "char", "mask", 5), "bytefloat"),
  As(B("angles_2", "char", "mask", 3), h), As(B("vel_y", "char", "mask", 6), "bytefloat"),
  As(B("angles_3", "char", "mask", 4), h), As(B("vel_z", "char", "mask", 7), "bytefloat")>>
ClientdataState == <<
  B("weaponframe", "byte", "mask", 12), B("armorvalue", "byte", "mask", 13),
  B("weaponmodel", "byte", "mask", 14), F("health", "short"), F("currentammo", "byte"),
  F("ammo_shells", "byte"), F("ammo_nails", "byte"), F("ammo_rockets", "byte"),
  F("ammo_cells", "byte")>>
ItemNames == <<"weapons", "ammotype", "armortype", "megahealth", "keys", "power_ups",
               "uk_items_b23", "uk_items_b24", "uk_items_b25", "uk_items_b26",
               "uk_items_b27", "runes">>
ClientdataNames ==
  <<"view_ofs_z", "punchangle_x", "angles_1", "angles_2", "angles_3", "vel_x", "vel_y",
    "vel_z">> \o ItemNames \o <<"uk_bit_b10", "uk_bit_b11">>
  \o Names(ClientdataState) \o <<"weapon">>

\* The bit of items that number k of a list stands for; flags have number 0.
ItemBits == ("weapons" :> <<12, 0, 1, 2, 3, 4, 5, 6, 7>>) @@ ("ammotype" :> <<8, 9, 10, 11>>)
  @@ ("armortype" :> <<13, 14, 15>>) @@ ("keys" :> <<17, 18>>)
  @@ ("power_ups" :> <<19, 20, 21, 22>>) @@ ("runes" :> <<28, 29, 30, 31>>)
ItemFlags == ("megahealth" :> 16) @@ ("uk_items_b23" :> 23) @@ ("uk_items_b24" :> 24)
  @@ ("uk_items_b25" :> 25) @@ ("uk_items_b26" :> 26) @@ ("uk_items_b27" :> 27)
Numbers(seq, S) == Ascending({k \in DOMAIN seq : seq[k] \in S})
ItemLists(S) ==
  [n \in {a \in DOMAIN ItemBits : Range(ItemBits[a]) \cap S # {}} |-> Numbers(ItemBits[n], S)]
  @@ [n \in {a \in DOMAIN ItemFlags : ItemFlags[a] \in S} |-> <<>>]

WeaponList(S) == IF S = {} THEN <<1>>
                 ELSE Ascending({i + 2 : i \in S})
do_clientdata_message_read_bin(b, p) ==
  LET tab == ClientdataRows("angle") \o <<L("items", "bits32")>> \o ClientdataState
             \o <<L("weapon_bits", "bits8"), Flag("uk_bit_b10", "mask", 10),
                  Flag("uk_bit_b11", "mask", 11)>>
      s == ReadTable(tab, <<>>, b, p)
      v == s.v @@ ItemLists(s.v["items"][1]) @@ ("weapon" :> WeaponList(s.v["weapon_bits"][1]))
      down == DownOf(tab, ClientdataNames, v)
  IN  Read(Msg("clientdata", 15, down), s.p)

\* The writer's way back from a number to its bit.
ItemBit(n, k) ==
  CASE n = "weapons"   -> IF k = 1 THEN 12 ELSE k - 2
    [] n = "ammotype"  -> 7 + k
    [] n = "armortype" -> 12 + k
    [] n = "keys"      -> 16 + k
    [] n = "power_ups" -> 18 + k
    [] n = "runes"     -> 27 + k
ItemFlag(n) == CASE n = "megahealth" -> 16 [] n = "uk_items_b23" -> 23
  [] n = "uk_items_b24" -> 24 [] n = "uk_items_b25" -> 25 [] n = "uk_items_b26" -> 26
  [] n = "uk_items_b27" -> 27
Items(taken) ==
  UNION {IF n \in DOMAIN ItemBits THEN {ItemBit(n, k) : k \in Range(taken[n].v)}
         ELSE {ItemFlag(n)} : n \in DOMAIN taken \cap Range(ItemNames)}
do_dem_clientdata_message_write_bin(m) ==
  LET taken == Take(ClientdataNames, m)
      more  == ("items" :> Cmd("items", "bits32", <<Items(taken)>>))
               @@ ("weapon" :> Cmd("weapon", "bits8",
                                   <<{k - 2 : k \in Range(taken["weapon"].v) \ {1}}>>))
  IN  <<m.id>> \o WriteRows(
        ClientdataRows("char") \o <<B("items", "bits32", "mask", 9)>> \o ClientdataState
        \o <<F("weapon", "bits8"), Flag("uk_bit_b10", "mask", 10),
             Flag("uk_bit_b11", "mask", 11)>>, more @@ taken)

do_stopsound_message_read_bin(b, p) ==
  LET s == ReadTable(<<L("entity_channel", "ushort")>>, <<>>, b, p)
  IN  Read(Msg("stopsound", 16, DownOf(<<>>, <<"channel", "entity">>, Unpacked(s.v, 8192))),
           s.p)
do_dem_stopsound_message_write_bin(m) ==
  <<m.id>> \o WriteRows(<<F("entity_channel", "short")>>,
                        Packed(Take(<<"channel", "entity">>, m), 8192))
do_updatecolors_message_read_bin(b, p) ==
  LET colors == b[p + 1]
  IN  Read(Msg("updatecolors", 17,
             <<Cmd("player", "byte", <<b[p]>>),
               Cmd("colors", "", <<(colors \div 16) % 16, colors % 16>>)>>), p + 2)
do_dem_updatecolors_message_write_bin(m) ==
  LET c == m.down[2].v
  IN  <<m.id>> \o WriteArguments(m.down[1]) \o <<(c[1] % 16) * 16 + (c[2] % 16)>>

do_particle_message_read_bin(b, p) ==
  ReadMsg("particle", 18, <<Vec("origin", "coord"), Vec("vel", "vel"), F("count", "byte"),
                            F("color", "byte")>>, b, p)
do_damage_message_read_bin(b, p) ==
  ReadMsg("damage", 19, <<F("save", "byte"), F("take", "byte"), Vec("origin", "coord")>>, b, p)

\* The coordinates and the angles of an entity alternate.
Placed(o, a) == <<F(o, "coord"), F(a, "angle"), F(o, "coord"), F(a, "angle"),
                  F(o, "coord"), F(a, "angle")>>
PlacedNode(o, a) == [i \in 1 .. 6 |-> F(IF i % 2 = 1 THEN o ELSE a, "node")]
StaticNames == <<"default_modelindex", "default_frame", "default_colormap", "default_skin",
                 "default_origin", "default_angles">>
StaticRows(k) == [i \in 1 .. 4 |-> F(StaticNames[i], k)]
do_spawnstatic_message_read_bin(b, p) ==
  ReadMsg("spawnstatic", 20,
    StaticRows("byte") \o Placed("default_origin", "default_angles"), b, p)
do_dem_spawnstatic_message_write_bin(m) ==
  <<m.id>> \o WriteTable(StaticRows("node") \o PlacedNode("default_origin", "default_angles"),
                         StaticNames, m)
do_spawnbinary_message_read_bin(p) == Read(Msg("spawnbinary", 21, <<>>), p)
do_spawnbaseline_message_read_bin(b, p) ==
  ReadMsg("spawnbaseline", 22,
    <<F("entity", "short")>> \o StaticRows("byte")
    \o Placed("default_origin", "default_angles"), b, p)
do_dem_spawnbaseline_message_write_bin(m) ==
  <<m.id>> \o WriteTable(
    <<F("entity", "node")>> \o StaticRows("node")
    \o PlacedNode("default_origin", "default_angles"), <<"entity">> \o StaticNames, m)

do_temp_entity_message_read_bin(b, p) ==
  LET beam  == {5, 6, 9, 13}
      point == {0, 1, 2, 3, 4, 7, 8, 10, 11, 12}
  IN  ReadMsg("temp_entity", 23,
        <<F("entitytype", "byte"), T("entity", "short", "entitytype", beam),
          Times(T("origin", "coord", "entitytype", beam \cup point), 3),
          Times(T("trace_endpos", "coord", "entitytype", beam), 3),
          T("color", "byte", "entitytype", {12}), T("range", "byte", "entitytype", {12})>>,
        b, p)
do_setpause_message_read_bin(b, p)    == ReadMsg("setpause", 24, <<F("", "byte")>>, b, p)
do_signonnum_message_read_bin(b, p)   == ReadMsg("signonnum", 25, <<F("", "byte")>>, b, p)
do_centerprint_message_read_bin(b, p) == ReadMsg("centerprint", 26, <<F("", "string")>>, b, p)
do_killedmonster_message_read_bin(p)  == Read(Msg("killedmonster", 27, <<>>), p)
do_foundsecret_message_read_bin(p)    == Read(Msg("foundsecret", 28, <<>>), p)
do_spawnstaticsound_message_read_bin(b, p) ==
  ReadMsg("spawnstaticsound", 29,
    <<Vec("origin", "coord"), F("soundnum", "byte"), F("vol", "vol"),
      F("attenuation", "att")>>, b, p)
do_intermission_message_read_bin(p)   == Read(Msg("intermission", 30, <<>>), p)
do_finale_message_read_bin(b, p)      == ReadMsg("finale", 31, <<F("", "string")>>, b, p)
do_cdtrack_message_read_bin(b, p) ==
  ReadMsg("cdtrack", 32, <<F("fromtrack", "byte"), F("totrack", "byte")>>, b, p)
do_sellscreen_message_read_bin(p)     == Read(Msg("sellscreen", 33, <<>>), p)
do_cutscene_message_read_bin(b, p)    == ReadMsg("cutscene", 34, <<F("", "string")>>, b, p)

(***************************************************************************)
(* updateentity: its id is the mask.  mask2 are the bits from 0x0100 on.   *)
(***************************************************************************)
EntityNames == <<"entity", "modelindex", "frame", "colormap", "skin", "effects", "origin_x",
                 "origin_y", "origin_z", "angles_1", "angles_2", "angles_3", "new">>
EntityRows(o, a) == <<
  B("origin_x", o, "mask", 1), B("angles_1", a, "mask2", 0), B("origin_y", o, "mask", 2),
  B("angles_2", a, "mask", 4), B("origin_z", o, "mask", 3), B("angles_3", a, "mask2", 1),
  Flag("new", "mask", 5)>>
EntityLook(k) == <<
  B("modelindex", k, "mask2", 2), B("frame", k, "mask", 6), B("colormap", k, "mask2", 3),
  B("skin", k, "mask2", 4), B("effects", k, "mask2", 5)>>
do_updateentity_message_read_bin(b, p, mask) ==
  LET tab == <<Among(L("mask2", "bits8"), "mask", 0),
               B("entity", "short", "mask2", 6), As(X("entity", "byte", "mask2", {6}), "short")>>
             \o EntityLook("byte") \o EntityRows("coord", "angle")
  IN  ReadMsgIn("updateentity", 128, tab, EntityNames, "mask" :> <<mask>>, b, p)
do_dem_updateentity_message_write_bin(m) ==
  LET taken  == Take(EntityNames, m)
      entity == taken["entity"].v[1]
      wide   == IF entity > 255 THEN {6} ELSE {}
      tab    == EntityLook("node") \o EntityRows("coord", "angle")
      mask2  == MaskBits(tab, taken, "mask2") \cup wide
      mask   == MaskBits(tab, taken, "mask") \cup (IF mask2 = {} THEN {} ELSE {0})
  IN  <<BitByte(mask, 0) + 128>> \o (IF mask2 = {} THEN <<>> ELSE <<BitByte(mask2, 0)>>)
      \o (IF wide # {} THEN WriteArguments(taken["entity"]) ELSE put_unsigned_char(entity))
      \o WriteRows(tab, taken)

do_message_read_bin(b, p0) ==
  LET id == b[p0]
      p  == p0 + 1
  IN  CASE id = 0  -> do_bad_message_read_bin(p)
        [] id = 1  -> do_nop_message_read_bin(p)
        [] id = 2  -> do_disconnect_message_read_bin(p)
        [] id = 3  -> do_updatestat_message_read_bin(b, p)
        [] id = 4  -> do_version_message_read_bin(b, p)
        [] id = 5  -> do_setview_message_read_bin(b, p)
        [] id = 6  -> do_sound_message_read_bin(b, p)
        [] id = 7  -> do_time_message_read_bin(b, p)
        [] id = 8  -> do_print_message_read_bin(b, p)
        [] id = 9  -> do_stufftext_message_read_bin(b, p)
        [] id = 10 -> do_setangle_message_read_bin(b, p)
        [] id = 11 -> do_serverinfo_message_read_bin(b, p)
        [] id = 12 -> do_lightstyle_message_read_bin(b, p)
        [] id = 13 -> do_updatename_message_read_bin(b, p)
        [] id = 14 -> do_updatefrags_message_read_bin(b, p)
        [] id = 15 -> do_clientdata_message_read_bin(b, p)
        [] id = 16 -> do_stopsound_message_read_bin(b, p)
        [] id = 17 -> do_updatecolors_message_read_bin(b, p)
        [] id = 18 -> do_particle_message_read_bin(b, p)
        [] id = 19 -> do_damage_message_read_bin(b, p)
        [] id = 20 -> do_spawnstatic_message_read_bin(b, p)
        [] id = 21 -> do_spawnbinary_message_read_bin(p)
        [] id = 22 -> do_spawnbaseline_message_read_bin(b, p)
        [] id = 23 -> do_temp_entity_message_read_bin(b, p)
        [] id = 24 -> do_setpause_message_read_bin(b, p)
        [] id = 25 -> do_signonnum_message_read_bin(b, p)
        [] id = 26 -> do_centerprint_message_read_bin(b, p)
        [] id = 27 -> do_killedmonster_message_read_bin(p)
        [] id = 28 -> do_foundsecret_message_read_bin(p)
        [] id = 29 -> do_spawnstaticsound_message_read_bin(b, p)
        [] id = 30 -> do_intermission_message_read_bin(p)
        [] id = 31 -> do_finale_message_read_bin(b, p)
        [] id = 32 -> do_cdtrack_message_read_bin(b, p)
        [] id = 33 -> do_sellscreen_message_read_bin(p)
        [] id = 34 -> do_cutscene_message_read_bin(b, p)
        [] id >= 128 -> do_updateentity_message_read_bin(b, p, Bits(id, 7))
        [] OTHER -> do_unknown_message_read_bin(id, b, p)

\* In front of the blocks is the CD track, a text without a NUL.  The head of a
\* block: size and camera.
do_track_read_bin(b) == Msg("track", 0, <<Cmd("", "string", <<b>>)>>)
DEM_head_read_bin(b) ==
  ReadMsg("camera", 0, <<L("size", "long"), V("", "float", 3)>>, b, 1)

DEM_message_write_bin(m) ==
  CASE m.type = "unknown"       -> do_unknown_message_write_bin(m)
    [] m.type = "sound"         -> do_dem_sound_message_write_bin(m)
    [] m.type = "clientdata"    -> do_dem_clientdata_message_write_bin(m)
    [] m.type = "stopsound"     -> do_dem_stopsound_message_write_bin(m)
    [] m.type = "updatecolors"  -> do_dem_updatecolors_message_write_bin(m)
    [] m.type = "spawnstatic"   -> do_dem_spawnstatic_message_write_bin(m)
    [] m.type = "spawnbaseline" -> do_dem_spawnbaseline_message_write_bin(m)
    [] m.type = "updateentity"  -> do_dem_updateentity_message_write_bin(m)
    [] OTHER                    -> do_simple_message_write_bin(m)

\* The messages after the camera are written behind the place of the size; a block
\* that has none is not written.
DEM_track_write_bin(track) == track.down[1].v[1]
DEM_head_write_bin(camera, messages) ==
  put_long(Len(messages)) \o WriteDown(camera.down) \o messages
DEM_block_write_bin(kind, head, nodes, messages) ==
  IF kind = "track" THEN DEM_track_write_bin(head)
  ELSE IF nodes = <<>> THEN <<>> ELSE DEM_head_write_bin(head, messages)

\* opFixMulti: every message that makes the client reconnect is unlinked.
CONSTANT Reconnect   \* the symbol of "reconnect\n"
DEM_block_edit(ms) ==
  SelectSeq(ms, LAMBDA m : ~ (m.type = "stufftext" /\ m.down[1].v[1] = <<Reconnect>>))
=============================================================================
