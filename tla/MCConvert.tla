----------------------------- MODULE MCConvert -----------------------------
(* Recordings for Convert.  A message is made of its first bytes, which    *)
(* choose its masks, kinds and counts, and of filler behind them; it ends  *)
(* where its reader ends.                                                  *)
EXTENDS Convert

Filler(k) == [i \in 1 .. 80 |->
  CASE k = 1 -> IF i % 4 = 0 THEN 0 ELSE (i * 7) % 128
    [] k = 2 -> 0
    [] k = 3 -> IF i % 4 = 0 THEN 0 ELSE 255 - i
    [] k = 4 -> i]
Fillers == {Filler(k) : k \in 1 .. 3}
Few(S)  == {{i, j} : i, j \in S} \cup {{}, S}
One(S)  == {{i} : i \in S} \cup {{}, S}
Masks(S, n) == [k \in 1 .. n |-> BitByte(S, k - 1)]
Joined(starts, ends) == {s \o e : s \in starts, e \in ends}

(* Quake *)
DemCut(b) == SubSeq(b, 1, do_message_read_bin(b, 1).p - 1)
DemStarts ==
  {<<i>> : i \in ((0 .. 5) \cup (7 .. 10) \cup (12 .. 14) \cup (16 .. 22) \cup (24 .. 34))}
  \cup {<<6, m>> : m \in 0 .. 3} \cup {<<23, k>> : k \in 0 .. 13}
  \cup {<<15>> \o Masks(S, 2) : S \in Few((0 .. 14) \ {8})}
  \cup {<<128 + FromBits(S \cap (0 .. 6))>>
        \o (IF 0 \in S THEN <<FromBits({i - 7 : i \in S \cap (7 .. 13)})>> ELSE <<>>)
        : S \in Few(0 .. 13)}
DemWhole == {<<11, 15, 0, 0, 0, 4, 1, 65, 0, 66, 0, 67, 0, 0, 68, 0, 0>>, <<60, 1, 2, 3>>, <<60>>}
\* Lists of models and of sounds, one of them or both empty, and what follows them.
DemEmptyLists ==
  Joined({<<11, 15, 0, 0, 0, 4, 1, 65, 0>> \o lists : lists \in {<<0, 68, 0, 0>>, <<66, 0, 0, 0>>, <<0, 0>>}},
         {<<>>, <<1>>, <<9, 70, 0>>, <<7, 0, 0, 1, 1>>, <<9, 70, 0, 7, 0, 0, 1, 1>>})
DemMessages == {DemCut(b) : b \in Joined(DemStarts, Fillers)} \cup DemWhole \cup DemEmptyLists
DemBlock(ms) ==
  LET body == FlattenSeq(ms) IN put_long(Len(body)) \o [i \in 1 .. 12 |-> i] \o body
DemSome == {<<9, Reconnect, 0>>, <<9, 70, 0>>, <<1>>, <<7, 0, 0, 1, 1>>}
DemTrack == <<45, 49, 10>>
DemRecordings ==
  [fmt : {"dem"}, fix : {FALSE}, blocks : {<<DemTrack, DemBlock(<<m>>)>> : m \in DemMessages}]
  \cup [fmt : {"dem"}, fix : BOOLEAN,
        blocks : {<<DemTrack, DemBlock(ms), DemBlock(<<>>), DemBlock(<<m>>)>> :
                    ms \in [1 .. 3 -> DemSome], m \in DemSome}]

(* QuakeWorld *)
Time == <<1, 2, 3, 4>>
Seqs == <<9, 0, 0, 128, 8, 0, 0, 0>>
QwdBlock(ms) ==
  LET body == Seqs \o FlattenSeq(ms) IN Time \o <<1>> \o put_long(Len(body)) \o body
QwdServerdata(v) ==
  <<11>> \o put_long(v) \o <<1, 0, 0, 0, 65, 0, 3, 66, 0>>
  \o (IF v >= 25 THEN [i \in 1 .. 40 |-> i] ELSE <<>>)
QwdStarts ==
  {<<i>> : i \in {2, 3, 8, 9, 10, 12, 14, 16, 19, 20, 22, 24, 44, 49, 50, 51, 52, 53}
                 \cup (26 .. 40)}
  \cup {<<23, k>> : k \in 0 .. 13} \cup {<<6, 9, m>> : m \in {0, 64, 128, 192}}
  \cup {<<41, 2, 0>>, <<41, 255, 255>>, <<41, 0, 0>>, <<43, 0>>, <<43, 2>>}
\* playerinfo, by version: its mask, or with bit 1 of it the second mask.
QwdPlayers == {<<42, 3>> \o Masks(S, 2) : S \in Few((0 .. 15) \ {1})}
  \cup {<<42, 3>> \o Masks(S \cup {1}, 2) \o <<1, 2, 3, 4, 5, 6, 7>> \o Masks(U, 1)
        : S \in {{}, 2 .. 8}, U \in Few(0 .. 7)}
QwdPacket(start) ==
  SubSeq(start, 1, QWD_packet_read("packetentity", start, 1).p - 1)
QwdPackets ==
  {<<47>> \o QwdPacket(b) \o <<0, 0>> :
     b \in Joined({Masks(S \cup {1}, 2) : S \in Few(8 .. 14)}
                  \cup {Masks({0, 15} \cup S, 2) \o Masks(U, 1) : S \in {{}, {9}}, U \in Few(0 .. 5)},
                  Fillers)}
  \cup {<<47, 0, 0>>, <<48, 5, 0, 0>>, <<48, 5, 1, 0, 0, 0>>, <<47, 1, 64, 2, 2, 7, 0, 0, 0>>}
QwdLists(v) == IF v >= 26 THEN {<<45, 0, 65, 0, 66, 0, 0, 2>>, <<46, 4, 67, 0, 0, 0>>}
               ELSE {<<45, 65, 0, 66, 0, 0>>, <<46, 67, 0, 0>>}
QwdEmptyLists(v) ==
  Joined(IF v >= 26 THEN {<<45, 3, 0, 0>>, <<46, 0, 0, 2>>} ELSE {<<45, 0>>, <<46, 0>>},
         {<<>>, <<27>>, <<9, 70, 0>>})
QwdCut(starts, v) == {SubSeq(b, 1, QWD_message_read(b, 1, v).p - 1) : b \in Joined(starts, Fillers)}
QwdMessages(v) ==
  QwdCut(IF v = 0 THEN QwdStarts \cup QwdPlayers ELSE QwdPlayers, v) \cup QwdLists(v) \cup QwdEmptyLists(v)
  \cup (IF v = 0 THEN QwdPackets \cup {<<60, 1, 2>>, <<60>>} ELSE {})
QwdHeads == {<<0>> \o [i \in 1 .. 22 |-> i] \o <<f, k>> \o [i \in 1 .. 12 |-> i] :
              f \in {0, 1, 2, 3, 128, 255}, k \in {0, 5}}
  \cup {<<2>> \o Seqs}
  \cup {<<1, 6, 0, 0, 0, 255, 255, 255, 255, 107>>, <<1, 6, 0, 0, 0, 255, 255, 255, 255, 106>>}
  \cup {<<1, 8, 0, 0, 0, 255, 255, 255, 255, k, 65, 0>> : k \in {2, 66, 99, 110, 50}}
QwdSome == {<<9, Reconnect, 0>>, <<9, 70, 0>>, <<27>>, <<10, 1, 2, 3>>}
QwdRecordings ==
  [fmt : {"qwd"}, fix : {FALSE},
   blocks : UNION {{(IF v = 0 THEN <<>> ELSE <<QwdBlock(<<QwdServerdata(v)>>)>>)
                     \o <<QwdBlock(<<m>>)>> : m \in QwdMessages(v)} : v \in {0, 24, 28}}
            \cup {<<QwdBlock(<<QwdServerdata(26)>>), QwdBlock(<<m>>)>> : m \in QwdLists(26) \cup QwdEmptyLists(26)}
            \cup {<<Time \o h>> : h \in QwdHeads}]
  \cup [fmt : {"qwd"}, fix : BOOLEAN,
        blocks : {<<QwdBlock(ms), QwdBlock(<<m>>)>> : ms \in [1 .. 3 -> QwdSome], m \in QwdSome}]

(* Quake II *)
Long80(k) == Filler(k) \o Filler(k)
Dm2Block(ms) == LET body == FlattenSeq(ms) IN put_long(Len(body)) \o body
Dm2Cut(bs) == {SubSeq(b, 1, DM2_message_read(b, 1, 0, AllTypes).p - 1) : b \in bs}
Dm2Serverdata(v, isdemo) ==
  <<12>> \o put_long(v) \o <<9, 9, 9, 9, isdemo, 65, 0, 255, 255, 66, 0>>
Dm2Starts ==
  {<<i>> : i \in {0, 1, 2, 4, 5, 6, 7, 8, 10, 11, 13, 15}}
  \cup {<<9, FromBits(S), 1>> : S \in SUBSET (0 .. 4)} \cup {<<9, 224, 1>>, <<9, 255, 3>>}
  \cup {<<14>> \o WriteMask(S) : S \in Few(((0 .. 28) \cup {31}) \ {7, 15, 23})}
  \cup {<<128 + i, 3>> : i \in {2, 4, 6, 10, 15}} \cup {<<128 + 14, 3, 1>>, <<128 + 9, 0, 1, 1>>}
Dm2Players == {<<17>> \o Masks(S, 2) : S \in Few(0 .. 14)}
Dm2Packets == {<<18>> \o WriteMask(S) : S \in One(((0 .. 27) \cup {30}) \ {7, 15, 23})}
Dm2Packet(start) == <<18>> \o SubSeq(start, 2, DM2_packet_read(DM2_packet_rows, start, 2).p - 1)
Dm2Messages ==
  Dm2Cut(Joined(Dm2Starts, Fillers) \cup Joined(Dm2Players, {Long80(k) : k \in 1 .. 3}))
  \cup {Dm2Packet(s) \o <<0, 0>> : s \in Joined(Dm2Packets, {Filler(1), Filler(3), Filler(4)})}
  \cup {<<18, 0, 0>>, <<146, 3, 0, 0>>, <<19, 1, 2, 3>>, <<19>>, <<60, 1, 2>>, <<60>>, <<188, 3, 7>>}
Dm2Downloads(v) == {<<16, 255, 255, 0>>, <<144, 7, 0, 0, 9>>}
  \cup {IF v = 34 THEN <<16, 2, 0, 50, 1, 2>> ELSE <<16, 2, 0, 50>>}
Zeros == [i \in 1 .. 30 |-> 0]
Dm2Player == <<17, 0, 0, 0, 0, 0, 0>>
Dm2Frames(v) ==
  {<<20>> \o Seqs \o (IF v = 26 THEN <<>> ELSE <<1>>) \o counts \o follows \o Zeros :
     counts \in {<<0>>, <<2, 5, 6>>, <<1, 7, 3, 1, 2, 3>>, <<0, 1, 4>>, <<33>>},
     follows \in {Dm2Player, <<18, 0, 0>>, <<146, 3, 0, 0>>, <<6>>}}
\* What a server records, and one that is a client's frame as well.
Dm2ServerFrames ==
  {<<20, 1, 2, 3, 4, 18, 17, 5, 1, 2, 2, 17, 6, 1, 17, 0>> \o Zeros,
   <<20, 1, 2, 3, 4, 18, 17, 5, 1, 2, 2, 17, 6, 17, 0, 0>> \o Zeros}
Dm2Some == {<<11, Reconnect, 0>>, <<139, 3, CmdBaselines, 9, 0>>, <<11, Precache, 9, 0>>,
            <<128 + 6, 5>>, <<6>>}
Dm2Edited == {<<8>>, Dm2Serverdata(34, 0), Dm2Serverdata(34, 2), <<11, CmdConfigstrings, 0>>,
              <<11, Record, 70, 0>>, <<11, 0>>, <<11, 70, 0>>, <<16, 2, 0, 50>>, <<4, Reconnect, 0>>}
Dm2Between == <<0, 0, 0, 0>>
Dm2End     == <<255, 255, 255, 255>>
Dm2Recordings ==
  [fmt : {"dm2"}, fix : {FALSE},
   blocks : {<<Dm2Block(<<m>>)>> : m \in Dm2Messages}
     \cup {<<Dm2Block(<<Dm2Serverdata(v, 1)>>), Dm2Block(<<m>>)>> : v \in {26}, m \in Dm2Downloads(26)}
     \cup {<<Dm2Block(<<Dm2Serverdata(34, 1)>>), Dm2Block(<<m>>)>> : m \in Dm2Downloads(34)}]
  \cup [fmt : {"dm2"}, fix : {FALSE},
        blocks : UNION {{<<Dm2Block(<<Dm2Serverdata(v, d)>>), Dm2Block(<<m>>)>> : m \in Dm2Frames(v) \cup Dm2ServerFrames}
                        : v \in {26, 34}, d \in {0, 1, 2, 128, 255}}
                \cup {<<Dm2Block(<<m>>)>> : m \in Dm2ServerFrames}]
  \cup [fmt : {"dm2"}, fix : BOOLEAN,
        blocks : {<<Dm2Block(ms), Dm2Between, Dm2Block(<<m>>), Dm2End>> :
                    ms \in [1 .. 2 -> Dm2Some], m \in Dm2Edited}]

(* Quake III: what a game writes. *)
Dm3Value(bits, k) ==
  IF bits = 0 THEN CASE k = 1 -> {} [] k = 2 -> FloatOf(-100) [] k = 3 -> {0, 24, 30} [] k = 4 -> {31}
  ELSE CASE k = 1 -> 0 [] k = 2 -> 1 [] k = 3 -> IF bits \in {32, -16, -8} THEN -1 ELSE 2^bits - 1
         [] k = 4 -> 2^(Width(bits) - 2)
Dm3To(fields, k) == [i \in DOMAIN fields |-> Dm3Value(fields[i], k)]
Dm3Entity(changed, k) == MSG_WriteDeltaEntity(3, changed, Dm3To(entityStateFields, k), TRUE)
Dm3Array(S) == [i \in S |-> IF i = 0 THEN -1 ELSE i * 300]
Dm3Player(changed, k, S) ==
  MSG_WriteDeltaPlayerstate(changed, Dm3To(playerStateFields, k),
    [a \in Range(ArrayNames) |-> IF a \in S THEN Dm3Array({0, 9, 15}) ELSE <<>>])
Dm3Snapshot(areas, player, entities) ==
  MSG_WriteByte(svc_snapshot) \o MSG_WriteLong(-70000) \o MSG_WriteByte(255) \o MSG_WriteByte(4)
  \o MSG_WriteByte(Len(areas)) \o MSG_WriteData(areas) \o player \o entities
  \o MSG_WriteBits(LastEntity, GENTITYNUM_BITS)
Dm3Command(text) == MSG_WriteByte(svc_serverCommand) \o MSG_WriteLong(7) \o MSG_WriteString(text)
Dm3Config(text) == MSG_WriteByte(svc_configstring) \o MSG_WriteShort(20) \o MSG_WriteBigString(text)
Dm3Gamestate(commands) ==
  MSG_WriteByte(svc_gamestate) \o MSG_WriteLong(5) \o commands \o MSG_WriteByte(svc_EOF)
  \o MSG_WriteLong(1) \o MSG_WriteLong(99999)
Dm3Baseline(changed, k) == MSG_WriteByte(svc_baseline) \o Dm3Entity(changed, k)
Dm3Download(transfer, total, data) ==
  MSG_WriteByte(svc_download) \o MSG_WriteShort(transfer) \o total \o MSG_WriteShort(Len(data))
  \o MSG_WriteData(data)
Dm3Block(messages) ==
  LET body == MSG_WriteLong(12) \o messages \o MSG_WriteByte(svc_EOF)
  IN  put_long(41) \o put_long(Len(body)) \o body
Dm3End == put_long(-1) \o put_long(-1)
Dm3Messages ==
  {Dm3Snapshot(<<>>, Dm3Player({1 + (i % 48)}, k, {}), Dm3Entity({i}, k)) : i \in 1 .. 51, k \in 1 .. 4}
  \cup {Dm3Snapshot(<<1, 255>>, Dm3Player({}, 1, S), <<>>) : S \in SUBSET Range(ArrayNames)}
  \cup {Dm3Snapshot(<<1>>, Dm3Player(1 .. 48, 3, {"ammos"}), Dm3Entity(1 .. 51, 3) \o MSG_RemoveEntity(5)),
        Dm3Snapshot(<<1>>, Dm3Player({}, 1, {}), Dm3Entity({}, 1)), MSG_WriteByte(svc_nop)}
  \cup {Dm3Command(t) : t \in {<<>>, <<65>>, <<65, 37, 66>>, <<65, 66, 67, 68>>, <<65, 66, 67, 68, 69>>}}
  \cup {Dm3Gamestate(Dm3Config(t)) : t \in {<<>>, <<65>>, <<37, 65, 66>>, <<65, 66, 67, 68, 69, 70>>}}
  \cup {Dm3Gamestate(Dm3Config(<<65>>) \o Dm3Baseline({k, 20}, k) \o Dm3Config(<<66>>)) : k \in 1 .. 4}
  \cup {Dm3Download(0, MSG_WriteLong(700), <<1, 2>>), Dm3Download(4, <<>>, <<3>>), Dm3Download(5, <<>>, <<>>)}
Dm3Some == {Dm3Command(<<65>>), MSG_WriteByte(svc_nop), Dm3Snapshot(<<>>, Dm3Player({2}, 2, {}), Dm3Entity({2}, 2))}
Dm3Recordings ==
  [fmt : {"dm3"}, fix : {FALSE},
   blocks : {<<Dm3Block(m), Dm3End>> : m \in Dm3Messages}
            \cup {<<Dm3Block(Dm3Gamestate(<<>>)), Dm3Block(m \o n), Dm3Block(<<>>)>> : m, n \in Dm3Some}]

MCRecordings == DemRecordings \cup QwdRecordings \cup Dm2Recordings \cup Dm3Recordings
\* One message that the editor removes for one client, and one for all behind it.
MCRemoved == [fmt : {"dm2"}, fix : {TRUE}, blocks : {<<Dm2Block(<<<<139, 3, CmdBaselines, 9, 0>>, <<6>>>>)>>}]
\* The delta packets of QuakeWorld, without and with an entity.
MCDelta == [fmt : {"qwd"}, fix : {FALSE},
            blocks : {<<QwdBlock(<<m>>)>> : m \in {<<48, 5, 0, 0>>, <<48, 5, 1, 2, 7, 0, 0, 0>>}}]
MCNoStrays == {<<>>}
MCStrays == {<<>>, <<9>>}
=============================================================================
