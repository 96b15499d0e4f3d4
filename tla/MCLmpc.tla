------------------------------- MODULE MCLmpc -------------------------------
(* LMP files and recordings for Lmpc. *)
EXTENDS Lmpc

(* LMP: the players of a file, the tics one after the other. *)
Slots(n) == [s \in 0 .. n - 1 |-> s % 3]
LmpOf(game, field, players) ==
  [game |-> {game}, field |-> [n \in FieldNames |-> IF n \in DOMAIN field THEN field[n] ELSE 0],
   players |-> players, stics |-> 0]
Tic(game, i, use) ==
  <<i, i + 1, IF game \in {"DOOM_old", "HERETIC"} THEN 0 ELSE i % 256, use>>
  \o (IF Layouts[game].ticsize = 6 THEN <<i, 0>> ELSE <<>>)
LmpBytes(l, game, uses) ==
  LMP_writeheader(l) \o FlattenSeq([i \in DOMAIN uses |-> Tic(game, i, uses[i])]) \o <<128>>

NoOpt == [game |-> {}, version |-> <<>>, player |-> <<>>, wt |-> 0,
          pause |-> FALSE, save |-> FALSE, same |-> TRUE]
Doom == LmpOf("DOOM_new", [versionbyte |-> 106, skill |-> 2, episode |-> 1, map |-> 3,
                           multirule |-> 1, fast |-> 1, mainplayer |-> 1], Slots(2))
Uses == {0, 129, 130, 195}
PauseConversions ==
  [lfile : {[bytes |-> LmpBytes([Doom EXCEPT !.players = Slots(k)], "DOOM_new", u), recent |-> FALSE]
            : k \in 1 .. 2, u \in [1 .. 5 -> Uses]},
   opt   : {[NoOpt EXCEPT !.pause = o[1], !.save = o[2], !.same = o[3], !.wt = o[4]]
            : o \in {<<TRUE, FALSE, TRUE, 0>>, <<TRUE, TRUE, FALSE, 1>>, <<FALSE, TRUE, TRUE, 0>>,
                     <<FALSE, FALSE, FALSE, 0>>, <<FALSE, FALSE, TRUE, 1>>}}]

Old(game, map, players) == LmpOf(game, [skill |-> 2, episode |-> 1, map |-> map], players)
HeaderLmps ==
  {<<"DOOM_old", Old("DOOM_old", 3, Slots(k))>> : k \in {1, 4}}
  \cup {<<"HERETIC", [Old("HERETIC", 3, Slots(2)) EXCEPT !.field["episode"] = e]>> : e \in {1, 2}}
  \cup {<<"HEXEN_old", Old("HEXEN_old", m, Slots(k))>> : m \in {3, 12}, k \in {1, 3}}
  \cup {<<"HEXEN_new", Old("HEXEN_new", m, Slots(k))>> : m \in {3, 12}, k \in {1, 3, 8}}
  \cup {<<"HEXEN_new", Old("HEXEN_new", 12, [s \in {0, 5} |-> 2])>>}
  \cup {<<"DOOM_new", [Doom EXCEPT !.field["episode"] = e, !.field["map"] = m]>> : e \in {1, 2}, m \in {3, 12}}
  \cup {<<"STRIFE", LmpOf("STRIFE", [versionbyte |-> 101, skill |-> 1, map |-> 5, multirule |-> 2,
                                     mainplayer |-> 0], Slots(k))>> : k \in {2, 8}}
\* "1.0" and "1.1" are version 0 unless the game is Hexen.
Versions == {<<>>, <<0, 0>>, <<0, 16>>, <<0, 32>>, <<16, 16>>, <<106, 106>>, <<109, 109>>, <<101, 101>>}
HeaderConversions ==
  [lfile : {[bytes |-> LmpBytes(l[2], l[1], [i \in 1 .. n |-> 0]), recent |-> r]
            : l \in HeaderLmps, n \in 5 .. 7, r \in BOOLEAN},
   opt   : {[NoOpt EXCEPT !.game = g, !.version = v, !.player = o[1], !.same = o[2], !.pause = o[3]]
            : g \in GamesNamed, v \in Versions,
              o \in {<<<<>>, TRUE, FALSE>>, <<<<1>>, TRUE, FALSE>>, <<<<0>>, FALSE, TRUE>>}}]
MCConversions == PauseConversions \cup HeaderConversions

(* Quake and Quake II *)
PrintOf(level, symbol, n) == <<10, level>> \o Text(symbol, n) \o <<0>>
\* A message that is longer than a few commands.
Long == PrintOf(1, 70, 70)
DemChoice == {<<8>> \o Text(70, 30) \o <<0>>, <<9>> \o Text(Reconnect, 10) \o <<0>>, <<1>>, <<9, 70, 0>>, <<9, 70, 9>> \o Text(Reconnect, 10) \o <<0>>}
DemRepairable ==
  {[ikind |-> "dem", original |-> [track |-> <<45, 49, 10>>, blocks |-> <<a, <<>>, <<b>>>>, end |-> <<>>]]
   : a \in UNION {[1 .. k -> DemChoice] : k \in 1 .. 4}, b \in DemChoice}
Serverdata(isdemo) == <<12, 34, 0, 0, 0, 9, 9, 9, 9, isdemo, 65, 0, 255, 255, 66, 0>>
Stufftext(symbol, n, args) == <<11>> \o Text(symbol, n) \o args \o <<0>>
Commands == {Stufftext(Reconnect, 10, <<>>), Stufftext(CmdConfigstrings, 18, <<57>>),
             Stufftext(CmdBaselines, 14, <<57, 57>>), Stufftext(Record, 7, <<70>>),
             Stufftext(Precache, 9, <<57>>), Stufftext(Precache, 9, <<57, 57, 57>>),
             <<16, 255, 255, 0>>}
Dm2Choice == Commands \cup {<<6>>, <<8>>, PrintOf(2, Restarted, 17), <<11, 70, 0>>,
                            <<10, 1, 65, 0>>, <<16, 2, 0, 50>>,
              <<9, 4, 1, 16, 255, 255, 0, 0, 0>>}
Dm2First == {Serverdata(0), Serverdata(1), <<139, 3>> \o Text(Reconnect, 10) \o <<0>>}
EndBlock == <<255, 255, 255, 255>>
Dm2Repairable ==
  [ikind : {"dm2"},
   original : [track : {<<>>}, end : {<<>>, EndBlock},
               blocks : {<<<<a, b, c>>>> : a \in Dm2Choice, b \in Dm2Choice, c \in Dm2Choice}
                 \cup {<<<<Long, a, b, c>>>> : a, b, c \in Commands}
                 \cup {<<<<a, b>>, <<c>>>> : a \in Dm2First, b \in Dm2Choice, c \in Dm2Choice}
                 \cup {<<x, y, z, <<a>>>> : x, y, z \in {<<>>, <<<<6>>>>}, a \in Dm2Choice \cup Dm2First}
                 \cup {<<<<a>>, <<>>>> : a \in Dm2Choice}]]
MCRepairable == DemRepairable \cup Dm2Repairable
=============================================================================
