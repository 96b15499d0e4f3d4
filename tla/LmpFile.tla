------------------------------- MODULE LmpFile -------------------------------
(***************************************************************************)
(* ulmp.c: the header of an LMP file (Doom, Heretic, Hexen, Strife), which *)
(* has no mark that names its game, and what the program guesses from it.  *)
(* A file is a sequence of bytes: the header, the tics, one more byte.  A  *)
(* tic belongs to one player; it has 4 or 6 bytes, the 4th is "use".       *)
(***************************************************************************)
EXTENDS Binblock

CONSTANTS MINBUF,   \* 2000, the length from which on the tics are looked at
          MAXBUF    \* 60000, the bytes of the file that are looked at
\* The loops over the tics start inside of the shortest file they are used for.
ASSUME MinbufAssumption == MINBUF \in Nat /\ MINBUF > 21
ASSUME MaxbufAssumption == MAXBUF \in Nat /\ MAXBUF >= MINBUF

\* The fields in front of the players, the players there can be, the bytes of a tic.
OldFields == <<"skill", "episode", "map">>
Layouts == [
  DOOM_old  |-> [fields |-> OldFields, maxplayer |-> 4, ticsize |-> 4],
  HERETIC   |-> [fields |-> OldFields, maxplayer |-> 4, ticsize |-> 6],
  HEXEN_old |-> [fields |-> OldFields, maxplayer |-> 4, ticsize |-> 6],
  HEXEN_new |-> [fields |-> OldFields, maxplayer |-> 8, ticsize |-> 6],
  DOOM_new  |-> [fields |-> <<"versionbyte", "skill", "episode", "map", "multirule", "respawn",
                              "fast", "nomonsters", "mainplayer">>, maxplayer |-> 4, ticsize |-> 4],
  DOOM2     |-> [fields |-> <<"versionbyte", "skill", "episode", "map", "multirule", "respawn",
                              "fast", "nomonsters", "mainplayer">>, maxplayer |-> 4, ticsize |-> 4],
  STRIFE    |-> [fields |-> <<"versionbyte", "skill", "map", "multirule", "respawn", "fast",
                              "nomonsters", "mainplayer">>, maxplayer |-> 8, ticsize |-> 6]]
Games  == DOMAIN Layouts
Hexen  == {"HEXEN_old", "HEXEN_new"}
NewDoom == {"DOOM_new", "DOOM2"}
FieldNames == Range(Layouts["DOOM_new"].fields)

\* A player has one byte in the header, in Hexen another one for the class.
BytesOfPlayer(g) == IF g \in Hexen THEN 2 ELSE 1
HeaderSize(g) == Len(Layouts[g].fields) + BytesOfPlayer(g) * Layouts[g].maxplayer
Fits(b, g) == (Len(b) - 1 - HeaderSize(g)) % Layouts[g].ticsize = 0

(***************************************************************************)
(* LMP_self_determine_type: the games the file may be of, none if it is an *)
(* error.  Three tests are left to guess: the mean of the third byte of    *)
(* the tics is nearer to 0 for the right game; recent, the file is of 1996 *)
(* or later.                                                               *)
(***************************************************************************)
Buffered(b) == IF Len(b) > MAXBUF THEN MAXBUF ELSE Len(b)
Turns(b, g) == {i \in HeaderSize(g) + 3 .. Buffered(b) : (i - HeaderSize(g) - 3) % Layouts[g].ticsize = 0}
Magnitude(n) == IF n < 0 THEN - n ELSE n
TurnSum(b, g) == Magnitude(MapThenSumSet(LAMBDA i : signed(b[i], 8), Turns(b, g)))
Nearer(b, g, h) == TurnSum(b, g) * Cardinality(Turns(b, h)) < TurnSum(b, h) * Cardinality(Turns(b, g))
Guess(b, recent, games) ==
  IF Cardinality(games) <= 1 THEN games
  ELSE IF Len(b) < MINBUF THEN {}
  ELSE LET others == games \ {"DOOM_old"}
           rival  == IF others = {"HERETIC"} THEN "HERETIC" ELSE CHOOSE g \in others : g \in Hexen
       IN  IF "DOOM_old" \in games /\ Nearer(b, "DOOM_old", rival) THEN {"DOOM_old"}
           ELSE IF Cardinality(others) = 1 THEN others
           ELSE IF recent THEN {"HEXEN_new"} ELSE {"HERETIC"}
LMP_self_determine_type(b, recent) ==
  LET fits == {g \in Games : Fits(b, g)}
      old  == {g \in fits : /\ g \in {"DOOM_old", "HERETIC"} \cup Hexen
                            /\ b[2] > 1 => g \notin Hexen
                            /\ b[3] > 9 \/ 2 \in {b[5], b[7]} => g \in Hexen}
  IN  IF Len(b) < HeaderSize("DOOM_old") + 1 THEN {}
      ELSE IF b[1] = 101 THEN fits \cap {"STRIFE"}
      ELSE IF b[1] < 104 THEN Guess(b, recent, old)
      ELSE IF Len(b) < HeaderSize("DOOM_new") + 1 \/ "DOOM_new" \notin fits THEN {}
      ELSE IF b[3] > 1 THEN {"DOOM_new"} ELSE IF b[4] > 9 THEN {"DOOM2"} ELSE NewDoom

(***************************************************************************)
(* LMP_readheader, LMP_writeheader.  An LMP is the games it may be of, its *)
(* fields, the class of each of its players (num and playerclass) and the  *)
(* number of its tics.                                                     *)
(***************************************************************************)
\* What -g DOOM and -g HEXEN leave open.
Settled(b, games) ==
  IF games = {"DOOM_old", "DOOM_new"} THEN IF b[1] >= 104 THEN {"DOOM_new"} ELSE {"DOOM_old"}
  ELSE IF games = Hexen THEN IF Fits(b, "HEXEN_old") THEN {"HEXEN_old"} ELSE {"HEXEN_new"}
  ELSE games
LayoutOf(games) == CHOOSE g \in games : g = "DOOM_new" \/ "DOOM_new" \notin games
VersionByte == [g \in Hexen |-> IF g = "HEXEN_old" THEN 16 ELSE 32]

FieldOf(b, g, n) ==
  LET i == SelectInSeq(Layouts[g].fields, LAMBDA f : f = n)
  IN  IF i # 0 THEN b[i]
      ELSE IF n = "episode" THEN 1
      ELSE IF n = "versionbyte" /\ g \in Hexen THEN VersionByte[g] ELSE 0
PlaceOf(g, slot) == Len(Layouts[g].fields) + 1 + BytesOfPlayer(g) * slot
PlayersIn(b, g) == {s \in 0 .. Layouts[g].maxplayer - 1 : b[PlaceOf(g, s)] # 0}
ClassOf(b, g, slot) == IF g \in Hexen THEN b[PlaceOf(g, slot) + 1] ELSE 0

LmpIn(b, games, g) ==
  [game    |-> games,
   field   |-> [n \in FieldNames |-> FieldOf(b, g, n)],
   players |-> [s \in PlayersIn(b, g) |-> ClassOf(b, g, s)],
   stics   |-> (Len(b) - HeaderSize(g) - 1) \div Layouts[g].ticsize]
IsLmp(b, g) == PlayersIn(b, g) # {} /\ Fits(b, g)
\* <<>> if it is an error.  No file is shorter than the longest header: what is
\* behind its end in header[] is not defined.
LMP_readheader(b, games) ==
  IF \E g \in {LayoutOf(games)} : IsLmp(b, g) THEN <<LmpIn(b, games, LayoutOf(games))>> ELSE <<>>

\* Mutant: the i-th player has the i-th place, not the one of its number.
PlayerBytes_counted(l, g, slot) ==
  IF slot >= Cardinality(DOMAIN l.players) THEN [i \in 1 .. BytesOfPlayer(g) |-> 0]
  ELSE IF g \in Hexen THEN <<1, Max(Range(l.players))>> ELSE <<1>>
PlayerBytes(l, g, slot) ==
  IF slot \notin DOMAIN l.players THEN [i \in 1 .. BytesOfPlayer(g) |-> 0]
  ELSE IF g \in Hexen THEN <<1, l.players[slot]>> ELSE <<1>>
LMP_writeheader(l) ==
  LET g == LayoutOf(l.game) IN
    [i \in DOMAIN Layouts[g].fields |-> l.field[Layouts[g].fields[i]]]
    \o FlattenSeq([s \in 1 .. Layouts[g].maxplayer |-> PlayerBytes(l, g, s - 1)])

TicSize(l) == Layouts[LayoutOf(l.game)].ticsize
TicAt(b, l, n) ==
  LET p == HeaderSize(LayoutOf(l.game)) + (n - 1) * TicSize(l) IN SubSeq(b, p + 1, p + TicSize(l))
=============================================================================
