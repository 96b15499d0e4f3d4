----------------------------- MODULE LmpConvert -----------------------------
(***************************************************************************)
(* lmpc.c, ActionConvert: an LMP file is changed, in place or into another *)
(* file, by the options                                                    *)
(*   game    -g, the games asked for, or none                              *)
(*   version -v, <<>> or the version byte and what it means for Hexen      *)
(*   player  -p, <<>> or the player whose view it is                       *)
(*   wt      -w, the seconds to wait at the end                            *)
(*   pause   -r, the pauses are removed,   save  -c, no game is saved.     *)
(* With 0 seconds -w does nothing, as if it were not there.                *)
(***************************************************************************)
EXTENDS LmpFile, TLC

CONSTANT TicRate      \* 35, tics in a second
ASSUME TicRateAssumption == TicRate \in Nat

\* What -g can ask for; other games are not of LMP files.
GamesNamed == {{}, {"DOOM_old", "DOOM_new"}, {"DOOM2"}, {"HERETIC"}, Hexen, {"STRIFE"}}
\* The bytes for -v and -p are unsigned char in opt_t, and the seconds for -w are
\* refused if there are fewer than none.
Options == [game : GamesNamed, version : {<<>>} \cup (Byte \X Byte),
            player : {<<>>} \cup {<<s>> : s \in Byte}, wt : Nat,
            pause : BOOLEAN, save : BOOLEAN, same : BOOLEAN]

VARIABLES lfile,      \* the input, [bytes, recent]
          opt,        \* the options, and whether the output is the input (same)
          lphase,     \* "off" if it is not this action that runs
          li, lo,     \* the LMP read and the one written
          made, wpos, \* the output and the place in it
          stic, p, currentpause, newpause
tics  == <<stic, p, currentpause, newpause>>
lvars == <<lfile, opt, lphase, li, lo, made, wpos, tics>>

PlayerNum(l) == Cardinality(DOMAIN l.players)
WriteAt(b, pos, data) ==   \* fwrite at the offset pos, which may be beyond the end
  SubSeq(b, 1, pos) \o data \o SubSeq(b, pos + Len(data) + 1, Len(b))

\* Once the version is found to be the one asked for there is nothing to do.
NewVersion(l) ==
  IF l.game \subseteq Hexen /\ opt.version[1] = 0 THEN opt.version[2] ELSE opt.version[1]
IsVersionNew(l) == opt.version # <<>> /\ opt.version[1] # l.field["versionbyte"]
IsViewNew(l)    == opt.player # <<>> /\ opt.player[1] # l.field["mainplayer"]
Impossible(l) ==
  \/ /\ IsVersionNew(l)
     /\ \/ l.game = {"HERETIC"}
        \/ l.game \subseteq Hexen /\ NewVersion(l) \notin Range(VersionByte)
        \/ /\ l.game = {"HEXEN_new"} /\ NewVersion(l) = VersionByte["HEXEN_old"]
           /\ PlayerNum(l) > Layouts["HEXEN_old"].maxplayer
        \/ l.game \in {{"DOOM2"}, {"STRIFE"}} /\ NewVersion(l) = 0
  \/ opt.player # <<>> /\ l.game \cap ({"DOOM_old", "HERETIC"} \cup Hexen) # {}
o_game(l) ==
  IF ~ IsVersionNew(l) THEN l.game
  ELSE IF l.game \subseteq Hexen THEN {g \in Hexen : VersionByte[g] = NewVersion(l)}
  ELSE IF NewVersion(l) = 0 /\ "DOOM_new" \in l.game THEN {"DOOM_old"}
  ELSE IF l.game = {"DOOM_old"} THEN {"DOOM_new"} ELSE l.game
NewTics      == opt.pause \/ opt.save
NewFile(l)   == ~ opt.same \/ NewTics \/ o_game(l) # l.game
NewHeader(l) == IsVersionNew(l) \/ IsViewNew(l)
Wanted(l) ==
  [l EXCEPT !.game = o_game(l),
            !.field["versionbyte"] = IF IsVersionNew(l) THEN NewVersion(l) ELSE @,
            !.field["mainplayer"]  = IF IsViewNew(l) THEN opt.player[1] ELSE @]
WT(l) == [i \in 1 .. opt.wt * TicRate * PlayerNum(l) * TicSize(l) |-> 0]
QuitByte == <<128>>

GamesMeant(games) ==
  IF opt.game = {} THEN games ELSE IF games \cap opt.game # {} THEN games \cap opt.game ELSE opt.game

LmpIdle ==
  /\ lphase = "off" /\ lfile = [bytes |-> <<>>, recent |-> FALSE]
  /\ opt = [game |-> {}, version |-> <<>>, player |-> <<>>, wt |-> 0,
            pause |-> FALSE, save |-> FALSE, same |-> TRUE]
LmpInit ==
  /\ li = <<>> /\ lo = <<>> /\ made = <<>> /\ wpos = 0
  /\ stic = 1 /\ p = 0 /\ currentpause = FALSE /\ newpause = FALSE

\* LMP_self_determine_type is an error even if -g names the game.
ReadHeader ==
  /\ lphase = "open"
  /\ \E games \in {LMP_self_determine_type(lfile.bytes, lfile.recent)} :
       \E l \in {IF games = {} THEN <<>>
                 ELSE LMP_readheader(lfile.bytes, Settled(lfile.bytes, GamesMeant(games)))} :
         /\ li' = l
         /\ lphase' = IF l = <<>> THEN "aborted" ELSE "options"
  /\ UNCHANGED <<lfile, opt, lo, made, wpos, tics>>

Refuse ==
  /\ lphase = "options" /\ Impossible(li[1])
  /\ lphase' = "aborted"
  /\ UNCHANGED <<lfile, opt, li, lo, made, wpos, tics>>

\* The header is written to the temporary file, or over the one of the input.
WriteHeader ==
  /\ lphase = "options" /\ ~ Impossible(li[1])
  /\ \E l \in {Wanted(li[1])} :
       /\ lo' = <<l>>
       /\ IF NewFile(li[1])
          THEN made' = LMP_writeheader(l) /\ wpos' = Len(made')
          ELSE /\ made' = IF NewHeader(li[1])
                          THEN WriteAt(lfile.bytes, 0, LMP_writeheader(l)) ELSE lfile.bytes
               /\ wpos' = Len(made') - 1
  /\ lphase' = IF NewTics THEN "tics" ELSE IF NewFile(li[1]) THEN "copy" ELSE "end"
  /\ UNCHANGED <<lfile, opt, li, tics>>

SaveBits == {1, 7}
ClearSave(use)  == IF opt.save /\ SaveBits \subseteq Bits(use, 8) THEN 0 ELSE use
IsPause(use)    == opt.pause /\ use = 129
Use(tic)        == tic[4]
\* Mutant: a pause that starts takes effect for the tics of the other players.
NowPaused_early(first) == IF first THEN newpause ELSE currentpause \/ newpause
NowPaused(first) == IF first THEN newpause ELSE currentpause
\* A tic of one player; p is the next one's number in the multi tic.
CopyTic ==
  /\ lphase = "tics" /\ stic <= li[1].stics
  /\ \E first \in {p = PlayerNum(li[1])}, t \in {TicAt(lfile.bytes, li[1], stic)} :
       \E paused \in {NowPaused(first)}, use \in {ClearSave(Use(t))} :
         /\ p' = IF first THEN 1 ELSE p + 1
         /\ currentpause' = paused
         /\ newpause' = IF IsPause(use) THEN ~ paused ELSE newpause
         /\ made' = IF paused THEN made
                    ELSE made \o [t EXCEPT ![4] = IF IsPause(use) THEN 0 ELSE use]
  /\ stic' = stic + 1 /\ wpos' = Len(made')
  /\ UNCHANGED <<lfile, opt, lphase, li, lo>>
EndOfTics ==
  /\ lphase = "tics" /\ stic > li[1].stics
  /\ lphase' = "end"
  /\ UNCHANGED <<lfile, opt, li, lo, made, wpos, tics>>

\* copyopenfiles copies the last byte, too, which is written over.
CopyTics ==
  /\ lphase = "copy"
  /\ made' = made \o SubSeq(lfile.bytes, HeaderSize(LayoutOf(li[1].game)) + 1, Len(lfile.bytes))
  /\ wpos' = Len(made') - 1
  /\ lphase' = "end"
  /\ UNCHANGED <<lfile, opt, li, lo, tics>>

WriteEnd ==
  /\ lphase = "end"
  /\ made' = IF NewFile(li[1]) \/ opt.wt > 0
             THEN WriteAt(made, wpos, WT(li[1]) \o QuitByte) ELSE made
  /\ lphase' = "done"
  /\ UNCHANGED <<lfile, opt, li, lo, wpos, tics>>

ActionConvert == ReadHeader \/ Refuse \/ WriteHeader \/ CopyTic \/ EndOfTics \/ CopyTics \/ WriteEnd
LmpEnded == lphase \in {"done", "aborted"}

(***************************************************************************)
(* Properties.                                                             *)
(***************************************************************************)
LmpTypeOK ==
  /\ lphase \in {"off", "open", "options", "tics", "copy", "end", "done", "aborted"}
  /\ currentpause \in BOOLEAN /\ newpause \in BOOLEAN
  /\ \A b \in Range(made) : b \in Byte
  /\ lphase \in {"tics", "copy", "end"} => /\ wpos \in {Len(made), Len(made) - 1}
                                         /\ stic \in 1 .. li[1].stics + 1
                                         /\ p \in 0 .. PlayerNum(li[1])
LmpDone == lphase = "done"

\* A header has no place for the other fields.
Kept(l) ==
  [n \in FieldNames |->
     IF n \in Range(Layouts[LayoutOf(l.game)].fields) \/ n = "versionbyte" THEN l.field[n]
     ELSE IF n = "episode" THEN 1 ELSE 0]
\* Hexen 1.0 has no place for the players 4 to 7 of Hexen 1.1: two of them are not refused.
HasPlaces(l) == \A s \in DOMAIN l.players : s < Layouts[LayoutOf(l.game)].maxplayer

\* The output reads as an LMP of the game, the version and the view asked for; the
\* other fields, the players and their classes are those of the input.
HeaderAsAsked ==
  LmpDone /\ HasPlaces(Wanted(li[1])) =>
    \E l \in {Wanted(li[1])}, back \in {LMP_readheader(made, o_game(li[1]))} :
      /\ back # <<>>
      /\ back[1].players = l.players /\ back[1].field = Kept(l)

MultiTic(n) == (n - 1) \div PlayerNum(li[1])
Toggles(m)  == {n \in 1 .. li[1].stics : MultiTic(n) = m /\ Use(TicAt(lfile.bytes, li[1], n)) = 129}
TogglesBefore(m) == UNION {Toggles(k) : k \in 0 .. m - 1}
\* A game in which two players press pause in one tic goes on.
OneToggle == \A m \in 0 .. MultiTic(li[1].stics) : Cardinality(Toggles(m)) <= 1
TicAsked(n) ==
  IF opt.pause /\ Cardinality(TogglesBefore(MultiTic(n))) % 2 = 1 THEN <<>>
  ELSE [TicAt(lfile.bytes, li[1], n) EXCEPT
          ![4] = IF \/ opt.pause /\ @ = 129
                    \/ opt.save /\ SaveBits \subseteq Bits(@, 8)
                 THEN 0 ELSE @]
\* doc/lmpc.base: the tics from a pause's start to its end are not copied (the one
\* with the start is, without it), saved games are cleared, nothing else is changed,
\* and the seconds asked for are at the end.
TicsAsAsked ==
  LmpDone /\ (opt.pause => OneToggle) =>
    SubSeq(made, HeaderSize(LayoutOf(o_game(li[1]))) + 1, Len(made))
      = FlattenSeq([n \in 1 .. li[1].stics |-> TicAsked(n)])
        \o (IF NewFile(li[1]) \/ opt.wt > 0 THEN WT(li[1]) \o QuitByte ELSE <<Last(lfile.bytes)>>)
=============================================================================
