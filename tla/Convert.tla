------------------------------ MODULE Convert ------------------------------
(***************************************************************************)
(* lmpc.c, ActionDEMbin2DEMbin and the same for QWD, DM2 and DM3: a binary *)
(* recording is read block by block, a block message by message; the block *)
(* is edited as a whole and written again.  The blocks that were written   *)
(* are the file of a second run of the program, with the same options.     *)
(*                                                                         *)
(* ver is the global SERVERVERSION, which starts at 0, and demotype the    *)
(* kinds of a Quake II recording that are still possible.  unicast is the  *)
(* local variable of DM2_block_write_bin: nothing sets it before the first *)
(* message, so it may name a client; stray says that it once did.  The     *)
(* phase is "aborted" when the program ended in the middle, and "outside"  *)
(* when a reader went on behind the block and its buffer says what follows.*)
(***************************************************************************)
EXTENDS Dm2File, Dm3File

CONSTANTS Recordings,   \* [fmt, fix, blocks]: format, opFixMulti or not, the blocks
          Strays        \* what may be in unicast at first: <<>> or a client

VARIABLES fmt, fix, file, pass, at, phase, pos, kind, head, nodes, written, out, unicast,
          stray, ver, demotype, trees, made, first
reading == <<pos, kind, head, nodes, ver, demotype>>
writing == <<written, out, unicast, stray>>
whole   == <<fmt, fix, file, pass, at, trees, made, first>>
vars    == <<reading, writing, whole, phase>>

block == file[at]
Tree == [kind |-> kind, head |-> head, nodes |-> nodes]
\* Of a block of a recording: what is in front of its messages, a message, the end.
BlockOf(g) == BlockHead("block", <<g.m>>, g.p)
HeadOf(b) ==
  CASE fmt = "dem" -> IF at = 1 THEN BlockHead("track", <<do_track_read_bin(b)>>, Len(b) + 1)
                      ELSE BlockOf(DEM_head_read_bin(b))
    [] fmt = "qwd" -> QWD_head_read(b)
    [] fmt = "dm2" -> DM2_head_read(b)
    [] fmt = "dm3" -> DM3_head_read(b)
MessageAt(b, p) ==
  CASE fmt = "dem" -> Behind(<<>>, do_message_read_bin(b, p))
    [] fmt = "qwd" -> Behind(<<>>, QWD_message_read(b, p, ver))
    [] fmt = "dm2" -> DM2_message_read(b, p, ver, demotype)
    [] fmt = "dm3" -> Behind(<<>>, DM3_message_read(b, p))
MoreAt(b, p) ==
  IF fmt = "dm3"
  THEN /\ kind = "block"
       /\ ~ (nodes # <<>> /\ Last(nodes).type = "gamestate")
       /\ ~ IsEnd(b, p)
  ELSE p <= Len(b) /\ kind \in {"block", "sblock"}

EditOf(ms) ==
  CASE fmt = "dem" -> DEM_block_edit(ms) [] fmt = "qwd" -> QWD_block_edit(ms)
    [] fmt = "dm2" -> DM2_block_edit(ms) [] OTHER -> ms
BytesOf(m) ==
  CASE fmt = "dem" -> DEM_message_write_bin(m)
    [] fmt = "qwd" -> QWD_message_write(m, ver)
    [] fmt = "dm2" -> DM2_message_write(m, unicast)
    [] fmt = "dm3" -> DM3_message_write(m)
BlockBytes ==
  CASE fmt = "dem" -> DEM_block_write_bin(kind, head[1], nodes, out)
    [] fmt = "qwd" -> QWD_head_write(kind, head, out)
    [] fmt = "dm2" -> DM2_block_write(kind, nodes, out, fix)
    [] fmt = "dm3" -> DM3_block_write(kind, head, out)
IsAborted(bytes) == \E i \in DOMAIN bytes : bytes[i] = Aborted[1]

AllTypes == {Client, Server, Relay}
Init ==
  /\ \E r \in Recordings : fmt = r.fmt /\ fix = r.fix /\ file = r.blocks
  /\ pass = 1 /\ first = [file |-> <<>>, trees |-> <<>>, made |-> <<>>]
  /\ at = 1 /\ phase = "head" /\ trees = <<>> /\ made = <<>>
  /\ pos = 1 /\ kind = "" /\ head = <<>> /\ nodes = <<>> /\ ver = 0 /\ demotype = AllTypes
  /\ written = 0 /\ out = <<>> /\ unicast = <<>> /\ stray = FALSE

ReadHead ==
  /\ phase = "head" /\ at <= Len(file)
  /\ \E g \in {HeadOf(block)} : kind' = g.kind /\ head' = g.head /\ pos' = g.p
  /\ nodes' = <<>> /\ phase' = "messages"
  /\ UNCHANGED <<ver, demotype, writing, whole>>

ReadMessage ==
  /\ phase = "messages" /\ MoreAt(block, pos)
  /\ \E g \in {MessageAt(block, pos)} :
         /\ nodes' = nodes \o g.ms /\ pos' = g.p
         /\ ver' = IF fmt = "qwd" THEN QWD_version_after(g.ms, ver)
                   ELSE IF fmt = "dm2" THEN DM2_version_after(Last(g.ms), ver) ELSE ver
         /\ demotype' = IF fmt = "dm2" THEN DM2_demotype_after(Last(g.ms), demotype) ELSE demotype
         /\ phase' = IF Last(g.ms).type = "error" THEN "aborted"
                     ELSE IF g.p = Outside THEN "outside" ELSE phase
  /\ UNCHANGED <<kind, head, writing, whole>>

\* do_block: the block is edited, and its writer begins.
Edit ==
  /\ phase = "messages" /\ ~ MoreAt(block, pos)
  /\ trees' = Append(trees, Tree)
  /\ nodes' = IF fix THEN EditOf(nodes) ELSE nodes
  /\ phase' = "write" /\ written' = 0 /\ out' = <<>>
  /\ IF fmt = "dm2" THEN unicast' \in Strays ELSE unicast' = <<>>
  /\ stray' = (stray \/ (unicast' # <<>> /\ nodes' # <<>> /\ nodes'[1].type # "unicast"))
  /\ UNCHANGED <<pos, kind, head, ver, demotype, fmt, fix, file, pass, at, made, first>>

WriteMessage ==
  /\ phase = "write" /\ written < Len(nodes)
  /\ \E bytes \in {BytesOf(nodes[written + 1])} :
         /\ out' = out \o bytes
         /\ unicast' = IF fmt = "dm2" THEN UnicastAfter(nodes[written + 1]) ELSE unicast
         /\ phase' = IF IsAborted(bytes) THEN "aborted" ELSE phase
  /\ written' = written + 1
  /\ UNCHANGED <<reading, stray, whole>>

WriteBlock ==
  /\ phase = "write" /\ written = Len(nodes)
  /\ \E bytes \in {BlockBytes} :
         /\ made' = IF bytes = <<>> THEN made ELSE Append(made, bytes)
         /\ phase' = IF IsAborted(bytes) THEN "aborted" ELSE "head"
  /\ at' = at + 1
  /\ UNCHANGED <<reading, writing, fmt, fix, file, pass, trees, first>>

SecondRun ==
  /\ phase = "head" /\ at > Len(file) /\ pass = 1
  /\ first' = [file |-> file, trees |-> trees, made |-> made]
  /\ file' = made /\ pass' = 2 /\ at' = 1 /\ trees' = <<>> /\ made' = <<>>
  /\ ver' = 0 /\ demotype' = AllTypes
  /\ UNCHANGED <<fmt, fix, phase, pos, kind, head, nodes, writing>>
Finish ==
  /\ phase = "head" /\ at > Len(file) /\ pass = 2
  /\ phase' = "done"
  /\ UNCHANGED <<reading, writing, whole>>
Ended == phase \in {"done", "aborted", "outside"} /\ UNCHANGED vars

Next == \/ ReadHead \/ ReadMessage \/ Edit \/ WriteMessage \/ WriteBlock
        \/ SecondRun \/ Finish \/ Ended
Spec == Init /\ [][Next]_vars

(***************************************************************************)
(* Properties.                                                             *)
(***************************************************************************)
\* Every variable has its type.
ConvertTypeOK ==
  /\ fmt \in {"dem", "qwd", "dm2", "dm3"} /\ fix \in BOOLEAN /\ stray \in BOOLEAN
  /\ phase \in {"head", "messages", "write", "done", "aborted", "outside"}
  /\ pass \in {1, 2} /\ at \in 1 .. Len(file) + 1 /\ (phase = "write" => written \in 0 .. Len(nodes))
  /\ phase = "messages" => pos \in 1 .. Len(block) + 1
  /\ Len(trees) \in {at - 1, at} /\ Len(made) < at
  /\ unicast \in {<<>>} \cup {<<c>> : c \in Byte}

\* A block that holds nothing but a camera is not written.
Written(t) == fmt = "dem" /\ t.kind = "block" => t.nodes # <<>>
Converted == phase = "done" /\ ~ stray

\* Messages that are written as something else: an unknown one for one client, a player who fires and does not
\* jump, a sound of an entity that has no 11 bits, a number that is negative in a
\* place that can be shorter, and the time offset of a sound, which gets smaller.
HasDown(m, n)  == \E c \in Range(m.down) : c.n = n
FiresOnly(m)   == HasDown(m, "fire") /\ ~ HasDown(m, "jump")
FarSound(m)    == /\ fmt = "dm2" /\ m.type = "sound"
                  /\ \E c \in Range(m.down) : c.n = "entity" /\ c.v[1] \notin 0 .. 2047
Parts(m)       == Range(m.down) \cup UNION {Range(c.v) : c \in {d \in Range(m.down) : d.n = "packetentity"}}
Below0(m)      == \E c \in Parts(m) : \/ c.h \in {"SB", "LSB"} /\ c.v[1] < 0
                                      \/ m.type = "updateentity" /\ c.n = "entity" /\ c.v[1] < 0
TimeOffset(m)  == HasDown(m, "timeofs")
\* A list of names that is empty: the NUL behind it hangs on its last name, and
\* what follows is read as the list.
EmptyList(m)   == \E c \in Range(m.down) : c.h = "strings" /\ c.v = <<>>
LongConfig(m)  == /\ m.type = "gamestate"
                  /\ \E c \in Range(m.commands) : c.type = "configstring" /\ Len(c.value) >= StringChars
Lossy(m) ==
  IF fmt = "dm3" THEN LongConfig(m) 
  ELSE FiresOnly(m) \/ FarSound(m) \/ Below0(m) \/ TimeOffset(m) \/ EmptyList(m)
ForNobody(ts)  == \E t \in Range(ts) : \E j \in 1 .. Len(t.nodes) - 1 :
                    t.nodes[j].type = "unicast" /\ t.nodes[j + 1].type = "unknown"
Some(ts, P(_)) == \E i \in DOMAIN ts : \E j \in DOMAIN ts[i].nodes : P(ts[i].nodes[j])

HasEmptyList(ts) == fmt # "dm3" /\ Some(ts, EmptyList)

\* What was written reads as what it was written from.
ReadsWhatItWrote ==
  Converted /\ ~ fix /\ ~ Some(first.trees, Lossy) /\ ~ ForNobody(first.trees)
  => SelectSeq(first.trees, Written) = trees

\* The messages of a recording, each with the client it is for.
Mail(ms) ==
  FlattenSeq([j \in DOMAIN ms |->
    IF ms[j].type = "unicast" THEN <<>>
    ELSE <<[to |-> IF j > 1 /\ ms[j - 1].type = "unicast" THEN ms[j - 1].down ELSE <<>>, m |-> ms[j]]>>])
MailOf(ts) == FlattenSeq([i \in DOMAIN ts |-> Mail(ts[i].nodes)])
EditedMail(mail) ==
  FlattenSeq([i \in DOMAIN mail |-> LET kept == EditOf(<<mail[i].m>>) IN
                [j \in DOMAIN kept |-> [to |-> mail[i].to, m |-> kept[j]]]])
\* A message for one client that the editor removes.
PrivateAndRemoved(ts) == \E x \in Range(MailOf(ts)) : x.to # <<>> /\ EditOf(<<x.m>>) = <<>>

\* The edited recording holds what the editor makes of each message by itself, in
\* the same order, and each is for whom it was for.
EditsEachByItself == Converted /\ fix => MailOf(trees) = EditedMail(MailOf(first.trees))
EditsPublicOnes == PrivateAndRemoved(first.trees) \/ EditsEachByItself

\* doc/COMPILE: the first and the last binary file must be identical.
LastIsFirst ==
  phase \in {"done", "aborted"} /\ ~ fix => made = IF pass = 1 THEN file ELSE first.file

\* A copy of the copy is the copy.
CopyOfTheCopy ==
  /\ Converted /\ ~ HasEmptyList(first.trees)
  /\ (fmt = "dm2" => ~ Some(first.trees, TimeOffset)) /\ ~ (fix /\ PrivateAndRemoved(first.trees))
  => made = first.made

\* The program reads what it wrote: no second run ends in the middle or goes on
\* behind a block, unless a list in the recording was empty.
ReadsItsOwn ==
  phase \in {"aborted", "outside"} /\ ~ stray => pass = 1 \/ HasEmptyList(first.trees)

\* A block that was read to its end grows only by the negative skins in it, which
\* become long ones.
VwepOf(c) == IF c.n = "packetentity" THEN {d \in Range(c.v) : d.n = "vwep"}
             ELSE IF c.n = "vwep" THEN {c} ELSE {}
NegativeSkins(ms) ==
  Cardinality(UNION {{<<j, k>> : k \in {i \in DOMAIN ms[j].down :
                        \E c \in VwepOf(ms[j].down[i]) : signed(c.v[1], 24) < 0}} : j \in DOMAIN ms})
NeverLonger ==
  [][Len(made') > Len(made) /\ ~ stray =>
       Len(Last(made')) <= Len(block)
         + (IF fmt = "dm2" THEN 2 * NegativeSkins(Last(trees).nodes) ELSE 0)]_vars
=============================================================================
