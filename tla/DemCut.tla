------------------------------- MODULE DemCut -------------------------------
(***************************************************************************)
(* DEMcut (demcut.c): a line-oriented interpreter that copies frames of    *)
(* DEM files into an output file.                                          *)
(*                                                                         *)
(* In interactive mode a range is not copied at once.  The main loop       *)
(* writes its next frame whenever stdin has no command and the frame       *)
(* before is over by the clock, so commands come in between; while no      *)
(* range runs it repeats a frame, to keep Quake drawing.  Out of this mode *)
(* a range runs to its end inside its command: the states with             *)
(* range_running # 0 and ~inter are the turns of that loop, in which no    *)
(* command is read.                                                        *)
(***************************************************************************)
EXTENDS Integers, Sequences

CONSTANTS
  Files,      \* the good DEM files
  NoFile,     \* no file
  Frames,     \* the frames of each file: what write_frame looks for in them
  Outputs,    \* names of output files
  MaxOut,     \* bound: frames in the output when a command or repeat adds more
  MaxLoop     \* bound: loop counts

\* empty: nothing after the camera.  final: a signonnum or disconnect message.
\* multi: a player's name or colors.
FrameKind == [empty : BOOLEAN, final : BOOLEAN, multi : BOOLEAN]

ASSUME FilesAssumption == NoFile \notin Files
ASSUME FramesAssumption == Frames \in [Files -> Seq(FrameKind)]
ASSUME NonEmptyAssumption == \A f \in Files : Frames[f] # <<>>
ASSUME CutBoundsAssumption == MaxOut \in Nat /\ MaxLoop \in Nat \ {0}

VARIABLES
  running,            \* "run", "quit" (after q) or "dead" (after syserror)
  input,              \* demfiles[demfile], NoFile as long as there is none
  frame, range_start, range_end, range_direction, range_running,
  loop, inter,
  output_filename,
  opened,             \* output_dem # NULL
  out,                \* what the open output file holds
  camera,             \* the frame whose angles are in a1, a2, a3
  repeatable_frame,
  last,               \* history: the frame write_frame handled last
  shown,              \* history: the frames the last range has come by
  copied,             \* history: what it has put into the output
  slipped             \* history: the clock moved on between the two tests of
                      \* the main loop while that range ran

rangeVars  == <<range_start, range_end, range_direction, range_running>>
modeVars   == <<loop, inter>>
outputVars == <<output_filename, opened, out>>
rangeHist  == <<shown, copied, slipped>>
cutVars == <<running, input, frame, rangeVars, modeVars, outputVars, camera,
             repeatable_frame, rangeHist, last>>

Count(f)   == Len(Frames[f])
FrameNo(f) == 0 .. Count(f) - 1

\* A frame, by file and number, which may be outside the file; NoRef for the
\* angles 0.0 of a new output file, and for those of a1, a2, a3 before anything
\* set them.
Ref(f, n) == [src |-> f, frame |-> n]
NoRef     == Ref(NoFile, 0)

\* Blocks of the output: a frame so many times, or (one block each) a track
\* string or the collected names and colors behind a camera.
Block(what, ref, n) == [kind |-> what, ref |-> ref, copies |-> n]

CutInit ==
  /\ running = "run"
  /\ input \in Files \cup {NoFile}
  /\ frame = 0 /\ range_start = 0
  /\ range_end = IF input = NoFile THEN 0 ELSE Count(input) - 1
  /\ range_direction = 0 /\ range_running = 0
  /\ loop = 1 /\ inter = FALSE
  /\ output_filename \in Outputs
  /\ opened = FALSE /\ out = <<>>
  /\ camera = NoRef /\ repeatable_frame = FALSE
  /\ last = NoRef /\ shown = <<>> /\ copied = <<>> /\ slipped = FALSE

-----------------------------------------------------------------------------
(* The parts of the handlers. *)

\* open_output when block b is to be written, and the writing.
Append2Output(b) ==
  /\ opened' = TRUE
  /\ out' = IF opened THEN Append(out, b) ELSE <<b>>

\* The angles memorized from a frame; opening the file in the first turn of
\* the copying loop resets them, the next turn sets them again.
CameraOf(ref, opens) == IF opens /\ loop = 1 THEN NoRef ELSE ref

\* Mutant: the test for what must not be repeated is left out.
RepeatAny(f, opens) == ~opens
\* The frame may be repeated: nothing in it forbids it, and it did not open the
\* output file, which clears the flag once more.
Repeatable(f, opens) == ~f.final /\ ~opens

\* write_frame for the frame with number no, where frame n of the file is read.
WriteFrame(no, n) ==
  LET f     == Frames[input][n + 1]
      opens == ~f.empty /\ ~opened
  IN  /\ IF f.empty THEN UNCHANGED <<opened, out>>
                    ELSE Append2Output(Block("frame", Ref(input, no), loop))
      /\ camera' = CameraOf(Ref(input, no), opens)
      /\ repeatable_frame' = Repeatable(f, opens)
      /\ last' = Ref(input, no)

\* Mutant: the angles are reset whether or not the file is open already.
CameraReset == NoRef
\* open_output for a block that is no frame.
CameraOpened == IF opened THEN camera ELSE NoRef

\* Mutant: the frame that is next counts as the last one of the range.
StopAtNext == frame
\* Where a running range stops: at the frame before the next one.
StopAt == frame - range_direction

\* Mutant: the range is cut off but goes on running.
StopNothing ==
  /\ range_end' = IF range_running # 0 THEN StopAt ELSE range_end
  /\ UNCHANGED <<range_start, range_direction, range_running>>

\* stop_running_range, but for the frame.
StopRange ==
  /\ range_running' = 0
  /\ range_end' = IF range_running # 0 THEN StopAt ELSE range_end
  /\ UNCHANGED <<range_start, range_direction>>

FrameStopped == IF range_running # 0 THEN StopAt ELSE frame

StopRunningRange == StopRange /\ frame' = FrameStopped

CloseOutput ==
  /\ opened' = FALSE /\ out' = <<>>
  /\ repeatable_frame' = (repeatable_frame /\ ~opened)

\* syserror: the process is gone with all it knew.
Die ==
  /\ running' = "dead"
  /\ input' = NoFile /\ frame' = 0
  /\ range_start' = 0 /\ range_end' = 0
  /\ range_direction' = 0 /\ range_running' = 0
  /\ opened' = FALSE /\ out' = <<>>
  /\ camera' = NoRef /\ repeatable_frame' = FALSE
  /\ last' = NoRef /\ shown' = <<>> /\ copied' = <<>> /\ slipped' = FALSE
  /\ UNCHANGED <<modeVars, output_filename>>

\* A command is read: not while a range runs inside its own command.
AtPrompt == running = "run" /\ (inter \/ range_running = 0)

-----------------------------------------------------------------------------
(* Commands.  Those with wrong arguments, questions, comments, and those   *)
(* that only change how or when things are printed or timed (s, t, p, h, w) *)
(* leave everything here as it is.                                          *)

\* Mutant: selecting a file does not stop a running range.
SelectInRange(f) ==
  /\ AtPrompt
  /\ input' = f
  /\ UNCHANGED <<running, frame, rangeVars, modeVars, outputVars, camera,
                 repeatable_frame, last, rangeHist>>

\* d: selects a file; a bad one leaves the old one selected.
SelectInput(f) ==
  /\ AtPrompt
  /\ StopRunningRange
  /\ input' = f
  /\ UNCHANGED <<running, modeVars, outputVars, camera, repeatable_frame, last,
                 rangeHist>>

SelectBadInput ==
  /\ AtPrompt
  /\ StopRunningRange
  /\ UNCHANGED <<running, input, modeVars, outputVars, camera,
                 repeatable_frame, last, rangeHist>>

HasRoom == Len(out) < MaxOut

\* f: writes one frame.
FrameCommand(n) ==
  /\ AtPrompt /\ HasRoom
  /\ input # NoFile /\ n \in FrameNo(input)
  /\ StopRange /\ frame' = n
  /\ WriteFrame(n, n)
  /\ UNCHANGED <<running, input, modeVars, output_filename, rangeHist>>

Direction(a, b) == IF a <= b THEN 1 ELSE -1

\* r: starts a range, forward or backward.
RangeCommand(a, b) ==
  /\ AtPrompt /\ HasRoom
  /\ input # NoFile /\ a \in FrameNo(input) /\ b \in FrameNo(input)
  /\ range_start' = a /\ range_end' = b
  /\ range_direction' = Direction(a, b)
  /\ range_running' = range_direction'
  /\ frame' = a
  /\ shown' = <<>> /\ copied' = <<>> /\ slipped' = FALSE
  /\ UNCHANGED <<running, input, modeVars, outputVars, camera,
                 repeatable_frame, last>>

\* o: another name closes the file; the new one is opened by the next block.
SelectOutput(o) ==
  /\ AtPrompt
  /\ StopRunningRange
  /\ output_filename' = o
  /\ IF o # output_filename THEN CloseOutput
                            ELSE UNCHANGED <<opened, out, repeatable_frame>>
  /\ UNCHANGED <<running, input, modeVars, camera, last, rangeHist>>

\* Mutant: writing the track does not stop a running range.
TrackInRange ==
  /\ AtPrompt /\ HasRoom
  /\ Append2Output(Block("track", NoRef, 1))
  /\ camera' = CameraOpened
  /\ repeatable_frame' = (repeatable_frame /\ opened)
  /\ UNCHANGED <<running, input, frame, rangeVars, modeVars, output_filename,
                 last, rangeHist>>

\* c: writes the track string.
CdTrack ==
  /\ AtPrompt /\ HasRoom
  /\ StopRunningRange
  /\ Append2Output(Block("track", NoRef, 1))
  /\ camera' = CameraOpened
  /\ repeatable_frame' = (repeatable_frame /\ opened)
  /\ UNCHANGED <<running, input, modeVars, output_filename, last,
                 rangeHist>>

\* m: writes the names and colors found in frames a to b, behind the camera
\* as it was before the output was opened.
Multi(a, b) ==
  /\ AtPrompt /\ HasRoom
  /\ input # NoFile /\ a \in FrameNo(input) /\ b \in FrameNo(input)
  /\ StopRunningRange
  /\ IF \E n \in (a .. b) \cup (b .. a) : Frames[input][n + 1].multi
     THEN /\ Append2Output(Block("multi", camera, 1))
          /\ camera' = CameraOpened
          /\ repeatable_frame' = (repeatable_frame /\ opened)
     ELSE UNCHANGED <<opened, out, camera, repeatable_frame>>
  /\ UNCHANGED <<running, input, modeVars, output_filename, last,
                 rangeHist>>

\* l: the loop count.
SetLoop(l) ==
  /\ AtPrompt
  /\ loop' = l
  /\ UNCHANGED <<running, input, frame, rangeVars, inter, outputVars, camera,
                 repeatable_frame, last, rangeHist>>

\* i: interactive mode on and off.
SetInter(on) ==
  /\ AtPrompt
  /\ IF inter # on THEN StopRunningRange ELSE UNCHANGED <<frame, rangeVars>>
  /\ inter' = on
  /\ UNCHANGED <<running, input, loop, outputVars, camera, repeatable_frame,
                 last, rangeHist>>

\* q
Quit ==
  /\ AtPrompt
  /\ StopRunningRange
  /\ CloseOutput
  /\ running' = "quit"
  /\ UNCHANGED <<input, modeVars, output_filename, camera, last, rangeHist>>

-----------------------------------------------------------------------------
(* The main loop between commands. *)

\* Mutant: only forward ranges run.
ForwardRuns == range_running > 0
RangeRuns == range_running # 0

\* write_next_range_frame, in the loop of the command r or when the frame
\* before it is over.
WriteNextRangeFrame ==
  /\ running = "run" /\ RangeRuns
  /\ WriteFrame(frame, frame)
  /\ shown' = Append(shown, Ref(input, frame))
  /\ copied' = IF Frames[input][frame + 1].empty THEN copied
               ELSE Append(copied, Block("frame", Ref(input, frame), loop))
  /\ IF frame = range_end
     THEN range_running' = 0 /\ UNCHANGED frame
     ELSE frame' = frame + range_direction /\ UNCHANGED range_running
  /\ UNCHANGED <<running, input, range_start, range_end, range_direction,
                 modeVars, output_filename, slipped>>

\* The repeating branch.  The clock is read a second time for it, so it is
\* taken in a running range if the frame before is over just then.
AtRepeat == running = "run" /\ inter /\ repeatable_frame

RepeatFrame ==
  /\ AtRepeat /\ HasRoom
  /\ frame \in FrameNo(input)
  /\ WriteFrame(frame, frame)
  /\ slipped' = (slipped \/ range_running # 0)
  /\ UNCHANGED <<running, input, frame, rangeVars, modeVars, output_filename,
                 shown, copied>>

\* The frame is not one of the file: frames[] is read outside its bounds.  What
\* is found there is no position in the file and the program exits, or it is
\* one, and something is written.
RepeatWild ==
  /\ AtRepeat /\ HasRoom
  /\ frame \notin FrameNo(input)
  /\ \/ Die
     \/ /\ \E n \in FrameNo(input) : WriteFrame(frame, n)
        /\ UNCHANGED <<running, input, frame, rangeVars, modeVars,
                       output_filename, rangeHist>>

\* A file cannot be opened, read or written.
FileFails == running = "run" /\ Die

-----------------------------------------------------------------------------

Number == UNION {FrameNo(f) : f \in Files}

Command ==
  \/ \E f \in Files : SelectInput(f)
  \/ SelectBadInput
  \/ \E n \in Number : FrameCommand(n)
  \/ \E a, b \in Number : RangeCommand(a, b) \/ Multi(a, b)
  \/ \E o \in Outputs : SelectOutput(o)
  \/ CdTrack
  \/ \E l \in 1 .. MaxLoop : SetLoop(l)
  \/ \E on \in BOOLEAN : SetInter(on)
  \/ Quit

CutNext ==
  \/ Command
  \/ WriteNextRangeFrame \/ RepeatFrame \/ RepeatWild
  \/ FileFails

CutSpec == CutInit /\ [][CutNext]_cutVars
\* The user pauses long enough for the next frame of a range to be due.
CutFairSpec == CutSpec /\ WF_cutVars(WriteNextRangeFrame)

-----------------------------------------------------------------------------
(* Properties. *)

Refs   == [src : Files \cup {NoFile}, frame : Int]
Blocks == [kind : {"frame", "track", "multi"}, ref : Refs, copies : 1 .. MaxLoop]

CutTypeOK ==
  /\ running \in {"run", "quit", "dead"}
  /\ input \in Files \cup {NoFile}
  /\ frame \in Int /\ range_start \in Nat /\ range_end \in Int
  /\ range_direction \in {-1, 0, 1}
  /\ range_running \in {0, range_direction}
  /\ range_running # 0 => frame \in Nat
  /\ loop \in 1 .. MaxLoop /\ inter \in BOOLEAN
  /\ output_filename \in Outputs /\ opened \in BOOLEAN
  /\ out \in Seq(Blocks)
  /\ camera \in Refs /\ last \in Refs
  /\ repeatable_frame \in BOOLEAN
  /\ shown \in Seq(Refs) /\ copied \in Seq(Blocks) /\ slipped \in BOOLEAN

\* The k-th frame from a in the direction of the range.
InRange(k) == IF range_direction = 1 THEN range_start + k - 1
                                     ELSE range_start - k + 1

\* The range DEMcut prints is the one it has written: frame after frame from
\* range_start, up to range_end when the range has come to its end or was
\* stopped by a command, up to the frame before the next one while it runs.
RangeIsWhatWasWritten ==
  range_direction # 0 =>
    /\ \A k \in DOMAIN shown : shown[k].frame = InRange(k)
    /\ IF range_running # 0 THEN frame = InRange(Len(shown) + 1)
                            ELSE range_end = InRange(Len(shown))

\* All frames a running range has still to write exist, and they are frames of
\* the file it began in: no command exchanges the input under it.
RangeInFile ==
  range_running # 0 =>
    /\ input # NoFile
    /\ \A n \in (frame .. range_end) \cup (range_end .. frame) :
         n \in FrameNo(input)
    /\ IF range_direction = 1 THEN frame <= range_end ELSE frame >= range_end
    /\ \A k \in DOMAIN shown : shown[k].src = input

\* While a range runs the output ends with the frames it has written so far and
\* nothing in between, whatever commands come in between.
RangeInOutput ==
  range_running # 0 /\ ~slipped =>
    /\ Len(copied) <= Len(out)
    /\ \A k \in DOMAIN copied : copied[k] = out[Len(out) - Len(copied) + k]

\* In interactive mode the frame that is repeated is the last one written, and
\* neither a signonnum nor a disconnect frame, unless another file was selected
\* since, or the last range was stopped before its first frame, either of which
\* may leave a number outside the file.
RepeatedIsLast ==
  repeatable_frame /\ range_running = 0 /\ ~slipped =>
    \/ input # last.src
    \/ range_direction # 0 /\ shown = <<>>
    \/ frame \notin FrameNo(input)
    \/ frame = last.frame /\ ~Frames[input][frame + 1].final

\* The camera put before names and colors is that of the last frame, from the
\* second frame on that is written to a file.
CameraIsLast ==
  opened /\ (\E j, k \in DOMAIN out : j # k /\ out[j].kind = "frame"
                                            /\ out[k].kind = "frame") =>
    camera = last

\* A range that nobody replaces ends.
RangeEnds ==
  \/ []<>(range_running = 0)
  \/ []<><<\E a, b \in Number : RangeCommand(a, b)>>_cutVars

\* What the comment in the main loop says of that branch, "repeat last frame":
\* when the branch is due, the frame it would write is the last one.
RepeatsLastFrame ==
  AtRepeat /\ range_running = 0 => Ref(input, frame) = last
=============================================================================
