---------------------------- MODULE DemCutProofs ----------------------------
(***************************************************************************)
(* What DEMcut guarantees about ranges and repeated frames, proved for all *)
(* files, outputs and bounds.  The inductive invariant CutInv adds to the  *)
(* properties what the commands rely on between two frames: a closed       *)
(* output holds nothing, and last, shown and repeatable_frame agree.       *)
(***************************************************************************)
EXTENDS DemCut, TLAPS

\* A closed output file holds nothing.
ClosedIsEmpty == ~opened => out = <<>>

\* A running range has written the frame that was handled last.
LastOfRange ==
  range_running # 0 /\ ~slipped /\ shown # <<>> => last = shown[Len(shown)]

\* What is remembered of a frame that may be repeated.
RepeatableLast ==
  repeatable_frame =>
    /\ input \in Files /\ last.src \in Files
    /\ last.frame \in FrameNo(last.src) =>
         ~Frames[last.src][last.frame + 1].final

\* The number that is repeated, whatever file is selected.
RepeatedNumber ==
  repeatable_frame /\ range_running = 0 /\ ~slipped =>
    \/ range_direction # 0 /\ shown = <<>>
    \/ frame = last.frame

CutInv ==
  /\ CutTypeOK
  /\ RangeIsWhatWasWritten /\ RangeInFile /\ RangeInOutput
  /\ ClosedIsEmpty /\ LastOfRange /\ RepeatableLast /\ RepeatedNumber

-----------------------------------------------------------------------------
(* Files and frames. *)

\* Each frame of a file says what write_frame looks for.
LEMMA FrameOfFile ==
  ASSUME NEW f \in Files
  PROVE  /\ Count(f) \in Nat \ {0}
         /\ \A n \in FrameNo(f) :
              n \in Nat /\ Frames[f][n + 1] \in FrameKind
<1>1. Frames[f] \in Seq(FrameKind) /\ Frames[f] # <<>>
  BY FramesAssumption, NonEmptyAssumption
<1>. QED  BY <1>1 DEF Count, FrameNo

\* The state CutInv begins with.
LEMMA CutInvInit == CutInit => CutInv
<1>. SUFFICES ASSUME CutInit PROVE CutInv
  OBVIOUS
<1>1. range_end \in Int
  <2>1. CASE input = NoFile
    BY <2>1 DEF CutInit
  <2>2. CASE input # NoFile
    BY <2>2, FrameOfFile DEF CutInit
  <2>. QED  BY <2>1, <2>2
<1>2. NoRef \in Refs /\ 1 \in 1 .. MaxLoop
  BY CutBoundsAssumption DEF NoRef, Ref, Refs
<1>3. <<>> \in Seq(Refs) /\ <<>> \in Seq(Blocks)
  OBVIOUS
<1>4. CutTypeOK
  <2>1. out \in Seq(Blocks) /\ shown \in Seq(Refs) /\ copied \in Seq(Blocks)
    BY <1>3 DEF CutInit
  <2>2. camera \in Refs /\ last \in Refs /\ loop \in 1 .. MaxLoop
    BY <1>2 DEF CutInit
  <2>3. /\ frame \in Int /\ range_start \in Nat /\ range_direction \in {-1, 0, 1}
        /\ range_running \in {0, range_direction}
        /\ range_running # 0 => frame \in Nat
    BY DEF CutInit
  <2>4. /\ running \in {"run", "quit", "dead"} /\ inter \in BOOLEAN
        /\ opened \in BOOLEAN /\ repeatable_frame \in BOOLEAN
        /\ slipped \in BOOLEAN
    BY DEF CutInit
  <2>5. input \in Files \cup {NoFile} /\ output_filename \in Outputs
    BY DEF CutInit
  <2>. QED
    BY <1>1, <2>1, <2>2, <2>3, <2>4, <2>5 DEF CutTypeOK
<1>. QED
  BY <1>4
  DEF CutInv, CutInit, RangeIsWhatWasWritten, RangeInFile, RangeInOutput,
      ClosedIsEmpty, LastOfRange, RepeatableLast, RepeatedNumber

-----------------------------------------------------------------------------
(* The parts of the handlers. *)

\* stop_running_range leaves a range that says what was written.
LEMMA StopKeepsRange ==
  ASSUME CutInv, StopRange, UNCHANGED rangeHist
  PROVE  /\ RangeIsWhatWasWritten' /\ RangeInFile' /\ RangeInOutput'
         /\ LastOfRange'
<1>. USE DEF CutInv, CutTypeOK, StopRange, rangeHist
<1>1. RangeIsWhatWasWritten'
  BY DEF RangeIsWhatWasWritten, InRange, StopAt
<1>. QED
  BY <1>1 DEF RangeInFile, RangeInOutput, LastOfRange

\* ... and the frame before the next one in hand.
LEMMA StopKeepsNumber ==
  ASSUME CutInv, StopRunningRange, UNCHANGED <<last, rangeHist>>,
         input' = input \/ input' \in Files,
         repeatable_frame' => repeatable_frame
  PROVE  RepeatedNumber' /\ RepeatableLast'
<1>. USE DEF CutInv, CutTypeOK, StopRange, StopRunningRange, rangeHist
<1>1. RepeatableLast'
  BY DEF RepeatableLast
<1>2. RepeatedNumber'
  <2>1. CASE range_running = 0
    BY <2>1 DEF RepeatedNumber, FrameStopped
  <2>2. CASE range_running # 0 /\ shown = <<>>
    BY <2>2 DEF RepeatedNumber
  <2>3. CASE range_running # 0 /\ shown # <<>>
    <3>1. Len(shown) \in DOMAIN shown /\ Len(shown) \in Nat \ {0}
      BY <2>3
    <3>2. shown[Len(shown)].frame = InRange(Len(shown))
      BY <2>3, <3>1 DEF RangeIsWhatWasWritten
    <3>3. frame = InRange(Len(shown) + 1) /\ range_direction # 0
      BY <2>3 DEF RangeIsWhatWasWritten
    <3>4. frame' = frame - range_direction
      BY <2>3 DEF FrameStopped, StopAt
    <3>5. frame' = InRange(Len(shown))
      <4>. HIDE DEF CutInv
      <4>1. range_direction \in {-1, 1} /\ range_start \in Nat
        BY <3>3 DEF CutInv
      <4>. QED
        BY <3>1, <3>3, <3>4, <4>1 DEF InRange
    <3>. QED
      BY <2>3, <3>2, <3>5 DEF LastOfRange, RepeatedNumber
  <2>. QED  BY <2>1, <2>2, <2>3
<1>. QED  BY <1>1, <1>2

\* The types after stop_running_range.
LEMMA StopTyped ==
  ASSUME CutInv, StopRange
  PROVE  /\ range_start' \in Nat /\ range_end' \in Int
         /\ range_direction' \in {-1, 0, 1}
         /\ range_running' = 0 /\ range_running' \in {0, range_direction'}
         /\ FrameStopped \in Int
BY DEF CutInv, CutTypeOK, StopRange, StopAt, FrameStopped

\* write_frame keeps the types and remembers the frame it handled.
LEMMA WriteFrameTyped ==
  ASSUME CutInv, input \in Files, NEW no \in Int, NEW n \in FrameNo(input),
         no \in FrameNo(input) => no = n,
         WriteFrame(no, n), input' = input
  PROVE  /\ opened' \in BOOLEAN /\ out' \in Seq(Blocks)
         /\ camera' \in Refs /\ last' \in Refs
         /\ repeatable_frame' \in BOOLEAN
         /\ ClosedIsEmpty' /\ RepeatableLast' /\ last' = Ref(input, no)
<1>. USE DEF CutInv, CutTypeOK
<1>1. Frames[input][n + 1] \in FrameKind
  BY FrameOfFile
<1>2. Block("frame", Ref(input, no), loop) \in Blocks /\ Ref(input, no) \in Refs
  BY DEF Block, Blocks, Ref, Refs
<1>3. opened' \in BOOLEAN /\ out' \in Seq(Blocks) /\ ClosedIsEmpty'
  <2>1. CASE Frames[input][n + 1].empty
    BY <2>1 DEF WriteFrame, ClosedIsEmpty
  <2>2. CASE ~Frames[input][n + 1].empty
    <3>1. Append2Output(Block("frame", Ref(input, no), loop))
      BY <2>2 DEF WriteFrame
    <3>. QED  BY <1>2, <3>1 DEF Append2Output, ClosedIsEmpty
  <2>. QED  BY <2>1, <2>2
<1>4. camera' \in Refs /\ last' \in Refs
  BY <1>2 DEF WriteFrame, CameraOf, NoRef, Ref, Refs
<1>5. repeatable_frame' \in BOOLEAN
  BY <1>1 DEF WriteFrame, Repeatable, FrameKind
<1>6. RepeatableLast'
  BY <1>1 DEF WriteFrame, Repeatable, RepeatableLast, Ref, FrameKind
<1>. QED  BY <1>3, <1>4, <1>5, <1>6 DEF WriteFrame

\* A block that is no frame is put into the output.
LEMMA AppendTyped ==
  ASSUME CutInv, NEW b \in Blocks, Append2Output(b)
  PROVE  /\ opened' \in BOOLEAN /\ out' \in Seq(Blocks) /\ ClosedIsEmpty'
         /\ CameraOpened \in Refs
BY DEF CutInv, CutTypeOK, Append2Output, ClosedIsEmpty, CameraOpened, NoRef,
       Ref, Refs

\* The output is closed.
LEMMA CloseTyped ==
  ASSUME CutInv, CloseOutput
  PROVE  /\ opened' \in BOOLEAN /\ out' \in Seq(Blocks) /\ ClosedIsEmpty'
         /\ repeatable_frame' \in BOOLEAN
         /\ (repeatable_frame' => repeatable_frame)
<1>1. opened' = FALSE /\ out' = <<>>
  BY DEF CloseOutput
<1>2. repeatable_frame' = (repeatable_frame /\ ~opened)
  BY DEF CloseOutput
<1>3. <<>> \in Seq(Blocks)
  OBVIOUS
<1>4. repeatable_frame' \in BOOLEAN /\ (repeatable_frame' => repeatable_frame)
  BY <1>2
<1>. QED  BY <1>1, <1>3, <1>4 DEF ClosedIsEmpty

-----------------------------------------------------------------------------
(* Commands that stop a running range and write no frame. *)

\* Any command that stops the range and keeps types and files keeps CutInv.
LEMMA StoppedCommand ==
  ASSUME CutInv, StopRunningRange, UNCHANGED <<last, rangeHist>>,
         output_filename' \in Outputs,
         repeatable_frame' => repeatable_frame,
         repeatable_frame' \in BOOLEAN,
         running' \in {"run", "quit", "dead"},
         input' = input \/ input' \in Files,
         loop' \in 1 .. MaxLoop, inter' \in BOOLEAN,
         opened' \in BOOLEAN, out' \in Seq(Blocks), camera' \in Refs,
         ClosedIsEmpty'
  PROVE  CutInv'
<1>1. StopRange /\ UNCHANGED rangeHist /\ frame' = FrameStopped
  BY DEF StopRunningRange
<1>2. RangeIsWhatWasWritten' /\ RangeInFile' /\ RangeInOutput' /\ LastOfRange'
  BY <1>1, StopKeepsRange
<1>3. RepeatedNumber' /\ RepeatableLast'
  BY StopKeepsNumber
<1>4. CutTypeOK'
  <2>1. /\ range_start' \in Nat /\ range_end' \in Int /\ frame' \in Int
        /\ range_direction' \in {-1, 0, 1}
        /\ range_running' \in {0, range_direction'}
        /\ range_running' # 0 => frame' \in Nat
    BY <1>1, StopTyped
  <2>2. /\ last' \in Refs /\ shown' \in Seq(Refs) /\ copied' \in Seq(Blocks)
        /\ slipped' \in BOOLEAN /\ input' \in Files \cup {NoFile}
    BY DEF CutInv, CutTypeOK, rangeHist
  <2>. QED  BY <2>1, <2>2 DEF CutTypeOK
<1>. QED  BY <1>2, <1>3, <1>4 DEF CutInv

\* d
LEMMA SelectInputStep ==
  ASSUME CutInv, SelectBadInput \/ \E f \in Files : SelectInput(f)
  PROVE  CutInv'
<1>1. /\ StopRunningRange /\ (input' = input \/ input' \in Files)
      /\ UNCHANGED <<running, modeVars, outputVars, camera, repeatable_frame,
                     last, rangeHist>>
  BY DEF SelectInput, SelectBadInput
<1>2. /\ running' \in {"run", "quit", "dead"} /\ inter' \in BOOLEAN
      /\ loop' \in 1 .. MaxLoop /\ opened' \in BOOLEAN /\ out' \in Seq(Blocks)
      /\ camera' \in Refs /\ ClosedIsEmpty' /\ repeatable_frame' \in BOOLEAN
      /\ output_filename' \in Outputs
  BY <1>1 DEF CutInv, CutTypeOK, modeVars, outputVars, ClosedIsEmpty
<1>. QED  BY <1>1, <1>2, StoppedCommand

\* o
LEMMA SelectOutputStep ==
  ASSUME CutInv, NEW o \in Outputs, SelectOutput(o)
  PROVE  CutInv'
<1>1. /\ StopRunningRange /\ output_filename' = o
      /\ UNCHANGED <<running, input, modeVars, camera, last, rangeHist>>
  BY DEF SelectOutput
<1>2. /\ opened' \in BOOLEAN /\ out' \in Seq(Blocks) /\ ClosedIsEmpty'
      /\ repeatable_frame' \in BOOLEAN
      /\ (repeatable_frame' => repeatable_frame)
  <2>1. CASE CloseOutput
    BY <2>1, CloseTyped
  <2>2. CASE UNCHANGED <<opened, out, repeatable_frame>>
    BY <2>2 DEF ClosedIsEmpty, CutInv, CutTypeOK
  <2>. QED  BY <2>1, <2>2 DEF SelectOutput
<1>3. /\ input' \in Files \cup {NoFile} /\ loop' \in 1 .. MaxLoop
      /\ inter' \in BOOLEAN /\ camera' \in Refs
      /\ running' \in {"run", "quit", "dead"}
  BY <1>1 DEF CutInv, CutTypeOK, modeVars
<1>. QED  BY <1>1, <1>2, <1>3, StoppedCommand

\* i, when it changes the mode.
LEMMA SetInterStep ==
  ASSUME CutInv, NEW on \in BOOLEAN, SetInter(on), inter # on
  PROVE  CutInv'
<1>1. /\ StopRunningRange /\ inter' \in BOOLEAN
      /\ UNCHANGED <<running, input, loop, outputVars, camera,
                     repeatable_frame, last, rangeHist>>
  BY DEF SetInter
<1>2. /\ running' \in {"run", "quit", "dead"} /\ input' \in Files \cup {NoFile}
      /\ loop' \in 1 .. MaxLoop /\ opened' \in BOOLEAN /\ out' \in Seq(Blocks)
      /\ camera' \in Refs /\ ClosedIsEmpty' /\ repeatable_frame' \in BOOLEAN
      /\ output_filename' \in Outputs
  BY <1>1 DEF CutInv, CutTypeOK, outputVars, ClosedIsEmpty
<1>. QED  BY <1>1, <1>2, StoppedCommand

\* q
LEMMA QuitStep ==
  ASSUME CutInv, Quit
  PROVE  CutInv'
<1>1. /\ StopRunningRange /\ CloseOutput /\ running' = "quit"
      /\ UNCHANGED <<input, modeVars, output_filename, camera, last, rangeHist>>
  BY DEF Quit
<1>2. /\ opened' \in BOOLEAN /\ out' \in Seq(Blocks) /\ ClosedIsEmpty'
      /\ repeatable_frame' \in BOOLEAN /\ (repeatable_frame' => repeatable_frame)
  BY <1>1, CloseTyped
<1>3. /\ input' \in Files \cup {NoFile} /\ loop' \in 1 .. MaxLoop
      /\ inter' \in BOOLEAN /\ camera' \in Refs /\ output_filename' \in Outputs
  BY <1>1 DEF CutInv, CutTypeOK, modeVars
<1>. QED  BY <1>1, <1>2, <1>3, StoppedCommand

\* c
LEMMA CdTrackStep ==
  ASSUME CutInv, CdTrack
  PROVE  CutInv'
<1>1. /\ StopRunningRange /\ Append2Output(Block("track", NoRef, 1))
      /\ camera' = CameraOpened
      /\ repeatable_frame' = (repeatable_frame /\ opened)
      /\ UNCHANGED <<running, input, modeVars, output_filename, last, rangeHist>>
  BY DEF CdTrack
<1>2. Block("track", NoRef, 1) \in Blocks
  BY CutBoundsAssumption DEF Block, Blocks, NoRef, Ref, Refs
<1>3. /\ opened' \in BOOLEAN /\ out' \in Seq(Blocks) /\ ClosedIsEmpty'
      /\ camera' \in Refs
  BY <1>1, <1>2, AppendTyped
<1>4. /\ input' \in Files \cup {NoFile} /\ loop' \in 1 .. MaxLoop
      /\ inter' \in BOOLEAN /\ running' \in {"run", "quit", "dead"}
      /\ output_filename' \in Outputs
  BY <1>1 DEF CutInv, CutTypeOK, modeVars
<1>5. repeatable_frame' \in BOOLEAN /\ (repeatable_frame' => repeatable_frame)
  BY <1>1
<1>. QED  BY <1>1, <1>3, <1>4, <1>5, StoppedCommand

\* m
LEMMA MultiStep ==
  ASSUME CutInv, NEW a, NEW b, Multi(a, b)
  PROVE  CutInv'
<1>1. /\ StopRunningRange
      /\ UNCHANGED <<running, input, modeVars, output_filename, last, rangeHist>>
  BY DEF Multi
<1>2. /\ input' \in Files \cup {NoFile} /\ loop' \in 1 .. MaxLoop
      /\ inter' \in BOOLEAN /\ running' \in {"run", "quit", "dead"}
      /\ output_filename' \in Outputs
  BY <1>1 DEF CutInv, CutTypeOK, modeVars
<1>3. CASE UNCHANGED <<opened, out, camera, repeatable_frame>>
  <2>1. /\ opened' \in BOOLEAN /\ out' \in Seq(Blocks) /\ ClosedIsEmpty'
        /\ camera' \in Refs /\ repeatable_frame' \in BOOLEAN
    BY <1>3 DEF CutInv, CutTypeOK, ClosedIsEmpty
  <2>. QED  BY <1>1, <1>2, <1>3, <2>1, StoppedCommand
<1>4. CASE /\ Append2Output(Block("multi", camera, 1))
           /\ camera' = CameraOpened
           /\ repeatable_frame' = (repeatable_frame /\ opened)
  <2>1. Block("multi", camera, 1) \in Blocks
    BY CutBoundsAssumption DEF Block, Blocks, CutInv, CutTypeOK
  <2>2. /\ opened' \in BOOLEAN /\ out' \in Seq(Blocks) /\ ClosedIsEmpty'
        /\ camera' \in Refs
    BY <1>4, <2>1, AppendTyped
  <2>3. repeatable_frame' \in BOOLEAN /\ (repeatable_frame' => repeatable_frame)
    BY <1>4
  <2>. QED  BY <1>1, <1>2, <2>2, <2>3, StoppedCommand
<1>. QED  BY <1>3, <1>4 DEF Multi

-----------------------------------------------------------------------------
(* Commands and turns of the main loop that write a frame or start a range. *)

\* f
LEMMA FrameCommandStep ==
  ASSUME CutInv, NEW n, FrameCommand(n)
  PROVE  CutInv'
<1>1. /\ input \in Files /\ n \in FrameNo(input) /\ n \in Int
      /\ StopRange /\ frame' = n /\ WriteFrame(n, n)
      /\ UNCHANGED <<running, input, modeVars, output_filename, rangeHist>>
  <2>1. input \in Files
    BY DEF FrameCommand, CutInv, CutTypeOK
  <2>. QED  BY <2>1, FrameOfFile DEF FrameCommand
<1>2. /\ opened' \in BOOLEAN /\ out' \in Seq(Blocks)
      /\ camera' \in Refs /\ last' \in Refs /\ repeatable_frame' \in BOOLEAN
      /\ ClosedIsEmpty' /\ RepeatableLast' /\ last' = Ref(input, n)
  BY <1>1, WriteFrameTyped
<1>3. RangeIsWhatWasWritten' /\ RangeInFile' /\ RangeInOutput' /\ LastOfRange'
  BY <1>1, StopKeepsRange
<1>4. RepeatedNumber'
  BY <1>1, <1>2 DEF RepeatedNumber, Ref
<1>5. CutTypeOK'
  <2>1. /\ range_start' \in Nat /\ range_end' \in Int
        /\ range_direction' \in {-1, 0, 1}
        /\ range_running' \in {0, range_direction'}
        /\ range_running' # 0 => frame' \in Nat
    BY <1>1, StopTyped
  <2>2. /\ running' \in {"run", "quit", "dead"}
        /\ input' \in Files \cup {NoFile} /\ loop' \in 1 .. MaxLoop
        /\ inter' \in BOOLEAN /\ output_filename' \in Outputs
        /\ shown' \in Seq(Refs) /\ copied' \in Seq(Blocks)
        /\ slipped' \in BOOLEAN
    BY <1>1 DEF CutInv, CutTypeOK, modeVars, rangeHist
  <2>. QED  BY <1>1, <1>2, <2>1, <2>2 DEF CutTypeOK
<1>. QED  BY <1>2, <1>3, <1>4, <1>5 DEF CutInv

\* r
LEMMA RangeCommandStep ==
  ASSUME CutInv, NEW a, NEW b, RangeCommand(a, b)
  PROVE  CutInv'
<1>1. /\ input \in Files /\ a \in FrameNo(input) /\ b \in FrameNo(input)
      /\ a \in Nat /\ b \in Nat
  <2>1. input \in Files
    BY DEF RangeCommand, CutInv, CutTypeOK
  <2>. QED  BY <2>1, FrameOfFile DEF RangeCommand
<1>2. /\ range_start' = a /\ range_end' = b /\ frame' = a
      /\ range_direction' = (IF a <= b THEN 1 ELSE -1)
      /\ range_running' = range_direction'
      /\ shown' = <<>> /\ copied' = <<>> /\ slipped' = FALSE
      /\ UNCHANGED <<running, input, modeVars, outputVars, camera,
                     repeatable_frame, last>>
  BY DEF RangeCommand, Direction
<1>3. CutTypeOK'
  <2>1. /\ frame' \in Int /\ range_start' \in Nat /\ range_end' \in Int
        /\ range_direction' \in {-1, 0, 1}
        /\ range_running' \in {0, range_direction'}
        /\ range_running' # 0 => frame' \in Nat
    BY <1>1, <1>2
  <2>2. /\ running' \in {"run", "quit", "dead"}
        /\ input' \in Files \cup {NoFile} /\ loop' \in 1 .. MaxLoop
        /\ inter' \in BOOLEAN /\ output_filename' \in Outputs
        /\ opened' \in BOOLEAN /\ out' \in Seq(Blocks) /\ camera' \in Refs
        /\ last' \in Refs /\ repeatable_frame' \in BOOLEAN
    BY <1>2 DEF CutInv, CutTypeOK, modeVars, outputVars
  <2>3. shown' \in Seq(Refs) /\ copied' \in Seq(Blocks) /\ slipped' \in BOOLEAN
    <3>1. <<>> \in Seq(Refs) /\ <<>> \in Seq(Blocks)
      OBVIOUS
    <3>2. shown' = <<>> /\ copied' = <<>> /\ slipped' = FALSE
      BY <1>2
    <3>. QED  BY <3>1, <3>2
  <2>. QED  BY <2>1, <2>2, <2>3 DEF CutTypeOK
<1>4. RangeIsWhatWasWritten'
  BY <1>1, <1>2 DEF RangeIsWhatWasWritten, InRange
<1>5. RangeInFile'
  <2>1. \A n \in (a .. b) \cup (b .. a) : n \in FrameNo(input)
    BY <1>1, FrameOfFile DEF FrameNo
  <2>2. input # NoFile
    BY <1>1, FilesAssumption
  <2>. QED  BY <1>1, <1>2, <2>1, <2>2 DEF RangeInFile, FrameNo, Count
<1>6. RangeInOutput'
  <2>1. out \in Seq(Blocks) /\ out' = out
    BY <1>2 DEF CutInv, CutTypeOK, outputVars
  <2>. QED  BY <1>2, <2>1 DEF RangeInOutput
<1>7. ClosedIsEmpty'
  BY <1>2 DEF CutInv, ClosedIsEmpty, outputVars
<1>8. RepeatableLast'
  BY <1>2 DEF CutInv, RepeatableLast
<1>9. LastOfRange' /\ RepeatedNumber'
  BY <1>2 DEF LastOfRange, RepeatedNumber
<1>. QED  BY <1>3, <1>4, <1>5, <1>6, <1>7, <1>8, <1>9 DEF CutInv

\* The next frame of the range, forward or backward, the last one or not.
LEMMA NextRangeFrameStep ==
  ASSUME CutInv, WriteNextRangeFrame
  PROVE  CutInv'
<1>. DEFINE f == Frames[input][frame + 1]
            b == Block("frame", Ref(input, frame), loop)
<1>1. /\ range_running # 0 /\ WriteFrame(frame, frame)
      /\ shown' = Append(shown, Ref(input, frame))
      /\ copied' = (IF f.empty THEN copied ELSE Append(copied, b))
      /\ UNCHANGED <<running, input, range_start, range_end, range_direction,
                     modeVars, output_filename, slipped>>
  BY DEF WriteNextRangeFrame, RangeRuns
<1>2. \/ frame = range_end /\ range_running' = 0 /\ frame' = frame
      \/ /\ frame # range_end /\ range_running' = range_running
         /\ frame' = frame + range_direction
  BY DEF WriteNextRangeFrame
<1>3. /\ range_direction \in {-1, 1} /\ range_running = range_direction
      /\ range_start \in Nat /\ range_end \in Int /\ frame \in Int
      /\ shown \in Seq(Refs) /\ copied \in Seq(Blocks) /\ out \in Seq(Blocks)
      /\ loop \in 1 .. MaxLoop
  BY <1>1 DEF CutInv, CutTypeOK
<1>4. input \in Files /\ frame \in FrameNo(input)
  <2>1. input \in Files
    BY <1>1 DEF CutInv, CutTypeOK, RangeInFile
  <2>2. frame \in (frame .. range_end) \cup (range_end .. frame)
    BY <1>1, <1>3 DEF CutInv, RangeInFile
  <2>. QED  BY <1>1, <2>1, <2>2 DEF CutInv, RangeInFile
<1>5. /\ opened' \in BOOLEAN /\ out' \in Seq(Blocks)
      /\ camera' \in Refs /\ last' \in Refs /\ repeatable_frame' \in BOOLEAN
      /\ ClosedIsEmpty' /\ RepeatableLast' /\ last' = Ref(input, frame)
  BY <1>1, <1>3, <1>4, WriteFrameTyped
<1>6. Ref(input, frame) \in Refs /\ b \in Blocks
  BY <1>3, <1>4 DEF Ref, Refs, Block, Blocks
<1>7. shown' \in Seq(Refs) /\ copied' \in Seq(Blocks)
  BY <1>1, <1>3, <1>6
<1>8. CutTypeOK'
  <2>1. /\ frame' \in Int /\ range_start' \in Nat /\ range_end' \in Int
        /\ range_direction' \in {-1, 0, 1}
        /\ range_running' \in {0, range_direction'}
    BY <1>1, <1>2, <1>3
  <2>2. range_running' # 0 => frame' \in Nat
    <3>1. SUFFICES ASSUME range_running' # 0 PROVE frame' \in Nat
      OBVIOUS
    <3>2. frame # range_end /\ frame' = frame + range_direction
      BY <1>2, <3>1
    <3>3. frame' \in (frame .. range_end) \cup (range_end .. frame)
      BY <1>1, <1>3, <3>2 DEF CutInv, RangeInFile
    <3>4. frame' \in FrameNo(input)
      BY <1>1, <3>3 DEF CutInv, RangeInFile
    <3>. QED  BY <1>4, <3>4, FrameOfFile
  <2>3. /\ running' \in {"run", "quit", "dead"}
        /\ input' \in Files \cup {NoFile} /\ loop' \in 1 .. MaxLoop
        /\ inter' \in BOOLEAN /\ output_filename' \in Outputs
        /\ slipped' \in BOOLEAN
    BY <1>1 DEF CutInv, CutTypeOK, modeVars
  <2>. QED  BY <1>5, <1>7, <2>1, <2>2, <2>3 DEF CutTypeOK
<1>9. RangeIsWhatWasWritten'
  <2>1. frame = InRange(Len(shown) + 1)
    BY <1>1, <1>3 DEF CutInv, RangeIsWhatWasWritten
  <2>2. \A k \in DOMAIN shown : shown[k].frame = InRange(k)
    BY <1>1, <1>3 DEF CutInv, RangeIsWhatWasWritten
  <2>3. ASSUME NEW k \in DOMAIN shown'
        PROVE  shown'[k].frame = InRange(k)'
    <3>1. InRange(k)' = InRange(k)
      BY <1>1 DEF InRange
    <3>2. CASE k = Len(shown) + 1
      BY <1>1, <1>3, <1>6, <2>1, <3>1, <3>2 DEF Ref
    <3>3. CASE k # Len(shown) + 1
      <4>1. k \in DOMAIN shown /\ shown'[k] = shown[k]
        BY <1>1, <1>3, <1>6, <3>3
      <4>. QED  BY <2>2, <3>1, <4>1
    <3>. QED  BY <3>2, <3>3
  <2>4. Len(shown') = Len(shown) + 1 /\ Len(shown) \in Nat
    BY <1>1, <1>3, <1>6
  <2>5. IF range_running' # 0 THEN frame' = InRange(Len(shown) + 2)
                              ELSE range_end = InRange(Len(shown) + 1)
    <3>1. InRange(Len(shown) + 2) = InRange(Len(shown) + 1) + range_direction
      BY <1>3, <2>4 DEF InRange
    <3>2. CASE frame = range_end /\ range_running' = 0
      BY <2>1, <3>2
    <3>3. CASE /\ range_running' = range_running
               /\ frame' = frame + range_direction
      <4>1. range_running' # 0
        BY <1>3, <3>3
      <4>. QED  BY <2>1, <3>1, <3>3, <4>1
    <3>. QED  BY <1>2, <3>2, <3>3
  <2>6. IF range_running' # 0 THEN frame' = InRange(Len(shown) + 1)'
                              ELSE range_end' = InRange(Len(shown))'
    BY <1>1, <1>3, <2>4, <2>5 DEF InRange
  <2>. QED  BY <2>3, <2>6 DEF RangeIsWhatWasWritten
<1>10. RangeInFile'
  <2>1. SUFFICES ASSUME range_running' # 0 PROVE RangeInFile'
    BY DEF RangeInFile
  <2>2. frame # range_end /\ frame' = frame + range_direction
    BY <1>2, <2>1
  <2>3. IF range_direction = 1 THEN frame <= range_end ELSE frame >= range_end
    BY <1>1 DEF CutInv, RangeInFile
  <2>4. \A n \in (frame .. range_end) \cup (range_end .. frame) :
          n \in FrameNo(input)
    BY <1>1 DEF CutInv, RangeInFile
  <2>5. /\ (frame' .. range_end) \cup (range_end .. frame')
             \subseteq (frame .. range_end) \cup (range_end .. frame)
        /\ IF range_direction = 1 THEN frame' <= range_end
                                  ELSE frame' >= range_end
    BY <1>3, <2>2, <2>3
  <2>6. \A k \in DOMAIN shown' : shown'[k].src = input
    <3>1. \A k \in DOMAIN shown : shown[k].src = input
      BY <1>1 DEF CutInv, RangeInFile
    <3>. QED  BY <1>1, <1>3, <1>6, <3>1 DEF Ref
  <2>7. input # NoFile
    BY <1>1 DEF CutInv, RangeInFile
  <2>. QED
    BY <1>1, <2>4, <2>5, <2>6, <2>7 DEF RangeInFile, FrameNo, Count
<1>11. RangeInOutput'
  <2>1. SUFFICES ASSUME ~slipped PROVE RangeInOutput'
    BY <1>1 DEF RangeInOutput
  <2>2. /\ Len(copied) <= Len(out)
        /\ \A k \in DOMAIN copied : copied[k] = out[Len(out) - Len(copied) + k]
    BY <1>1, <2>1 DEF CutInv, RangeInOutput
  <2>3. CASE f.empty
    <3>1. copied' = copied /\ out' = out
      BY <1>1, <2>3 DEF WriteFrame
    <3>. QED  BY <2>2, <3>1 DEF RangeInOutput
  <2>4. CASE ~f.empty
    <3>1. copied' = Append(copied, b) /\ Append2Output(b)
      BY <1>1, <2>4 DEF WriteFrame
    <3>2. CASE opened
      <4>1. out' = Append(out, b)
        BY <3>1, <3>2 DEF Append2Output
      <4>. HIDE DEF b
      <4>2. /\ Len(out') = Len(out) + 1 /\ Len(copied') = Len(copied) + 1
            /\ Len(out) \in Nat /\ Len(copied) \in Nat
            /\ DOMAIN copied' = 1 .. Len(copied) + 1
        BY <1>3, <1>6, <3>1, <4>1
      <4>3. ASSUME NEW k \in DOMAIN copied'
            PROVE  copied'[k] = out'[Len(out') - Len(copied') + k]
        <5>1. CASE k = Len(copied) + 1
          BY <1>3, <1>6, <3>1, <4>1, <4>2, <5>1
        <5>2. CASE k # Len(copied) + 1
          <6>1. k \in DOMAIN copied /\ copied'[k] = copied[k]
            BY <1>3, <1>6, <3>1, <4>2, <5>2
          <6>2. Len(out) - Len(copied) + k \in 1 .. Len(out)
            BY <1>3, <2>2, <4>2, <6>1
          <6>3. out'[Len(out) - Len(copied) + k] = out[Len(out) - Len(copied) + k]
            BY <1>3, <1>6, <4>1, <6>2
          <6>. QED  BY <2>2, <4>2, <6>1, <6>2, <6>3
        <5>. QED  BY <5>1, <5>2
      <4>. QED
        BY <2>2, <4>2, <4>3 DEF RangeInOutput
    <3>3. CASE ~opened
      <4>1. out = <<>> /\ out' = <<b>>
        BY <3>1, <3>3 DEF Append2Output, CutInv, ClosedIsEmpty
      <4>2. copied = <<>>
        BY <1>3, <2>2, <4>1
      <4>. HIDE DEF b
      <4>. QED
        BY <1>6, <3>1, <4>1, <4>2 DEF RangeInOutput
    <3>. QED  BY <3>2, <3>3
  <2>. QED  BY <2>3, <2>4
<1>12. LastOfRange' /\ RepeatedNumber'
  <2>1. shown'[Len(shown')] = Ref(input, frame)
    BY <1>1, <1>3, <1>6
  <2>2. LastOfRange'
    BY <1>5, <2>1 DEF LastOfRange
  <2>3. last'.frame = frame
    BY <1>5 DEF Ref
  <2>4. RepeatedNumber'
    BY <1>2, <1>3, <1>1, <2>3 DEF RepeatedNumber
  <2>. QED  BY <2>2, <2>4
<1>. QED  BY <1>5, <1>8, <1>9, <1>10, <1>11, <1>12 DEF CutInv

\* The repeating branch writes a frame of the input, or what it finds outside.
LEMMA RepeatStep ==
  ASSUME CutInv, AtRepeat, NEW n \in FrameNo(input), WriteFrame(frame, n),
         frame \in FrameNo(input) => frame = n,
         range_running # 0 => slipped',
         slipped => slipped', slipped' \in BOOLEAN,
         UNCHANGED <<running, input, frame, rangeVars, modeVars,
                     output_filename, shown, copied>>
  PROVE  CutInv'
<1>1. input \in Files /\ frame \in Int
  BY DEF AtRepeat, CutInv, RepeatableLast, CutTypeOK
<1>2. /\ opened' \in BOOLEAN /\ out' \in Seq(Blocks)
      /\ camera' \in Refs /\ last' \in Refs /\ repeatable_frame' \in BOOLEAN
      /\ ClosedIsEmpty' /\ RepeatableLast' /\ last' = Ref(input, frame)
  BY <1>1, WriteFrameTyped
<1>3. CutTypeOK'
  BY <1>2 DEF CutInv, CutTypeOK, rangeVars, modeVars
<1>4. RangeIsWhatWasWritten' /\ RangeInFile'
  BY DEF CutInv, RangeIsWhatWasWritten, RangeInFile, InRange, rangeVars,
         FrameNo, Count
<1>5. RangeInOutput' /\ LastOfRange'
  BY DEF RangeInOutput, LastOfRange, rangeVars
<1>6. RepeatedNumber'
  BY <1>2 DEF RepeatedNumber, Ref
<1>. QED  BY <1>2, <1>3, <1>4, <1>5, <1>6 DEF CutInv

\* Nothing is left to go wrong after syserror.
LEMMA DieStep ==
  ASSUME CutInv, Die
  PROVE  CutInv'
<1>1. NoRef \in Refs /\ <<>> \in Seq(Refs) /\ <<>> \in Seq(Blocks)
  BY DEF NoRef, Ref, Refs
<1>2. CutTypeOK'
  <2>1. out' \in Seq(Blocks) /\ shown' \in Seq(Refs) /\ copied' \in Seq(Blocks)
    BY <1>1 DEF Die
  <2>2. camera' \in Refs /\ last' \in Refs
    BY <1>1 DEF Die
  <2>3. /\ frame' \in Int /\ range_start' \in Nat /\ range_end' \in Int
        /\ range_direction' \in {-1, 0, 1}
        /\ range_running' \in {0, range_direction'}
        /\ range_running' # 0 => frame' \in Nat
    BY DEF Die
  <2>4. /\ running' \in {"run", "quit", "dead"} /\ opened' \in BOOLEAN
        /\ repeatable_frame' \in BOOLEAN /\ slipped' \in BOOLEAN
        /\ input' \in Files \cup {NoFile}
    BY DEF Die
  <2>5. /\ loop' \in 1 .. MaxLoop /\ inter' \in BOOLEAN
        /\ output_filename' \in Outputs
    BY DEF Die, CutInv, CutTypeOK, modeVars
  <2>. QED  BY <2>1, <2>2, <2>3, <2>4, <2>5 DEF CutTypeOK
<1>. QED
  BY <1>2
  DEF CutInv, Die, RangeIsWhatWasWritten, RangeInFile, RangeInOutput,
      ClosedIsEmpty, LastOfRange, RepeatableLast, RepeatedNumber

\* Steps that change neither range nor output.
LEMMA QuietStep ==
  ASSUME CutInv, loop' \in 1 .. MaxLoop,
         UNCHANGED <<running, input, frame, rangeVars, inter, outputVars, camera,
                     repeatable_frame, last, rangeHist>>
  PROVE  CutInv'
<1>. USE DEF rangeVars, outputVars, rangeHist
<1>1. CutTypeOK'
  BY DEF CutInv, CutTypeOK
<1>2. RangeIsWhatWasWritten' /\ RangeInFile'
  BY DEF CutInv, RangeIsWhatWasWritten, RangeInFile, InRange, FrameNo, Count
<1>3. RangeInOutput' /\ LastOfRange' /\ ClosedIsEmpty'
  BY DEF CutInv, RangeInOutput, LastOfRange, ClosedIsEmpty
<1>4. RepeatableLast' /\ RepeatedNumber'
  BY DEF CutInv, RepeatableLast, RepeatedNumber, FrameNo, Count
<1>. QED  BY <1>1, <1>2, <1>3, <1>4 DEF CutInv

-----------------------------------------------------------------------------
(* The invariant and what follows from it. *)

\* Any command keeps CutInv.
LEMMA CommandStep ==
  ASSUME CutInv, Command
  PROVE  CutInv'
<1>1. CASE SelectBadInput \/ \E f \in Files : SelectInput(f)
  BY <1>1, SelectInputStep
<1>2. CASE \E n \in Number : FrameCommand(n)
  BY <1>2, FrameCommandStep
<1>3. CASE \E a, b \in Number : RangeCommand(a, b) \/ Multi(a, b)
  BY <1>3, RangeCommandStep, MultiStep
<1>4. CASE \E o \in Outputs : SelectOutput(o)
  BY <1>4, SelectOutputStep
<1>5. CASE CdTrack
  BY <1>5, CdTrackStep
<1>6. CASE \E l \in 1 .. MaxLoop : SetLoop(l)
  BY <1>6, QuietStep DEF SetLoop
<1>7. CASE \E on \in BOOLEAN : SetInter(on)
  <2>1. PICK on \in BOOLEAN : SetInter(on)
    BY <1>7
  <2>2. CASE inter # on
    BY <2>1, <2>2, SetInterStep
  <2>3. CASE inter = on
    <3>1. loop' \in 1 .. MaxLoop /\ inter' = inter
      BY <2>1, <2>3 DEF SetInter, CutInv, CutTypeOK
    <3>. QED  BY <2>1, <2>3, <3>1, QuietStep DEF SetInter
  <2>. QED  BY <2>2, <2>3
<1>8. CASE Quit
  BY <1>8, QuitStep
<1>. QED
  BY <1>1, <1>2, <1>3, <1>4, <1>5, <1>6, <1>7, <1>8 DEF Command

\* Any step keeps CutInv.
LEMMA CutInvStep ==
  ASSUME CutInv, [CutNext]_cutVars
  PROVE  CutInv'
<1>1. CASE Command
  BY <1>1, CommandStep
<1>2. CASE WriteNextRangeFrame
  BY <1>2, NextRangeFrameStep
<1>3. CASE RepeatFrame
  <2>1. slipped' \in BOOLEAN
    BY <1>3 DEF RepeatFrame, CutInv, CutTypeOK
  <2>. QED  BY <1>3, <2>1, RepeatStep DEF RepeatFrame
<1>4. CASE RepeatWild
  <2>1. range_running = 0
    <3>1. SUFFICES ASSUME range_running # 0 PROVE frame \in FrameNo(input)
      BY <1>4 DEF RepeatWild
    <3>2. frame \in (frame .. range_end) \cup (range_end .. frame)
      BY <3>1 DEF CutInv, CutTypeOK, RangeInFile
    <3>. QED  BY <3>1, <3>2 DEF CutInv, RangeInFile
  <2>2. CASE Die
    BY <2>2, DieStep
  <2>3. CASE \E n \in FrameNo(input) :
               /\ WriteFrame(frame, n)
               /\ UNCHANGED <<running, input, frame, rangeVars, modeVars,
                              output_filename, rangeHist>>
    <3>1. slipped' = slipped /\ slipped \in BOOLEAN
      BY <2>3 DEF CutInv, CutTypeOK, rangeHist
    <3>. QED
      BY <1>4, <2>1, <2>3, <3>1, RepeatStep DEF RepeatWild, rangeHist
  <2>. QED  BY <1>4, <2>2, <2>3 DEF RepeatWild
<1>5. CASE FileFails
  BY <1>5, DieStep DEF FileFails
<1>6. CASE UNCHANGED cutVars
  <2>1. loop' \in 1 .. MaxLoop
    BY <1>6 DEF CutInv, CutTypeOK, cutVars, modeVars
  <2>. QED  BY <1>6, <2>1, QuietStep DEF cutVars, modeVars
<1>. QED
  BY <1>1, <1>2, <1>3, <1>4, <1>5, <1>6 DEF CutNext

\* The invariant holds in every state of the interpreter.
THEOREM CutInvariant == CutSpec => []CutInv
<1>. QED  BY CutInvInit, CutInvStep, PTL DEF CutSpec

\* All variables of the interpreter keep their types.
THEOREM CutTypeCorrect == CutSpec => []CutTypeOK
<1>1. CutInv => CutTypeOK
  BY DEF CutInv
<1>. QED  BY <1>1, CutInvariant, PTL

\* The range DEMcut prints is exactly what it has written, also after commands
\* have cut it short (stop_running_range).
THEOREM RangeSaysWhatWasWritten == CutSpec => []RangeIsWhatWasWritten
<1>1. CutInv => RangeIsWhatWasWritten
  BY DEF CutInv
<1>. QED  BY <1>1, CutInvariant, PTL

\* A running range never reads outside the file it began in.
THEOREM RangeStaysInFile == CutSpec => []RangeInFile
<1>1. CutInv => RangeInFile
  BY DEF CutInv
<1>. QED  BY <1>1, CutInvariant, PTL

\* As long as the clock does not slip between the tests of the main loop, the
\* frames of a running range follow each other in the output.
THEOREM RangeIsUnbroken == CutSpec => []RangeInOutput
<1>1. CutInv => RangeInOutput
  BY DEF CutInv
<1>. QED  BY <1>1, CutInvariant, PTL

\* Under the same condition interactive mode repeats the last frame, apart from
\* the two cases RepeatedIsLast names.
THEOREM LastIsRepeated == CutSpec => []RepeatedIsLast
<1>1. CutInv => RepeatedIsLast
  <2>1. SUFFICES ASSUME CutInv, repeatable_frame, range_running = 0, ~slipped,
                        input = last.src, frame = last.frame,
                        frame \in FrameNo(input)
                 PROVE  ~Frames[input][frame + 1].final
    BY DEF RepeatedIsLast, CutInv, RepeatedNumber
  <2>. QED  BY <2>1 DEF CutInv, RepeatableLast
<1>. QED  BY <1>1, CutInvariant, PTL

-----------------------------------------------------------------------------
(* The camera put before names and colors. *)

\* A frame that does not open the output memorizes its angles; one that opens
\* it is the only block there.
LEMMA CameraOfFrame ==
  ASSUME NEW no, NEW n, WriteFrame(no, n) PROVE CameraIsLast'
<1>. DEFINE f == Frames[input][n + 1]
            opens == ~f.empty /\ ~opened
<1>1. camera' = CameraOf(Ref(input, no), opens) /\ last' = Ref(input, no)
  BY DEF WriteFrame
<1>2. CASE opens
  <2>1. out' = <<Block("frame", Ref(input, no), loop)>>
    BY <1>2 DEF WriteFrame, Append2Output
  <2>2. DOMAIN out' = {1}
    BY <2>1
  <2>. QED  BY <2>2 DEF CameraIsLast
<1>3. CASE ~opens
  BY <1>1, <1>3 DEF CameraOf, CameraIsLast
<1>. QED  BY <1>2, <1>3

\* Another block leaves the camera where it was, or opens the output.
LEMMA CameraOfBlock ==
  ASSUME CutInv, CameraIsLast, NEW b \in Blocks, b.kind # "frame",
         Append2Output(b), camera' = CameraOpened, last' = last
  PROVE  CameraIsLast'
<1>1. CASE opened
  <2>1. out \in Seq(Blocks) /\ out' = Append(out, b) /\ camera' = camera
    BY <1>1 DEF CutInv, CutTypeOK, Append2Output, CameraOpened
  <2>2. ASSUME NEW k \in DOMAIN out', out'[k].kind = "frame"
        PROVE  k \in DOMAIN out /\ out[k].kind = "frame"
    <3>1. k # Len(out) + 1
      BY <2>1, <2>2
    <3>. QED  BY <2>1, <2>2, <3>1
  <2>. QED  BY <1>1, <2>1, <2>2 DEF CameraIsLast
<1>2. CASE ~opened
  <2>1. out' = <<b>>
    BY <1>2 DEF Append2Output
  <2>2. DOMAIN out' = {1}
    BY <2>1
  <2>. QED  BY <2>2 DEF CameraIsLast
<1>. QED  BY <1>1, <1>2

LEMMA CameraStep ==
  ASSUME CutInv, CameraIsLast, [CutNext]_cutVars PROVE CameraIsLast'
<1>. USE DEF outputVars
<1>1. ASSUME UNCHANGED <<opened, out, camera, last>> PROVE CameraIsLast'
  BY <1>1 DEF CameraIsLast
<1>2. ASSUME opened' = FALSE PROVE CameraIsLast'
  BY <1>2 DEF CameraIsLast
<1>3. CASE SelectBadInput \/ \E f \in Files : SelectInput(f)
  BY <1>1, <1>3 DEF SelectBadInput, SelectInput
<1>4. CASE \E n \in Number : FrameCommand(n)
  BY <1>4, CameraOfFrame DEF FrameCommand
<1>5. CASE \E a, b \in Number : RangeCommand(a, b)
  BY <1>1, <1>5 DEF RangeCommand
<1>6. ASSUME NEW a, NEW b, Multi(a, b) PROVE CameraIsLast'
  <2>1. CASE UNCHANGED <<opened, out, camera, repeatable_frame>>
    BY <1>1, <1>6, <2>1 DEF Multi
  <2>2. CASE Append2Output(Block("multi", camera, 1)) /\ camera' = CameraOpened
    <3>1. /\ Block("multi", camera, 1) \in Blocks
          /\ Block("multi", camera, 1).kind # "frame"
      BY CutBoundsAssumption DEF Block, Blocks, CutInv, CutTypeOK
    <3>. QED  BY <1>6, <2>2, <3>1, CameraOfBlock DEF Multi
  <2>. QED  BY <1>6, <2>1, <2>2 DEF Multi
<1>7. CASE \E o \in Outputs : SelectOutput(o)
  BY <1>1, <1>2, <1>7 DEF SelectOutput, CloseOutput
<1>8. CASE CdTrack
  <2>1. Block("track", NoRef, 1) \in Blocks
    BY CutBoundsAssumption DEF Block, Blocks, NoRef, Ref, Refs
  <2>2. Block("track", NoRef, 1).kind # "frame"
    BY DEF Block
  <2>. QED  BY <1>8, <2>1, <2>2, CameraOfBlock DEF CdTrack
<1>9. CASE \/ \E l \in 1 .. MaxLoop : SetLoop(l)
           \/ \E on \in BOOLEAN : SetInter(on)
           \/ UNCHANGED cutVars
  BY <1>1, <1>9 DEF SetLoop, SetInter, cutVars
<1>10. CASE Quit \/ FileFails
  BY <1>2, <1>10 DEF Quit, CloseOutput, FileFails, Die
<1>11. CASE WriteNextRangeFrame \/ RepeatFrame
  BY <1>11, CameraOfFrame DEF WriteNextRangeFrame, RepeatFrame
<1>12. CASE RepeatWild
  BY <1>2, <1>12, CameraOfFrame DEF RepeatWild, Die
<1>. QED
  BY <1>3, <1>4, <1>5, <1>6, <1>7, <1>8, <1>9, <1>10, <1>11, <1>12
  DEF CutNext, Command

\* The camera put before names and colors is that of the last frame handled,
\* once the output holds two frames: open_output resets it only when it opens.
THEOREM CameraFollows == CutSpec => []CameraIsLast
<1>1. CutInit => CameraIsLast
  BY DEF CutInit, CameraIsLast
<1>2. CutInv /\ CameraIsLast /\ [CutNext]_cutVars => CameraIsLast'
  BY CameraStep
<1>. QED  BY <1>1, <1>2, CutInvariant, PTL DEF CutSpec
=============================================================================
