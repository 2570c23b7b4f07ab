----------------------------- MODULE InputMovie -----------------------------
(***************************************************************************)
(* Input movies (src/apps/sdl/input_movie.cpp) and what the frontend's     *)
(* loop and event handlers (emulation_runtime.cpp, event_dispatch.cpp,     *)
(* advanced_tools.cpp) do around them, for one button. The machine is      *)
(* deterministic: what it does is settled by where a movie starts and what *)
(* the button is at every step from there, so of the machine only its      *)
(* cycle counter is kept, in steps.                                        *)
(***************************************************************************)
EXTENDS Naturals, Sequences, FiniteSets

CONSTANTS FrameSteps,  \* steps of a frame
          MaxSteps,    \* bound: steps a machine may have run
          MaxEvents,   \* bound: events of a recording
          MaxRewinds,  \* maximum_rewind_frames
          Timelines,   \* what the user enters in the TAS editor, by frame
          Absent

ASSUME MovieAssumption ==
    /\ FrameSteps \in Nat \ {0}
    /\ Timelines \subseteq Seq(BOOLEAN)

VARIABLES
    cycles,     \* total_cycles(), in steps
    joypad,     \* the button as the machine sees it
    mode,       \* InputMovie::mode_
    pressed,    \* InputMovie::pressed_
    start,      \* origin_cycles_, the cycle start_state_ was taken at
    events,     \* events_
    next,       \* next_event_, as the number of events applied
    movie,      \* the movie file, with what it was recorded from
    quick,      \* the quick-save file
    rewinds,    \* rewind_history
    rewinding,
    debugger,   \* the debugger has stopped the machine
    faithful,   \* history: every step since the movie's start has seen the
                \* button as the movie's events have it
    strayed     \* history: since the movie was started, something other than
                \* the recorder or the replay moved the machine or the button

recorder == <<mode, pressed, start, events, next>>
console  == <<cycles, joypad, faithful>>
files    == <<movie, quick>>
past     == <<rewinds, rewinding>>
movieVars == <<console, recorder, files, past, debugger, strayed>>

\* The cycle counter is a 64-bit number: a difference below zero is huge.
Huge == 1000
SinceStart == IF cycles >= start THEN cycles - start ELSE Huge + cycles - start

-----------------------------------------------------------------------------
(* What a movie prescribes: before a step, every event that is due.        *)
Due(evs, elapsed) == {k \in 1 .. Len(evs) : evs[k].cycle <= elapsed}

Prescribed(evs, elapsed) ==
    LET due == Due(evs, elapsed)
    IN  due # {} /\ evs[CHOOSE k \in due : \A l \in due : l <= k].down

AsPrescribed(down) == mode = "idle" \/ down = Prescribed(events, SinceStart)

-----------------------------------------------------------------------------
MovieInit ==
    /\ cycles = 0 /\ joypad = FALSE
    /\ mode = "idle" /\ pressed = FALSE /\ start = 0 /\ events = <<>> /\ next = 0
    /\ movie = Absent /\ quick = Absent /\ rewinds = <<>> /\ rewinding = FALSE
    /\ debugger = FALSE
    /\ faithful = TRUE /\ strayed = FALSE

\* InputMovie::set_button.
SetButton(down) ==
    IF mode = "replaying" \/ pressed = down THEN UNCHANGED <<joypad, recorder>>
    ELSE /\ mode = "recording" => Len(events) < MaxEvents
         /\ pressed' = down /\ joypad' = down
         /\ events' = IF mode = "recording"
                        THEN Append(events, [cycle |-> SinceStart, down |-> down])
                        ELSE events
         /\ UNCHANGED <<mode, start, next>>

\* release_all_buttons() passes the recorder by.
ReleaseDirectly ==
    /\ joypad' = FALSE
    /\ strayed' = (strayed \/ (mode # "idle" /\ joypad))
    /\ UNCHANGED <<cycles, faithful, recorder>>

-----------------------------------------------------------------------------
(* The player. The machine stands while the game is paused, and while the  *)
(* library, a dialog or the cheat window has the keyboard.                 *)
Key ==
    /\ \E down \in BOOLEAN : SetButton(down)
    /\ UNCHANGED <<cycles, faithful, files, past, debugger, strayed>>

Pause ==
    /\ SetButton(FALSE)
    /\ UNCHANGED <<cycles, faithful, files, past, debugger, strayed>>

FocusLost ==
    /\ IF mode = "replaying" THEN ReleaseDirectly
       ELSE /\ SetButton(FALSE)
            /\ UNCHANGED <<cycles, faithful, strayed>>
    /\ rewinding' = FALSE
    /\ UNCHANGED <<files, rewinds, debugger>>

\* Help, the controls, the library or the cheats come up; a gamepad goes.
LeaveGame ==
    /\ ReleaseDirectly
    /\ UNCHANGED <<files, past, debugger>>

\* The debugger comes up with the machine stopped, or is closed.
ToggleDebugger ==
    /\ ReleaseDirectly
    /\ debugger' \in BOOLEAN
    /\ UNCHANGED <<files, past>>

Continue ==
    /\ debugger /\ debugger' = FALSE
    /\ UNCHANGED <<console, recorder, files, past, strayed>>

RewindWhileRecording ==
    /\ mode # "replaying" /\ rewinding' = ~rewinding
    /\ UNCHANGED <<console, recorder, files, rewinds, debugger, strayed>>

\* The shortcut is dead while a movie is recorded or replayed.
RewindKey ==
    /\ mode = "idle" /\ rewinding' = ~rewinding
    /\ UNCHANGED <<console, recorder, files, rewinds, debugger, strayed>>

-----------------------------------------------------------------------------
(* Quick states.                                                           *)
SaveQuick ==
    /\ quick' = cycles
    /\ UNCHANGED <<console, recorder, movie, past, debugger, strayed>>

\* load_state() and release_all_buttons().
Load(state) ==
    /\ cycles' = state /\ joypad' = FALSE
    /\ faithful' = (faithful /\ mode = "idle")

LoadQuick ==
    /\ quick # Absent /\ mode = "idle"
    /\ Load(quick) /\ rewinds' = <<>>
    /\ UNCHANGED <<recorder, files, rewinding, debugger, strayed>>

\* The Windows menu does not ask whether a movie is under way.
LoadFromMenu ==
    /\ quick # Absent
    /\ Load(quick) /\ rewinds' = <<>>
    /\ strayed' = (strayed \/ mode # "idle")
    /\ UNCHANGED <<recorder, files, rewinding, debugger>>

\* Another game, or a reset: the movie that was being made is forgotten.
Boot ==
    /\ cycles' = 0 /\ joypad' = FALSE
    /\ pressed' = FALSE /\ mode' = "idle" /\ next' = 0
    /\ rewinds' = <<>> /\ rewinding' = FALSE
    /\ UNCHANGED <<start, events, files, debugger, faithful, strayed>>

-----------------------------------------------------------------------------
(* The movie's own requests, served between the events and the frame.      *)
Idled ==
    joypad' = FALSE /\ pressed' = FALSE /\ mode' = "idle" /\ next' = 0

Runs == rewinding' = FALSE /\ rewinds' = <<>> /\ debugger' = FALSE

\* Bound: none is recorded once there is one on file.
StartRecording ==
    /\ mode # "recording" /\ movie = Absent
    /\ joypad' = FALSE /\ pressed' = FALSE
    /\ start' = cycles /\ events' = <<>> /\ next' = 0 /\ mode' = "recording"
    /\ Runs /\ faithful' = TRUE /\ strayed' = FALSE
    /\ UNCHANGED <<cycles, files>>

\* The file is truncated first: if writing fails, the old movie is gone too.
Recorded(evs) ==
    movie' \in {Absent, [start |-> start, events |-> evs, faithful |-> faithful,
                       strayed |-> strayed]}

StopRecording ==
    /\ mode = "recording"
    /\ LET evs == IF pressed THEN Append(events, [cycle |-> SinceStart, down |-> FALSE])
                  ELSE events
       IN  events' = evs /\ Recorded(evs)
    /\ joypad' = (joypad /\ ~pressed) /\ pressed' = FALSE /\ mode' = "idle"
    /\ UNCHANGED <<cycles, faithful, start, next, quick, past, debugger, strayed>>

Ordered(evs) == \A k \in 2 .. Len(evs) : evs[k].cycle >= evs[k - 1].cycle

Replays(file) ==
    /\ cycles' = file.start /\ joypad' = FALSE /\ pressed' = FALSE
    /\ start' = file.start /\ events' = file.events /\ next' = 0 /\ mode' = "replaying"
    /\ Runs /\ faithful' = TRUE /\ strayed' = FALSE

StartReplay ==
    /\ IF movie # Absent /\ Ordered(movie.events) THEN Replays(movie)
       ELSE Idled /\ UNCHANGED <<cycles, start, events, past, debugger, faithful,
                                  strayed>>
    /\ UNCHANGED files

\* save_frame_inputs(): an event wherever a frame differs from the one before,
\* and the button let go of at the end.
FrameEvents(masks) ==
    LET Was(k) == k > 1 /\ masks[k - 1]
        Event(k, down) == [cycle |-> (k - 1) * FrameSteps, down |-> down]
        n == Len(masks)
        until[k \in 0 .. n] ==
          IF k = 0 THEN <<>>
          ELSE IF masks[k] = Was(k) THEN until[k - 1]
          ELSE Append(until[k - 1], Event(k, masks[k]))
    IN  IF Was(n + 1) THEN Append(until[n], Event(n + 1, FALSE)) ELSE until[n]

HoldsFrames(masks) ==
    \A k \in 1 .. Len(masks), n \in 1 .. FrameSteps :
        Prescribed(FrameEvents(masks), (k - 1) * FrameSteps + n - 1) = masks[k]

\* The TAS editor saves the timeline to a file of its own and runs it from
\* the state it was begun in.
RunTimeline(masks) ==
    /\ mode = "idle"
    /\ \E from \in 0 .. cycles : Replays([start |-> from, events |-> FrameEvents(masks)])
    /\ UNCHANGED files

\* The TAS, sprite or tile editor comes up.
OpenTool ==
    /\ Idled /\ rewinds' = <<>> /\ debugger' \in {debugger, TRUE}
    /\ UNCHANGED <<cycles, faithful, start, events, files, rewinding, strayed>>

-----------------------------------------------------------------------------
(* The machine runs.                                                       *)
Fits(n) == cycles + n <= MaxSteps

\* A snapshot is taken now and then, time permitting.
Captured(state) ==
    rewinds' \in {rewinds} \cup
        {SubSeq(Append(rewinds, state), IF Len(rewinds) = MaxRewinds THEN 2 ELSE 1,
                Len(rewinds) + 1)}

\* plan_emulation(): a replay runs in the slices of a remote session, which
\* do not call update_replay(). Nothing is rewound under it.
RunFrame ==
    /\ ~debugger /\ (~rewinding \/ mode = "replaying") /\ Fits(FrameSteps)
    /\ cycles' = cycles + FrameSteps
    /\ faithful' = (faithful /\ \A n \in 0 .. FrameSteps - 1 :
                       mode = "idle" \/ joypad = Prescribed(events, SinceStart + n))
    /\ Captured(cycles')
    /\ rewinding' = (rewinding /\ mode # "replaying")
    /\ UNCHANGED <<joypad, recorder, files, debugger, strayed>>

RewindFrame ==
    /\ ~debugger /\ rewinding /\ mode # "replaying" /\ rewinds # <<>>
    /\ Load(rewinds[Len(rewinds)])
    /\ rewinds' = SubSeq(rewinds, 1, Len(rewinds) - 1)
    /\ UNCHANGED <<recorder, files, rewinding, debugger, strayed>>

\* InputMovie::update_replay(), then the step, unless the replay is over.
StepOnce ==
    LET due  == IF mode = "replaying" THEN Due(events, SinceStart) \ (1 .. next) ELSE {}
        down == IF due = {} THEN joypad ELSE Prescribed(events, SinceStart)
    IN  IF mode = "replaying" /\ next + Cardinality(due) = Len(events)
          THEN Idled /\ UNCHANGED <<cycles, faithful, start, events>>
          ELSE /\ joypad' = down
               /\ pressed' = IF due = {} THEN pressed ELSE down
               /\ next' = next + Cardinality(due)
               /\ cycles' = cycles + 1
               /\ faithful' = (faithful /\ AsPrescribed(down))
               /\ UNCHANGED <<mode, start, events>>

StepInstruction ==
    /\ debugger /\ Fits(1)
    /\ StepOnce /\ rewinds' = <<>>
    /\ UNCHANGED <<files, rewinding, debugger, strayed>>

-----------------------------------------------------------------------------
Player == \/ Key \/ Pause \/ FocusLost \/ LeaveGame
          \/ ToggleDebugger \/ Continue \/ RewindKey
          \/ SaveQuick \/ LoadQuick \/ LoadFromMenu \/ Boot

MovieRequests == \/ StartRecording \/ StopRecording \/ StartReplay
            \/ OpenTool \/ \E masks \in Timelines : RunTimeline(masks)

MovieNext == Player \/ MovieRequests \/ RunFrame \/ RewindFrame \/ StepInstruction

MovieSpec == MovieInit /\ [][MovieNext]_movieVars

-----------------------------------------------------------------------------
(* A movie on file gives its machine the very inputs it was made with,     *)
(* unless the button was let go of behind the recorder's back or the       *)
(* Windows menu loaded a state into the recording.                         *)
RecordingsReproduce ==
    movie # Absent /\ ~movie.strayed => Ordered(movie.events) /\ movie.faithful

(* And a timeline of the TAS editor gives every frame the button it names. *)
MoviesReproduce ==
    /\ RecordingsReproduce
    /\ \A masks \in Timelines : HoldsFrames(masks)

(* "Replays must advance instruction-by-instruction so update_replay() can *)
(* inject each recorded transition at its cycle": as long as a movie is    *)
(* replayed, the machine sees what the movie prescribes.                   *)
ReplayInjects == mode = "replaying" /\ ~strayed => faithful
=============================================================================
