---------------------------- MODULE ScreenStream ----------------------------
(***************************************************************************)
(* The host's video, from the screen to the viewer's decoder: the capture  *)
(* controller, the encode thread and the H.264 encoder (CaptureController  *)
(* and spawn_encode_thread of host.rs, OpenH264Encoder of                  *)
(* codec/src/software.rs), under a host loop on a thread of its own,       *)
(* behind the driver's events.                                             *)
(*                                                                         *)
(* Viewers are numbered as they come.  A frame is the display it shows;    *)
(* displays differ in size.  Picture data, time stamps and the portal's    *)
(* restore token are left out.  The encoder may make any frame a keyframe, *)
(* its periodic one, but must only when it is new or was told to, which it *)
(* remembers over frames that it does not make (an assumption on the       *)
(* library).                                                               *)
(***************************************************************************)
EXTENDS Naturals, Sequences, SequencesExt

CONSTANTS
    Displays,
    MaxViewers, \* bound: sessions
    None,
    MayFail,    \* what may fail: "start", a capture; "build", an encoder
    Queue       \* bound: events not handled

VARIABLES
    viewer, up, \* the last viewer to connect, and whether it still is
    said,       \* the kinds of messages it has sent
    decoder,    \* what it decodes from: "empty", "whole" since a keyframe, "garbage"
    events,     \* the driver's events for the host loop
    authorized,
    accepting,  \* the Hello between its authorization and resume, or None
    current, show,      \* the display and the cursor setting that are configured
    handle,     \* the capture that runs, or None
    zoom,       \* the viewer that set the crop rectangle, 0 while it is full
    frame,      \* the newest captured since the encode thread last took one, or None
    force,      \* force_keyframe
    job,        \* the frame being encoded with what was read for it, or None
    size,       \* the display cfg.width and cfg.height are of
    missed,     \* the target bitrate is taken for met, by an encoder that was not built
    intra,      \* the encoder has to make the next frame a keyframe
    owed        \* a keyframe was asked for that has not been made

conn == <<viewer, up, said, decoder, events>>
host == <<authorized, accepting, current, show, handle, zoom>>
enc  == <<job, size, missed, intra>>
vars == <<conn, host, frame, force, owed, enc>>

First == CHOOSE d \in Displays : TRUE

Init ==
    /\ viewer = 0 /\ up = FALSE /\ said = {} /\ decoder = "empty" /\ events = << >>
    /\ authorized = FALSE /\ accepting = None
    /\ current = First /\ show = TRUE /\ handle = None /\ zoom = 0
    /\ frame = None /\ force = TRUE /\ owed = FALSE
    /\ job = None /\ size = current /\ missed = FALSE /\ intra = TRUE

-----------------------------------------------------------------------------
(* The driver and its viewers, ahead of the host loop                          *)

Tell(what, arg) ==
    /\ Len(events) < Queue
    /\ events' = Append(events, [what |-> what, from |-> viewer', arg |-> arg])

\* DTLS comes up; of a viewer that is replaced by a rebuild no Disconnected is told.
Connect ==
    /\ viewer < MaxViewers
    /\ viewer' = viewer + 1 /\ up' = TRUE
    /\ said' = {} /\ decoder' = "empty"
    /\ Tell("connected", None)
    /\ UNCHANGED <<host, frame, force, owed, enc>>

Lose ==
    /\ up /\ up' = FALSE
    /\ decoder' = "empty"
    /\ UNCHANGED <<viewer, said>>
    /\ Tell("disconnected", None)
    /\ UNCHANGED <<host, frame, force, owed, enc>>

\* A viewer's own messages, each once, and none before its Hello.
Say(what, arg) ==
    /\ up /\ what \notin said
    /\ what # "hello" => "hello" \in said
    /\ said' = said \cup {what}
    /\ UNCHANGED <<viewer, up, decoder>>
    /\ Tell(what, arg)
    /\ UNCHANGED <<host, frame, force, owed, enc>>

\* RTCP asks for a keyframe for a decoder that cannot go on.
PictureLoss ==
    /\ up /\ decoder = "garbage" /\ "pli" \notin ToSet([i \in 1..Len(events) |-> events[i].what])
    /\ UNCHANGED <<viewer, up, said, decoder>>
    /\ Tell("pli", None)
    /\ UNCHANGED <<host, frame, force, owed, enc>>

PacketsLost ==
    /\ up /\ decoder = "whole" /\ decoder' = "garbage"
    /\ UNCHANGED <<viewer, up, said, events, host, frame, force, owed, enc>>

-----------------------------------------------------------------------------
(* The capture controller                                                   *)

\* A capture that starts takes the place of the one that runs, from a keyframe on.
StartCapture(d, cursor) ==
    \/ /\ handle' = [display |-> d, cursor |-> cursor]
       /\ force' = TRUE /\ owed' = TRUE
    \/ "start" \in MayFail /\ UNCHANGED <<handle, force, owed>>

\* set_show_cursor and then resume, each of which may find nothing to do.
ShowAndResume(cursor) ==
    /\ show' = cursor
    /\ IF handle = None \/ cursor # show
         THEN StartCapture(current, cursor)
         ELSE UNCHANGED <<handle, force, owed>>

Select(d) ==
    /\ current' = d
    /\ IF d = current \/ handle = None THEN UNCHANGED <<handle, force, owed>>
       ELSE StartCapture(d, show)

Pause == handle' = None

RequestKeyframeMutant == UNCHANGED <<force, owed>>     \* mutant: the request goes nowhere
RequestKeyframe == force' = TRUE /\ owed' = TRUE

-----------------------------------------------------------------------------
(* The host loop                                                            *)

HandleConnected ==
    /\ authorized' = FALSE
    /\ UNCHANGED <<accepting, current, show, handle, zoom, force, owed>>

HandleDisconnected ==
    /\ authorized' = FALSE
    /\ Pause
    /\ UNCHANGED <<accepting, current, show, zoom, force, owed>>

\* An accepted Hello authorizes before it resumes.
HandleHello(e) ==
    /\ authorized' = TRUE
    /\ accepting' = e
    /\ UNCHANGED <<current, show, handle, zoom, force, owed>>

HandleSelect(e) ==
    /\ authorized /\ Select(e.arg)
    /\ UNCHANGED <<authorized, accepting, show, zoom>>

HandleZoom(e) ==
    /\ authorized /\ zoom' = e.from
    /\ UNCHANGED <<authorized, accepting, current, show, handle, force, owed>>

HandlePictureLoss ==
    /\ RequestKeyframe
    /\ UNCHANGED host

Handle(e) ==
    \/ e.what = "connected" /\ HandleConnected
    \/ e.what = "disconnected" /\ HandleDisconnected
    \/ e.what = "hello" /\ HandleHello(e)
    \/ e.what = "select" /\ HandleSelect(e)
    \/ e.what = "zoom" /\ HandleZoom(e)
    \/ e.what = "pli" /\ HandlePictureLoss
    \/ e.what \in {"select", "zoom"} /\ ~authorized /\ UNCHANGED <<host, force, owed>>

HostLoop ==
    /\ accepting = None /\ events # << >>
    /\ Handle(Head(events))
    /\ events' = Tail(events)
    /\ UNCHANGED <<viewer, up, said, decoder, frame, enc>>

Resume ==
    /\ accepting # None
    /\ ShowAndResume(accepting.arg)
    /\ accepting' = None
    /\ UNCHANGED <<conn, authorized, current, zoom, frame, enc>>

-----------------------------------------------------------------------------
(* The encode thread                                                        *)

Grab ==
    /\ handle # None
    /\ frame' = handle.display
    /\ UNCHANGED <<conn, host, force, owed, enc>>

\* Keep-latest: older frames are dropped.  Then whether anybody may see it.
Take ==
    /\ job = None /\ frame # None
    /\ frame' = None
    /\ job' = IF authorized
                THEN [frame |-> frame, begun |-> FALSE, forced |-> FALSE, zoom |-> 0]
                ELSE None
    /\ UNCHANGED <<conn, host, force, owed, size, missed, intra>>

\* The force flag is swapped before the frame is cropped and encoded.
ClearsMutant(step) == step = "done"     \* mutant: it is cleared when the frame is done
Clears(step) == step = "begun"
Flag(step) == force' = (force /\ ~Clears(step))

Begin ==
    /\ job # None /\ ~job.begun
    /\ job' = [job EXCEPT !.begun = TRUE, !.forced = force, !.zoom = zoom]
    /\ Flag("begun")
    /\ UNCHANGED <<conn, host, frame, owed, size, missed, intra>>

\* A frame of another size rebuilds the encoder, and so does a target that is due, which
\* has moved far, long after the last rebuild.  The settings are stored before it is
\* built, and a frame whose build fails is lost.
Resized == job.frame # size
Rebuilds(due) == Resized \/ due

Reconfigure(due, fails) ==
    /\ size' = job.frame
    /\ missed' = IF ~Resized /\ due THEN fails ELSE missed

FailedBuild(due) ==
    /\ "build" \in MayFail /\ Rebuilds(due)
    /\ Reconfigure(due, TRUE)
    /\ UNCHANGED <<decoder, owed, intra>>

\* The driver sends what the thread has made to whoever is connected by then.
Deliver(key) ==
    decoder' = IF ~up THEN decoder ELSE IF key \/ decoder = "whole" THEN "whole" ELSE "garbage"

\* A new encoder, and one that was told to by force_intra_frame, makes a keyframe of
\* the next frame it makes.
Intra(due) == intra \/ Rebuilds(due) \/ job.forced

Encode(due) ==
    \E key \in BOOLEAN :
        /\ Intra(due) => key
        /\ Reconfigure(due, FALSE)
        /\ Deliver(key)
        /\ intra' = FALSE
        /\ owed' = (owed /\ (force \/ ~key))

\* Rate control skips the frame, or its conversion or encoding fails.
Nothing(due) ==
    /\ Reconfigure(due, FALSE)
    /\ intra' = Intra(due)
    /\ UNCHANGED <<decoder, owed>>

Finishes(A) ==
    /\ job # None /\ job.begun
    /\ A
    /\ Flag("done")
    /\ job' = None
    /\ UNCHANGED <<viewer, up, said, events, host, frame>>

Made == \E due \in BOOLEAN : Finishes(Encode(due))

Finish == Made \/ \E due \in BOOLEAN : Finishes(Nothing(due) \/ FailedBuild(due))

Next ==
    \/ Connect \/ Lose \/ PictureLoss \/ PacketsLost
    \/ \E cursor \in BOOLEAN : Say("hello", cursor)
    \/ \E d \in Displays : Say("select", d)
    \/ Say("zoom", None)
    \/ HostLoop \/ Resume
    \/ Grab \/ Take \/ Begin \/ Finish

Spec == Init /\ [][Next]_vars

FairSpec ==
    /\ Spec
    /\ WF_vars(HostLoop) /\ WF_vars(Resume)
    /\ WF_vars(Grab) /\ WF_vars(Take) /\ WF_vars(Begin) /\ WF_vars(Finish)
    /\ SF_vars(Made) /\ SF_vars(PictureLoss)

-----------------------------------------------------------------------------

\* Whoever asks, and whatever the encode thread is doing then, a keyframe that was asked
\* for is still flagged, is in the making, or is left to the encoder by a frame that was
\* skipped.  Does not hold where an encoder fails to build.
RequestsAreKept == owed => force \/ intra \/ (job # None /\ job.begun /\ job.forced)

\* An accepted viewer that is left with pictures it cannot decode (of a capture that never
\* stopped, or after lost packets) gets a whole one, without the periodic keyframe.
PictureRecovers == decoder = "garbage" /\ "hello" \in said ~> decoder # "garbage"

\* Does not hold of the code: "never stream the screen to an unauthorized peer".
NothingBeforeTheHello == [][ Made /\ up => "hello" \in said ]_vars

\* Does not hold of the code: "force a keyframe on start and whenever a viewer (re)connects".
FirstIsWhole == [][ decoder = "empty" => decoder' # "garbage" ]_vars

\* Does not hold of the code: the zoom is "viewer-driven", and outlives its viewer.
ZoomIsTheViewers == [][ Made /\ up => job.zoom \in {0, viewer} ]_vars

\* Does not hold of the code when a capture fails to start: select takes its display for
\* current, and a second select of it for no change.
ShowsTheSelected == handle # None => handle = [display |-> current, cursor |-> show]

\* Does not hold of the code when an encoder fails to build: the bitrate is stored first.
MissesNoTarget == ~missed
=============================================================================
