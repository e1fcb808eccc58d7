----------------------------- MODULE SegmentCanvas -----------------------------
(***************************************************************************)
(* The page with its canvas: components/SegmentCanvas.tsx composed with    *)
(* the hook and the page of Frontend.                                      *)
(*                                                                         *)
(* The canvas is drawn by an effect that React runs after a render in      *)
(* which one of the effect's dependencies changed, and cleared by          *)
(* setupCanvas, which the image's load event and the window's resize event *)
(* call: assigning canvas.width clears a canvas.                           *)
(***************************************************************************)
EXTENDS Frontend

CONSTANT Blank      \* a canvas with nothing on it

VARIABLES
    canvasReady,    \* the state of that name
    complete,       \* img.complete, for the current imageUrl
    drawn,          \* what the canvas shows: Blank, or [picture, masks]
    effect,         \* the drawing effect is due
    resized         \* history: a resize cleared the canvas since it was drawn

canvas == <<canvasReady, complete, drawn, effect, resized>>
allVars == <<vars, canvas>>

Current == [picture |-> imageUrl, masks |-> masks]

\* The props of the last render, which those that leave keep.
Rendered ==
    IF stage = "workspace leaving"
    THEN [picture |-> frozen.picture, masks |-> frozen.masks] ELSE Current

CanvasInit ==
    /\ Init
    /\ canvasReady = FALSE
    /\ complete = FALSE
    /\ drawn = Blank
    /\ effect = FALSE
    /\ resized = FALSE

-----------------------------------------------------------------------------
(* What a step of the page does to the canvas. *)

\* A component that is mounted, or not at all, has its initial state.
Fresh ==
    /\ canvasReady' = FALSE
    /\ complete' = FALSE
    /\ drawn' = Blank
    /\ resized' = FALSE

\* The workspace is mounted: its effects run once.
Mount ==
    /\ stage \in Uploader
    /\ stage' = "workspace"
    /\ effect' = TRUE
    /\ Fresh

NotMounted ==
    /\ stage' \in Uploader
    /\ effect' = FALSE
    /\ Fresh

\* One that leaves is not rendered, but keeps its events and effects.
Leaving ==
    /\ stage' = "workspace leaving"
    /\ UNCHANGED canvas

\* Mutant: masks is missing in the dependencies of the effect.
RenderNewPicture(newMasks) ==
    /\ stage \in Workspace
    /\ stage' = "workspace"
    /\ complete' = (complete /\ imageUrl' = Rendered.picture)
    /\ effect' = (effect \/ imageUrl' # Rendered.picture)
    /\ UNCHANGED <<canvasReady, drawn, resized>>

\* The props that are dependencies of the effect are compared by identity:
\* newMasks says that setMasks was called with another array, if an equal one.
Render(newMasks) ==
    /\ stage \in Workspace
    /\ stage' = "workspace"
    /\ complete' = (complete /\ imageUrl' = Rendered.picture)
    /\ effect' = (effect \/ newMasks \/ imageUrl' # Rendered.picture)
    /\ UNCHANGED <<canvasReady, drawn, resized>>

Shows(newMasks) == Mount \/ NotMounted \/ Leaving \/ Render(newMasks)

OpShows(o) ==
    \/ (Retry(o) \/ Refetch(o) \/ Fails(o)) /\ Shows(FALSE)
    \/ (UploadOK(o) \/ SegmentGone(o)) /\ Shows(TRUE)
    \/ SegmentOK(o) /\ Shows(masks' # masks)

UserShows ==
    \/ \E o \in Op : (Upload(o) \/ Segment(o)) /\ Shows(FALSE)
    \/ \E i \in Rows : RemoveMask(i) /\ Shows(TRUE)
    \/ (Reset \/ ClearMasks) /\ Shows(TRUE)
    \/ ClearError /\ Shows(FALSE)

-----------------------------------------------------------------------------
(* The canvas itself. *)

\* canvas.width = ...; setCanvasReady(true), which renders only when it was
\* false.
SetupCanvas ==
    /\ drawn' = Blank
    /\ canvasReady' = TRUE
    /\ effect' = (effect \/ ~canvasReady)

\* onLoad of the img.
ImgLoad ==
    /\ stage \in Workspace
    /\ ~complete
    /\ complete' = TRUE
    /\ SetupCanvas
    /\ UNCHANGED <<vars, resized>>

\* The window's resize event.
Resize ==
    /\ stage \in Workspace
    /\ SetupCanvas
    /\ resized' = TRUE
    /\ UNCHANGED <<vars, complete>>

\* The effect returns early unless the image is there and the canvas set up.
RunEffect ==
    /\ stage \in Workspace
    /\ effect
    /\ effect' = FALSE
    /\ IF complete /\ canvasReady
       THEN drawn' = Rendered /\ resized' = FALSE
       ELSE UNCHANGED <<drawn, resized>>
    /\ UNCHANGED <<vars, canvasReady, complete>>

CanvasNext ==
    \/ \E o \in Op : OpShows(o)
    \/ UserShows
    \/ ExitDone /\ Shows(FALSE)
    \/ ImgLoad
    \/ Resize
    \/ RunEffect

CanvasSpec == CanvasInit /\ [][CanvasNext]_allVars

\* Every fetch ends, at the latest when the browser gives it up, and every timer
\* fires.  Nothing is assumed of animations, images, effects and of the user.
FairSpec ==
    /\ CanvasSpec
    /\ \A o \in Op : WF_allVars(OpShows(o))

-----------------------------------------------------------------------------
(* Properties. *)

\* When the image is loaded and no effect is due, the canvas shows the picture
\* and the masks the state holds, never others, in whatever order load events,
\* answers and effects came.  It is blank only after a resize that nothing has
\* redrawn, or when the user hurried one upload over another.
CanvasShowsState ==
    (stage = "workspace" /\ complete /\ ~effect) =>
        \/ drawn = Current
        \/ drawn = Blank /\ (hurried \/ resized)

\* What the comment of the resize listener says: the canvas is drawn again when
\* the window is resized.
ResizeRedraws ==
    (stage = "workspace" /\ complete /\ ~effect /\ ~hurried) => drawn # Blank

-----------------------------------------------------------------------------
(* The inductive invariant of SegmentCanvas_proofs, next to Frontend's. *)

\* A loaded image has set the canvas up; a canvas is set up before its image is
\* loaded only by a resize or for another picture.
ReadyInv ==
    /\ complete => canvasReady
    /\ canvasReady /\ ~complete => hurried \/ resized

\* The canvas has its initial state as long as it is not mounted.
MountInv == stage \in Uploader => ~canvasReady /\ ~complete

CanvasTypeOK ==
    /\ canvasReady \in BOOLEAN
    /\ complete \in BOOLEAN
    /\ effect \in BOOLEAN
    /\ resized \in BOOLEAN

CanvasInv ==
    /\ CanvasTypeOK
    /\ ReadyInv
    /\ MountInv
    /\ CanvasShowsState
=============================================================================
