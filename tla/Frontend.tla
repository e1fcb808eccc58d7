------------------------------ MODULE Frontend -------------------------------
(***************************************************************************)
(* One browser tab: the state of hooks/useSegmentation.ts, the retries of  *)
(* lib/api.ts, what page.tsx shows and what it lets the user do.           *)
(*                                                                         *)
(* An Op is one call of upload or segment.  Its promise settles later, on  *)
(* its own; nothing cancels it, and React applies all the set-calls of one *)
(* continuation together.  The answers are the gateway's, any of them at   *)
(* any time.  An image, its id and its object URL are named by the upload  *)
(* that made them, a mask and an error by the call that brought them.      *)
(***************************************************************************)
EXTENDS Naturals, Sequences, SequencesExt

CONSTANTS Op, None, MAX_RETRY

ASSUME FrontendAssumption == MAX_RETRY \in Nat /\ None \notin Op

VARIABLES
    imageId,    \* the id clicks are sent for, or None
    imageUrl,   \* the picture on the canvas, or None (with imageSize)
    masks,      \* the masks drawn over it, a sequence
    loading,    \* the spinner; it blocks clicks on the canvas
    error,      \* the call whose failure the banner shows, or None
    urls,       \* the object URLs made and not revoked (the browser's)
    stage,      \* which child of AnimatePresence is mounted
    frozen,     \* the props of a workspace that is leaving: [id, picture, masks]
    at,         \* op -> "unused", "upload", "segment" (fetching), "... wait", "done"
    about,      \* op -> the image it is about, or made
    attempt,    \* op -> retries done
    seen,       \* op -> what its promise settled with: the hook sees this
    hurried     \* history: see Hurry

hook == <<imageId, imageUrl, masks, loading, error, urls>>
page == <<stage, frozen>>
ops == <<at, about, attempt, seen>>
vars == <<hook, page, ops, hurried>>

NoProps == [id |-> None, picture |-> None, masks |-> <<>>]

Init ==
    /\ imageId = None
    /\ imageUrl = None
    /\ masks = <<>>
    /\ loading = FALSE
    /\ error = None
    /\ urls = {}
    /\ stage = "uploader"
    /\ frozen = NoProps
    /\ at = [o \in Op |-> "unused"]
    /\ about = [o \in Op |-> None]
    /\ attempt = [o \in Op |-> 0]
    /\ seen = [o \in Op |-> "none"]
    /\ hurried = FALSE

Fetching(o) == at[o] \in {"upload", "segment"}
Waiting(o) == at[o] \in {"upload wait", "segment wait"}
Pending == {o \in Op : Fetching(o) \/ Waiting(o)}

(* AnimatePresence mode="wait": a child that leaves stays mounted, with the   *)
(* props of its last render, until its exit animation is over.                *)
Uploader == {"uploader", "uploader leaving"}
Workspace == {"workspace", "workspace leaving"}

(* History: the user did not wait, for the call under way or for the          *)
(* animation.                                                                 *)
Hurry == hurried' = (hurried \/ Pending # {} \/ stage \notin {"uploader", "workspace"})

-----------------------------------------------------------------------------
(* The user. *)

Begin(o, place) ==
    /\ at[o] = "unused"
    /\ at' = [at EXCEPT ![o] = place]
    /\ loading' = TRUE
    /\ error' = None
    /\ Hurry
    /\ UNCHANGED <<imageId, imageUrl, masks, urls, page, attempt, seen>>

\* A file is dropped on the uploader, which takes files while a call runs, too.
Upload(o) ==
    /\ stage \in Uploader
    /\ Begin(o, "upload")
    /\ UNCHANGED about

\* A click on the canvas: handleClick and segment look at the id and the
\* spinner, a canvas that leaves at those of its last render.
Segment(o) ==
    \E id \in Op :
        /\ \/ stage = "workspace" /\ ~loading /\ imageId = id
           \/ stage = "workspace leaving" /\ frozen.id = id
        /\ about' = [about EXCEPT ![o] = id]
        /\ Begin(o, "segment")

\* What the workspace is last rendered with.
LastProps ==
    [id |-> IF loading THEN None ELSE imageId, picture |-> imageUrl, masks |-> masks]

\* Mutant: the object URL is not revoked.
ResetWithoutRevoke ==
    /\ stage \in Workspace
    /\ imageId' = None
    /\ imageUrl' = None
    /\ masks' = <<>>
    /\ error' = None
    /\ stage' = "workspace leaving"
    /\ frozen' = IF stage = "workspace" THEN LastProps ELSE frozen
    /\ Hurry
    /\ UNCHANGED <<urls, loading, ops>>

\* Mutant: the masks are left to the next upload to clear.
ResetKeepingMasks ==
    /\ stage \in Workspace
    /\ imageId' = None
    /\ imageUrl' = None
    /\ urls' = urls \ {imageUrl}
    /\ error' = None
    /\ stage' = "workspace leaving"
    /\ frozen' = IF stage = "workspace" THEN LastProps ELSE frozen
    /\ Hurry
    /\ UNCHANGED <<masks, loading, ops>>

\* A running operation is not stopped, the spinner stays.
Reset ==
    /\ stage \in Workspace
    /\ imageId' = None
    /\ imageUrl' = None
    /\ urls' = urls \ {imageUrl}
    /\ masks' = <<>>
    /\ error' = None
    /\ stage' = "workspace leaving"
    /\ frozen' = IF stage = "workspace" THEN LastProps ELSE frozen
    /\ Hurry
    /\ UNCHANGED <<loading, ops>>

\* The masks MaskList lists, and the indexes of its rows: one that leaves the
\* list takes clicks until its own animation is over.  Its index may be too
\* large; Len(Listed) + 1 stands for all of these.
Listed == IF stage = "workspace" THEN masks ELSE frozen.masks
Rows == {i \in 1 .. Len(Listed) + 1 : Listed # <<>>}

ClearMasks ==
    /\ stage \in Workspace
    /\ Listed # <<>>
    /\ masks' = <<>>
    /\ Hurry
    /\ UNCHANGED <<imageId, imageUrl, loading, error, urls, page, ops>>

\* By index: the row may be older than the list, which then has perhaps no such
\* mask.
RemoveMask(i) ==
    /\ stage \in Workspace
    /\ i \in Rows
    /\ masks' = IF i \in 1 .. Len(masks) THEN RemoveAt(masks, i) ELSE masks
    /\ Hurry
    /\ UNCHANGED <<imageId, imageUrl, loading, error, urls, page, ops>>

ClearError ==
    /\ error # None
    /\ error' = None
    /\ UNCHANGED <<imageId, imageUrl, masks, loading, urls, page, ops, hurried>>

\* The exit animation is over: the other child is mounted.
ExitDone ==
    /\ \/ stage = "uploader leaving" /\ stage' = "workspace"
       \/ stage = "workspace leaving" /\ stage' = "uploader"
    /\ frozen' = NoProps
    /\ UNCHANGED <<hook, ops, hurried>>

-----------------------------------------------------------------------------
(* fetchWithRetry. *)

Sleep(o) == at' = [at EXCEPT ![o] = IF @ = "upload" THEN "upload wait" ELSE "segment wait"]

\* Mutant: the attempts are not counted.
RetryForever(o) ==
    /\ Fetching(o)
    /\ Sleep(o)
    /\ UNCHANGED <<hook, page, about, attempt, seen, hurried>>

\* 429 or a network error, retries left.
Retry(o) ==
    /\ Fetching(o)
    /\ attempt[o] < MAX_RETRY
    /\ attempt' = [attempt EXCEPT ![o] = @ + 1]
    /\ Sleep(o)
    /\ UNCHANGED <<hook, page, about, seen, hurried>>

\* The timer fires and the request is sent again.
Refetch(o) ==
    /\ Waiting(o)
    /\ at' = [at EXCEPT ![o] = IF @ = "upload wait" THEN "upload" ELSE "segment"]
    /\ UNCHANGED <<hook, page, about, attempt, seen, hurried>>

\* The promise settles with result; finally: setLoading(false).
Settle(o, result) ==
    /\ at' = [at EXCEPT ![o] = "done"]
    /\ seen' = [seen EXCEPT ![o] = result]
    /\ loading' = FALSE
    /\ UNCHANGED <<attempt, hurried>>

-----------------------------------------------------------------------------
(* The continuations of upload and segment. *)

\* hasImage: the workspace comes, or comes back.
ShowWorkspace ==
    /\ stage' = CASE stage = "uploader" -> "uploader leaving"
                  [] stage = "workspace leaving" -> "workspace"
                  [] OTHER -> stage
    /\ frozen' = NoProps

\* Mutant: the canvas keeps the picture it shows, if it shows one.
UploadKeepingPicture(o) ==
    /\ at[o] = "upload"
    /\ about' = [about EXCEPT ![o] = o]
    /\ imageId' = o
    /\ imageUrl' = IF imageUrl = None THEN o ELSE imageUrl
    /\ urls' = urls \union {o}
    /\ masks' = <<>>
    /\ ShowWorkspace
    /\ Settle(o, "ok")
    /\ UNCHANGED error

\* 200: a new id, its picture, no masks.  The URL of a picture it replaces is
\* not revoked.
UploadOK(o) ==
    /\ at[o] = "upload"
    /\ about' = [about EXCEPT ![o] = o]
    /\ imageId' = o
    /\ imageUrl' = o
    /\ urls' = urls \union {o}
    /\ masks' = <<>>
    /\ ShowWorkspace
    /\ Settle(o, "ok")
    /\ UNCHANGED error

\* 200: the best mask is appended, if there is one.
SegmentOK(o) ==
    /\ at[o] = "segment"
    /\ masks' \in {masks, Append(masks, o)}
    /\ Settle(o, "ok")
    /\ UNCHANGED <<imageId, imageUrl, urls, error, page, about>>

\* Mutant: the id is kept.
SegmentGoneKeepingId(o) ==
    /\ at[o] = "segment"
    /\ masks' = <<>>
    /\ error' = o
    /\ Settle(o, "gone")
    /\ UNCHANGED <<imageId, imageUrl, urls, page, about>>

\* 410, SessionExpiredError: the id and the masks go, the picture stays.
SegmentGone(o) ==
    /\ at[o] = "segment"
    /\ imageId' = None
    /\ masks' = <<>>
    /\ error' = o
    /\ Settle(o, "gone")
    /\ UNCHANGED <<imageUrl, urls, page, about>>

\* Another status at once, a network error or a 429 ("limited") when the
\* retries are used up.
Fails(o) ==
    /\ Fetching(o)
    /\ \/ Settle(o, "error")
       \/ attempt[o] >= MAX_RETRY /\ Settle(o, "limited")
    /\ error' = o
    /\ UNCHANGED <<imageId, imageUrl, masks, urls, page, about>>

OpStep(o) ==
    \/ Retry(o)
    \/ Refetch(o)
    \/ UploadOK(o)
    \/ SegmentOK(o)
    \/ SegmentGone(o)
    \/ Fails(o)

Next ==
    \/ \E o \in Op : OpStep(o) \/ Upload(o) \/ Segment(o)
    \/ \E i \in Rows : RemoveMask(i)
    \/ Reset
    \/ ClearMasks
    \/ ClearError
    \/ ExitDone

Spec == Init /\ [][Next]_vars

-----------------------------------------------------------------------------
(* Properties. *)

\* Every variable has its type; no call is sent more than 1 + MAX_RETRY times.
TypeOK ==
    /\ imageId \in Op \union {None}
    /\ imageUrl \in Op \union {None}
    /\ masks \in Seq(Op)
    /\ loading \in BOOLEAN
    /\ error \in Op \union {None}
    /\ urls \subseteq Op
    /\ stage \in Uploader \union Workspace
    /\ frozen \in [id : Op \union {None}, picture : Op \union {None}, masks : Seq(Op)]
    /\ at \in [Op -> {"unused", "upload", "segment", "upload wait", "segment wait", "done"}]
    /\ about \in [Op -> Op \union {None}]
    /\ attempt \in [Op -> 0 .. MAX_RETRY]
    /\ seen \in [Op -> {"none", "ok", "gone", "limited", "error"}]
    /\ hurried \in BOOLEAN

\* A click is sent for the picture the user sees, also when uploads that
\* overlap are answered in another order than they were begun.
ClickIsForPicture == imageId # None => imageId = imageUrl

\* The masks drawn are of the picture they are drawn over, as long as the user
\* waits for each call and for the animations.
MasksOnPictureInTurn == ~hurried => \A i \in 1 .. Len(masks) : about[masks[i]] = imageUrl

\* The canvas never stays blocked: the spinner stops, whatever way the
\* operation it stands for ended, retries included.
SpinnerStops == loading ~> ~loading

\* What keeps it from staying: the spinner turns only while a call is under way
\* or asleep between two attempts, also when calls overlap and when Reset left
\* the page the call was begun on.
SpinnerHasCall == loading => Pending # {}

\* The picture shown is never a revoked object URL; and as long as the user
\* waits, no other is left alive: reset revokes the only one there is.
UrlsInStep ==
    /\ imageUrl # None => imageUrl \in urls
    /\ ~hurried => urls \subseteq {imageUrl}

\* The banner that asks for a new upload is about the picture shown, and that
\* picture takes no clicks any more: as long as the user waits, no old 410 is
\* shown over a picture that works.
ExpiredIsForPicture ==
    (~hurried /\ error # None /\ seen[error] = "gone") =>
        (about[error] = imageUrl /\ imageId = None)

-----------------------------------------------------------------------------
(* The inductive invariant of SegmentCanvas_proofs. *)

\* There is a picture exactly while the workspace is to be shown.
StageInv == imageUrl # None <=> stage \in {"uploader leaving", "workspace"}

\* Masks and the banner are of calls that have ended.
DoneInv ==
    /\ \A i \in 1 .. Len(masks) : at[masks[i]] = "done"
    /\ error # None => at[error] = "done"

\* The only call under way: no banner is shown, and the page is the one it was
\* begun on.
OnItsPage(o) ==
    /\ error = None
    /\ at[o] \in {"upload", "upload wait"} => stage = "uploader"
    /\ at[o] \in {"segment", "segment wait"} => stage = "workspace" /\ about[o] = imageUrl

\* A user who waits has one call under way at most.
TurnInv ==
    ~hurried =>
        /\ \A o, p \in Pending : o = p
        /\ \A o \in Pending : OnItsPage(o)

IInv ==
    /\ TypeOK
    /\ StageInv
    /\ DoneInv
    /\ TurnInv
    /\ ClickIsForPicture
    /\ MasksOnPictureInTurn
    /\ UrlsInStep
    /\ ExpiredIsForPicture
=============================================================================
