------------------------- MODULE SegmentCanvas_proofs -------------------------
(***************************************************************************)
(* Proofs about the page of Frontend, then about the page with its canvas, *)
(* for any number of calls and of retries.                                 *)
(***************************************************************************)
EXTENDS SegmentCanvas, TLAPS, SequenceTheorems

\* What removing an element leaves: a sequence of elements of the old one.
LEMMA RemoveAtFacts ==
  ASSUME NEW S, NEW s \in Seq(S), NEW i \in 1 .. Len(s)
  PROVE  /\ RemoveAt(s, i) \in Seq(S)
         /\ \A k \in 1 .. Len(RemoveAt(s, i)) : \E j \in 1 .. Len(s) : RemoveAt(s, i)[k] = s[j]
<1> DEFINE left == SubSeq(s, 1, i - 1)
           right == SubSeq(s, i + 1, Len(s))
<1>1. /\ Len(s) \in Nat
      /\ \A j \in 1 .. Len(s) : s[j] \in S
  OBVIOUS
<1>2. /\ left \in Seq(S)
      /\ Len(left) = i - 1
      /\ \A k \in 1 .. i - 1 : left[k] = s[k]
  BY <1>1, SubSeqProperties
<1>3. /\ right \in Seq(S)
      /\ Len(right) = Len(s) - i
      /\ \A k \in 1 .. Len(s) - i : right[k] = s[i + k]
  BY <1>1, SubSeqProperties
<1> HIDE DEF left, right
<1>4. /\ left \o right \in Seq(S)
      /\ Len(left \o right) = Len(s) - 1
      /\ \A k \in 1 .. Len(s) - 1 :
            (left \o right)[k] = IF k <= i - 1 THEN left[k] ELSE right[k - (i - 1)]
  <2>1. /\ left \o right \in Seq(S)
        /\ Len(left \o right) = Len(left) + Len(right)
        /\ \A k \in 1 .. Len(left) + Len(right) :
              (left \o right)[k] = IF k <= Len(left) THEN left[k] ELSE right[k - Len(left)]
    BY <1>2, <1>3, ConcatProperties, Zenon
  <2>2. Len(left) + Len(right) = Len(s) - 1
    BY <1>1, <1>2, <1>3
  <2> QED
    BY <1>2, <2>1, <2>2, Zenon
<1>5. ASSUME NEW k \in 1 .. Len(s) - 1
      PROVE  \E j \in 1 .. Len(s) : (left \o right)[k] = s[j]
  <2>1. CASE k <= i - 1
    <3>1. (left \o right)[k] = s[k] /\ k \in 1 .. Len(s)
      BY <1>1, <1>2, <1>4, <2>1
    <3> QED
      BY <3>1
  <2>2. CASE ~(k <= i - 1)
    <3>1. k - (i - 1) \in 1 .. Len(s) - i /\ i + (k - (i - 1)) = k + 1
      BY <1>1, <2>2
    <3>2. (left \o right)[k] = s[k + 1]
      BY <1>3, <1>4, <2>2, <3>1
    <3> QED
      BY <1>1, <3>2
  <2> QED
    BY <2>1, <2>2
<1>6. RemoveAt(s, i) = left \o right
  BY DEF RemoveAt, left, right
<1> QED
  BY <1>1, <1>4, <1>5, <1>6

\* There is no mask in the empty sequence.
LEMMA EmptyFacts == <<>> \in Seq(Op) /\ 1 .. Len(<<>>) = {}
<1>1. Len(<<>>) = 0
  OBVIOUS
<1> QED
  BY <1>1

\* A mask, and the call of a banner, is a call.
LEMMA MaskFacts == TypeOK => /\ \A i \in 1 .. Len(masks) : masks[i] \in Op
                             /\ error # None => error \in Op
<1> SUFFICES ASSUME TypeOK
             PROVE  /\ \A i \in 1 .. Len(masks) : masks[i] \in Op
                    /\ error # None => error \in Op
  OBVIOUS
<1>1. masks \in Seq(Op) /\ error \in Op \union {None}
  BY DEF TypeOK
<1> QED
  BY <1>1

Props == [id : Op \union {None}, picture : Op \union {None}, masks : Seq(Op)]

\* The props of a workspace that leaves, and of none.
LEMMA PropsFacts == NoProps \in Props /\ (TypeOK => LastProps \in Props)
BY EmptyFacts DEF NoProps, LastProps, Props, TypeOK

\* A call under way has not ended; its place says which kind it is.
LEMMA PendingFacts ==
  \A o \in Op : o \in Pending <=> at[o] \in {"upload", "segment", "upload wait", "segment wait"}
BY DEF Pending, Fetching, Waiting

-----------------------------------------------------------------------------
\* Nothing is shown and no call was made.
LEMMA InitIInv == Init => IInv
<1> SUFFICES ASSUME Init PROVE IInv
  OBVIOUS
<1> USE DEF Init
<1>1. TypeOK
  <2>1. /\ imageId \in Op \union {None}
        /\ imageUrl \in Op \union {None}
        /\ masks \in Seq(Op)
        /\ loading \in BOOLEAN
        /\ error \in Op \union {None}
        /\ urls \subseteq Op
        /\ stage \in Uploader \union Workspace
        /\ frozen \in Props
        /\ hurried \in BOOLEAN
    BY EmptyFacts, PropsFacts DEF Uploader
  <2>2. /\ at \in [Op -> {"unused", "upload", "segment", "upload wait", "segment wait", "done"}]
        /\ about \in [Op -> Op \union {None}]
        /\ attempt \in [Op -> 0 .. MAX_RETRY]
        /\ seen \in [Op -> {"none", "ok", "gone", "limited", "error"}]
    BY FrontendAssumption
  <2> QED
    BY <2>1, <2>2 DEF TypeOK, Props
<1>2. Pending = {}
  BY DEF Pending, Fetching, Waiting
<1>3. StageInv /\ ClickIsForPicture /\ UrlsInStep /\ ExpiredIsForPicture
  BY DEF StageInv, ClickIsForPicture, UrlsInStep, ExpiredIsForPicture
<1>4. DoneInv /\ TurnInv /\ MasksOnPictureInTurn
  BY <1>2, EmptyFacts DEF DoneInv, TurnInv, MasksOnPictureInTurn
<1> QED
  BY <1>1, <1>3, <1>4 DEF IInv

-----------------------------------------------------------------------------
(* A call begins.  Its place was unused, so that no mask and no banner was of *)
(* it; if the user waited there was no other.                                 *)

\* What Upload and Segment have in common.
LEMMA BeginFacts ==
  ASSUME IInv, NEW o \in Op, NEW place \in {"upload", "segment"}, Begin(o, place)
  PROVE  /\ at' = [at EXCEPT ![o] = place]
         /\ DoneInv'
         /\ \A i \in 1 .. Len(masks) : masks[i] # o
         /\ ~hurried' => ~hurried /\ Pending = {} /\ Pending' = {o}
                            /\ stage \in {"uploader", "workspace"}
         /\ ClickIsForPicture' /\ UrlsInStep' /\ StageInv' /\ ExpiredIsForPicture'
<1> USE DEF IInv, TypeOK, Begin, hook, page, ops
<1>1. DoneInv'
  BY MaskFacts DEF DoneInv
<1>2. \A i \in 1 .. Len(masks) : masks[i] # o
  BY DEF DoneInv
<1>3. ASSUME ~hurried'
      PROVE  ~hurried /\ Pending = {} /\ Pending' = {o} /\ stage \in {"uploader", "workspace"}
  <2>1. ~hurried /\ Pending = {} /\ stage \in {"uploader", "workspace"}
    BY <1>3 DEF Hurry
  <2>2. Pending' = {o}
    BY <2>1 DEF Pending, Fetching, Waiting
  <2> QED
    BY <2>1, <2>2
<1>4. ClickIsForPicture' /\ UrlsInStep' /\ StageInv' /\ ExpiredIsForPicture'
  BY DEF ClickIsForPicture, UrlsInStep, StageInv, ExpiredIsForPicture, Hurry
<1> QED
  BY <1>1, <1>2, <1>3, <1>4

\* An upload begins.
LEMMA UploadStep == ASSUME IInv, NEW o \in Op, Upload(o) PROVE IInv'
<1> USE DEF Upload
<1>1. Begin(o, "upload") /\ UNCHANGED about /\ stage \in Uploader
  OBVIOUS
<1>2. /\ at' = [at EXCEPT ![o] = "upload"]
      /\ DoneInv'
      /\ ~hurried' => ~hurried /\ Pending = {} /\ Pending' = {o} /\ stage \in {"uploader", "workspace"}
      /\ ClickIsForPicture' /\ UrlsInStep' /\ StageInv' /\ ExpiredIsForPicture'
  BY <1>1, BeginFacts
<1>3. TypeOK'
  BY <1>1 DEF IInv, TypeOK, Begin, hook, page, Hurry
<1>4. TurnInv'
  <2> SUFFICES ASSUME ~hurried' PROVE Pending' = {o} /\ OnItsPage(o)'
    BY DEF TurnInv
  <2>1. at'[o] = "upload"
    BY <1>2 DEF IInv, TypeOK
  <2>2. error' = None /\ stage' = "uploader"
    BY <1>1, <1>2 DEF Begin, page, Uploader
  <2> QED
    BY <1>2, <2>1, <2>2 DEF OnItsPage
<1>5. MasksOnPictureInTurn'
  BY <1>1, <1>2 DEF MasksOnPictureInTurn, Begin, IInv
<1> QED
  BY <1>2, <1>3, <1>4, <1>5 DEF IInv

\* A segment begins: it is about the picture shown, if the user waited.
LEMMA SegmentStep == ASSUME IInv, NEW o \in Op, Segment(o) PROVE IInv'
<1>1. PICK id \in Op :
        /\ \/ stage = "workspace" /\ ~loading /\ imageId = id
           \/ stage = "workspace leaving" /\ frozen.id = id
        /\ about' = [about EXCEPT ![o] = id]
        /\ Begin(o, "segment")
  BY DEF Segment
<1>2. /\ at' = [at EXCEPT ![o] = "segment"]
      /\ DoneInv'
      /\ \A i \in 1 .. Len(masks) : masks[i] # o
      /\ ~hurried' => ~hurried /\ Pending = {} /\ Pending' = {o} /\ stage \in {"uploader", "workspace"}
      /\ ClickIsForPicture' /\ UrlsInStep' /\ StageInv' /\ ExpiredIsForPicture'
  BY <1>1, BeginFacts
<1>3. TypeOK'
  BY <1>1 DEF IInv, TypeOK, Begin, hook, page, Hurry
<1>4. TurnInv'
  <2> SUFFICES ASSUME ~hurried' PROVE Pending' = {o} /\ OnItsPage(o)'
    BY DEF TurnInv
  <2>1. stage = "workspace" /\ imageId = id /\ imageUrl = id
    BY <1>1, <1>2, FrontendAssumption DEF IInv, ClickIsForPicture
  <2> QED
    BY <1>1, <1>2, <2>1 DEF OnItsPage, Begin, page, IInv, TypeOK
<1>5. MasksOnPictureInTurn'
  <2> SUFFICES ASSUME ~hurried', NEW i \in 1 .. Len(masks) PROVE about'[masks[i]] = imageUrl
    BY <1>1 DEF MasksOnPictureInTurn, Begin
  <2>1. about[masks[i]] = imageUrl
    BY <1>2 DEF IInv, MasksOnPictureInTurn
  <2>2. masks[i] # o /\ masks[i] \in Op
    BY <1>2, MaskFacts DEF IInv
  <2> QED
    BY <1>1, <2>1, <2>2 DEF IInv, TypeOK
<1> QED
  BY <1>2, <1>3, <1>4, <1>5 DEF IInv

-----------------------------------------------------------------------------
(* The other things a user does, and the end of an exit animation.            *)

\* Reset leaves no picture, no mask, no banner, and revokes the picture's URL.
LEMMA ResetStep == ASSUME IInv, Reset PROVE IInv'
<1> USE DEF IInv, Reset, ops
<1>1. TypeOK'
  <2>1. frozen' \in Props /\ masks' \in Seq(Op)
    BY EmptyFacts, PropsFacts DEF TypeOK, Props
  <2>2. hurried' \in BOOLEAN
    BY DEF TypeOK, Hurry
  <2> QED
    BY <2>1, <2>2 DEF TypeOK, Workspace, Props
<1>2. StageInv' /\ DoneInv' /\ ClickIsForPicture' /\ ExpiredIsForPicture'
  BY EmptyFacts DEF StageInv, DoneInv, ClickIsForPicture, ExpiredIsForPicture
<1>3. MasksOnPictureInTurn'
  BY EmptyFacts DEF MasksOnPictureInTurn
<1>4. UrlsInStep'
  BY DEF UrlsInStep, Hurry
<1>5. TurnInv'
  BY DEF TurnInv, Hurry, Pending, Fetching, Waiting
<1> QED
  BY <1>1, <1>2, <1>3, <1>4, <1>5

\* Clearing the masks leaves none to be of another picture.
LEMMA ClearMasksStep == ASSUME IInv, ClearMasks PROVE IInv'
<1> USE DEF IInv, ClearMasks, ops, page
<1>1. TypeOK'
  BY EmptyFacts DEF TypeOK, Hurry
<1>2. StageInv' /\ DoneInv' /\ ClickIsForPicture' /\ ExpiredIsForPicture'
  BY EmptyFacts DEF StageInv, DoneInv, ClickIsForPicture, ExpiredIsForPicture, Hurry
<1>3. MasksOnPictureInTurn' /\ UrlsInStep'
  BY EmptyFacts DEF MasksOnPictureInTurn, UrlsInStep, Hurry
<1>4. TurnInv'
  BY DEF TurnInv, Hurry, Pending, Fetching, Waiting
<1> QED
  BY <1>1, <1>2, <1>3, <1>4

\* Removing a mask leaves masks that were there.
LEMMA RemoveMaskStep == ASSUME IInv, NEW i, RemoveMask(i) PROVE IInv'
<1> USE DEF IInv, RemoveMask, ops, page
<1>1. masks \in Seq(Op)
  BY DEF TypeOK
<1>2. /\ masks' \in Seq(Op)
      /\ \A k \in 1 .. Len(masks') : \E j \in 1 .. Len(masks) : masks'[k] = masks[j]
  <2>1. CASE i \in 1 .. Len(masks)
    BY <1>1, <2>1, RemoveAtFacts
  <2>2. CASE i \notin 1 .. Len(masks)
    BY <1>1, <2>2
  <2> QED
    BY <2>1, <2>2
<1>3. TypeOK'
  BY <1>2 DEF TypeOK, Hurry
<1>4. StageInv' /\ ClickIsForPicture' /\ ExpiredIsForPicture' /\ UrlsInStep'
  BY DEF StageInv, ClickIsForPicture, ExpiredIsForPicture, UrlsInStep, Hurry
<1>5. DoneInv'
  BY <1>2 DEF DoneInv
<1>6. MasksOnPictureInTurn'
  BY <1>2 DEF MasksOnPictureInTurn, Hurry
<1>7. TurnInv'
  BY DEF TurnInv, Hurry, Pending, Fetching, Waiting
<1> QED
  BY <1>3, <1>4, <1>5, <1>6, <1>7

\* Nothing is said of a page without a banner.
LEMMA ClearErrorStep == ASSUME IInv, ClearError PROVE IInv'
<1> USE DEF IInv, ClearError, ops, page
<1>1. TypeOK'
  BY DEF TypeOK
<1>2. StageInv' /\ DoneInv' /\ ClickIsForPicture' /\ ExpiredIsForPicture'
  BY DEF StageInv, DoneInv, ClickIsForPicture, ExpiredIsForPicture
<1>3. MasksOnPictureInTurn' /\ UrlsInStep'
  BY DEF MasksOnPictureInTurn, UrlsInStep
<1>4. Pending' = Pending
  BY DEF Pending, Fetching, Waiting
<1>5. TurnInv'
  BY <1>4 DEF TurnInv, OnItsPage
<1> QED
  BY <1>1, <1>2, <1>3, <1>5

\* While a child leaves, a user who waits has no call under way.
LEMMA ExitDoneStep == ASSUME IInv, ExitDone PROVE IInv'
<1> USE DEF IInv, ExitDone, ops, hook
<1>1. TypeOK'
  BY PropsFacts DEF TypeOK, Uploader, Workspace, Props
<1>2. StageInv' /\ DoneInv' /\ ClickIsForPicture' /\ ExpiredIsForPicture'
  BY DEF StageInv, DoneInv, ClickIsForPicture, ExpiredIsForPicture
<1>3. MasksOnPictureInTurn' /\ UrlsInStep'
  BY DEF MasksOnPictureInTurn, UrlsInStep
<1>4. Pending' = Pending
  BY DEF Pending, Fetching, Waiting
<1>5. ~hurried => Pending = {}
  BY PendingFacts DEF TurnInv, OnItsPage, Pending
<1>6. TurnInv'
  BY <1>4, <1>5 DEF TurnInv
<1> QED
  BY <1>1, <1>2, <1>3, <1>6

-----------------------------------------------------------------------------
(* The request loop: the call stays under way, on the same page.              *)

\* A call moves between fetching and waiting.
LEMMA StaysPending ==
  ASSUME IInv, NEW o \in Op, o \in Pending,
         UNCHANGED <<hook, page, about, seen, hurried>>,
         \/ /\ at[o] \in {"upload", "upload wait"}
            /\ \E place \in {"upload", "upload wait"} : at' = [at EXCEPT ![o] = place]
         \/ /\ at[o] \in {"segment", "segment wait"}
            /\ \E place \in {"segment", "segment wait"} : at' = [at EXCEPT ![o] = place],
         attempt' \in [Op -> 0 .. MAX_RETRY]
  PROVE  IInv'
<1> USE DEF IInv, hook, page
<1>1. TypeOK'
  BY DEF TypeOK
<1>2. StageInv' /\ ClickIsForPicture' /\ UrlsInStep' /\ ExpiredIsForPicture' /\ MasksOnPictureInTurn'
  BY DEF StageInv, ClickIsForPicture, UrlsInStep, ExpiredIsForPicture, MasksOnPictureInTurn
<1>3. DoneInv'
  <2>1. \A p \in Op : at[p] = "done" => at'[p] = "done"
    BY DEF TypeOK
  <2> QED
    BY <2>1, MaskFacts DEF DoneInv
<1>4. Pending' = Pending
  BY DEF Pending, Fetching, Waiting, TypeOK
<1>5. TurnInv'
  <2>1. \A p \in Pending : OnItsPage(p) => OnItsPage(p)'
    BY DEF OnItsPage, TypeOK, Pending
  <2> QED
    BY <1>4, <2>1 DEF TurnInv
<1> QED
  BY <1>1, <1>2, <1>3, <1>5

\* An attempt is counted only below the bound.
LEMMA RetryStep == ASSUME IInv, NEW o \in Op, Retry(o) PROVE IInv'
<1>1. o \in Pending
  BY DEF Retry, Pending
<1>2. attempt' \in [Op -> 0 .. MAX_RETRY]
  <2>1. attempt \in [Op -> 0 .. MAX_RETRY] /\ attempt[o] < MAX_RETRY
    BY DEF Retry, IInv, TypeOK
  <2>2. attempt[o] + 1 \in 0 .. MAX_RETRY
    BY <2>1, FrontendAssumption
  <2> QED
    BY <2>1, <2>2 DEF Retry
<1>3. UNCHANGED <<hook, page, about, seen, hurried>>
  BY DEF Retry
<1>4. \/ at[o] = "upload" /\ at' = [at EXCEPT ![o] = "upload wait"]
      \/ at[o] = "segment" /\ at' = [at EXCEPT ![o] = "segment wait"]
  BY DEF Retry, Sleep, Fetching, IInv, TypeOK
<1> QED
  BY <1>1, <1>2, <1>3, <1>4, StaysPending

\* The request is sent again.
LEMMA RefetchStep == ASSUME IInv, NEW o \in Op, Refetch(o) PROVE IInv'
<1>1. o \in Pending
  BY DEF Refetch, Pending
<1>2. attempt' \in [Op -> 0 .. MAX_RETRY] /\ UNCHANGED <<hook, page, about, seen, hurried>>
  BY DEF Refetch, IInv, TypeOK
<1>3. \/ at[o] = "upload wait" /\ at' = [at EXCEPT ![o] = "upload"]
      \/ at[o] = "segment wait" /\ at' = [at EXCEPT ![o] = "segment"]
  BY DEF Refetch, Waiting, IInv, TypeOK
<1> QED
  BY <1>1, <1>2, <1>3, StaysPending

-----------------------------------------------------------------------------
(* A promise settles.                                                         *)

\* The call has ended and no other changed; a user who waited has none under
\* way any more.
LEMMA SettleFacts ==
  ASSUME IInv, NEW o \in Op, o \in Pending, NEW result, Settle(o, result)
  PROVE  /\ at' = [at EXCEPT ![o] = "done"]
         /\ at'[o] = "done"
         /\ \A p \in Op : at[p] = "done" => at'[p] = "done"
         /\ seen' = [seen EXCEPT ![o] = result]
         /\ seen'[o] = result
         /\ hurried' = hurried
         /\ ~hurried => Pending = {o} /\ Pending' = {} /\ OnItsPage(o)
<1> USE DEF IInv, Settle
<1>1. at \in [Op -> {"unused", "upload", "segment", "upload wait", "segment wait", "done"}]
  BY DEF TypeOK
<1>2. ASSUME ~hurried PROVE Pending = {o} /\ Pending' = {} /\ OnItsPage(o)
  <2>1. Pending = {o} /\ OnItsPage(o)
    BY <1>2 DEF TurnInv
  <2>2. \A p \in Op : p # o => p \notin Pending /\ at'[p] = at[p]
    BY <1>1, <2>1
  <2> QED
    BY <1>1, <2>1, <2>2 DEF Pending, Fetching, Waiting
<1> QED
  BY <1>1, <1>2 DEF TypeOK

\* The answer of an upload: a user who waited had no picture, no banner, and
\* no other URL.
LEMMA UploadOKStep == ASSUME IInv, NEW o \in Op, UploadOK(o) PROVE IInv'
<1> USE DEF UploadOK
<1>1. o \in Pending /\ at[o] = "upload" /\ Settle(o, "ok")
  BY DEF Pending, Fetching
<1>2. /\ \A p \in Op : at[p] = "done" => at'[p] = "done"
      /\ hurried' = hurried
      /\ ~hurried => Pending' = {} /\ OnItsPage(o)
  BY <1>1, SettleFacts
<1>3. TypeOK'
  <2>1. frozen' \in Props /\ stage' \in Uploader \union Workspace
    BY PropsFacts DEF ShowWorkspace, IInv, TypeOK, Uploader, Workspace
  <2>2. masks' \in Seq(Op)
    BY EmptyFacts
  <2>3. /\ at' \in [Op -> {"unused", "upload", "segment", "upload wait", "segment wait", "done"}]
        /\ about' \in [Op -> Op \union {None}]
        /\ attempt' \in [Op -> 0 .. MAX_RETRY]
        /\ seen' \in [Op -> {"none", "ok", "gone", "limited", "error"}]
    BY <1>1 DEF IInv, TypeOK, Settle
  <2> QED
    BY <1>1, <2>1, <2>2, <2>3 DEF IInv, TypeOK, Settle, Props
<1>4. StageInv' /\ ClickIsForPicture'
  BY FrontendAssumption DEF StageInv, ClickIsForPicture, ShowWorkspace, IInv, TypeOK, Uploader, Workspace
<1>5. DoneInv'
  BY <1>2, EmptyFacts, MaskFacts DEF DoneInv, IInv
<1>6. TurnInv'
  BY <1>2 DEF TurnInv
<1>7. MasksOnPictureInTurn'
  BY EmptyFacts DEF MasksOnPictureInTurn
<1>8. UrlsInStep'
  <2>1. ~hurried => imageUrl = None
    BY <1>1, <1>2 DEF OnItsPage, IInv, StageInv
  <2>2. ~hurried => urls = {}
    BY <2>1, FrontendAssumption DEF IInv, UrlsInStep, TypeOK
  <2> QED
    BY <1>2, <2>2 DEF UrlsInStep
<1>9. ExpiredIsForPicture'
  BY <1>2 DEF ExpiredIsForPicture, OnItsPage
<1> QED
  BY <1>3, <1>4, <1>5, <1>6, <1>7, <1>8, <1>9 DEF IInv

\* The answer of a segment: the mask is of the picture the call was about.
LEMMA SegmentOKStep == ASSUME IInv, NEW o \in Op, SegmentOK(o) PROVE IInv'
<1> USE DEF SegmentOK, page
<1>1. o \in Pending /\ at[o] = "segment" /\ Settle(o, "ok")
  BY DEF Pending, Fetching
<1>2. /\ at'[o] = "done"
      /\ \A p \in Op : at[p] = "done" => at'[p] = "done"
      /\ hurried' = hurried
      /\ ~hurried => Pending' = {} /\ OnItsPage(o)
  BY <1>1, SettleFacts
<1>3. /\ masks \in Seq(Op)
      /\ masks' = masks \/ masks' = Append(masks, o)
      /\ masks' \in Seq(Op)
  <2>1. masks \in Seq(Op) /\ masks' \in {masks, Append(masks, o)}
    BY DEF IInv, TypeOK
  <2>2. Append(masks, o) \in Seq(Op)
    BY <2>1
  <2> QED
    BY <2>1, <2>2
<1>4. \A k \in 1 .. Len(masks') :
        masks'[k] = o \/ (k \in 1 .. Len(masks) /\ masks'[k] = masks[k])
  BY <1>3
<1>5. TypeOK'
  BY <1>1, <1>3 DEF IInv, TypeOK, Settle
<1>6. StageInv' /\ ClickIsForPicture' /\ UrlsInStep'
  BY <1>2 DEF StageInv, ClickIsForPicture, UrlsInStep, IInv
<1>7. DoneInv'
  BY <1>2, <1>4, MaskFacts DEF DoneInv, IInv
<1>8. TurnInv'
  BY <1>2 DEF TurnInv
<1>9. MasksOnPictureInTurn'
  BY <1>1, <1>2, <1>4 DEF MasksOnPictureInTurn, OnItsPage, IInv
<1>10. ExpiredIsForPicture'
  BY <1>2 DEF ExpiredIsForPicture, OnItsPage
<1> QED
  BY <1>5, <1>6, <1>7, <1>8, <1>9, <1>10 DEF IInv

\* 410: the id goes, and the call was about the picture that stays.
LEMMA SegmentGoneStep == ASSUME IInv, NEW o \in Op, SegmentGone(o) PROVE IInv'
<1> USE DEF SegmentGone, page
<1>1. o \in Pending /\ at[o] = "segment" /\ Settle(o, "gone")
  BY DEF Pending, Fetching
<1>2. /\ at'[o] = "done"
      /\ hurried' = hurried
      /\ ~hurried => Pending' = {} /\ OnItsPage(o)
  BY <1>1, SettleFacts
<1>3. TypeOK'
  BY <1>1, EmptyFacts DEF IInv, TypeOK, Settle
<1>4. StageInv' /\ ClickIsForPicture' /\ UrlsInStep'
  BY <1>2 DEF StageInv, ClickIsForPicture, UrlsInStep, IInv
<1>5. DoneInv' /\ TurnInv' /\ MasksOnPictureInTurn'
  BY <1>2, EmptyFacts DEF DoneInv, TurnInv, MasksOnPictureInTurn
<1>6. ExpiredIsForPicture'
  BY <1>1, <1>2 DEF ExpiredIsForPicture, OnItsPage
<1> QED
  BY <1>3, <1>4, <1>5, <1>6 DEF IInv

\* Any other failure changes the banner only, and its banner asks for nothing.
LEMMA FailsStep == ASSUME IInv, NEW o \in Op, Fails(o) PROVE IInv'
<1> USE DEF Fails, page
<1>1. PICK result \in {"error", "limited"} : Settle(o, result)
  OBVIOUS
<1>2. o \in Pending
  BY DEF Pending
<1>3. /\ at'[o] = "done"
      /\ \A p \in Op : at[p] = "done" => at'[p] = "done"
      /\ seen'[o] = result
      /\ hurried' = hurried
      /\ ~hurried => Pending' = {}
  BY <1>1, <1>2, SettleFacts
<1>4. TypeOK'
  BY <1>1 DEF IInv, TypeOK, Settle
<1>5. StageInv' /\ ClickIsForPicture' /\ UrlsInStep' /\ MasksOnPictureInTurn'
  BY <1>3 DEF StageInv, ClickIsForPicture, UrlsInStep, MasksOnPictureInTurn, IInv
<1>6. DoneInv'
  BY <1>3, MaskFacts DEF DoneInv, IInv
<1>7. TurnInv'
  BY <1>3 DEF TurnInv
<1>8. ExpiredIsForPicture'
  BY <1>1, <1>3 DEF ExpiredIsForPicture
<1> QED
  BY <1>4, <1>5, <1>6, <1>7, <1>8 DEF IInv

-----------------------------------------------------------------------------
\* A step that changes nothing.
LEMMA StutterStep == ASSUME IInv, UNCHANGED vars PROVE IInv'
<1> USE DEF vars, hook, page, ops
<1>1. Pending' = Pending
  BY DEF Pending, Fetching, Waiting
<1>2. TurnInv' /\ DoneInv' /\ StageInv'
  BY <1>1 DEF IInv, TurnInv, OnItsPage, DoneInv, StageInv
<1>3. TypeOK' /\ ClickIsForPicture' /\ MasksOnPictureInTurn' /\ UrlsInStep' /\ ExpiredIsForPicture'
  BY DEF IInv, TypeOK, ClickIsForPicture, MasksOnPictureInTurn, UrlsInStep, ExpiredIsForPicture
<1> QED
  BY <1>2, <1>3 DEF IInv

\* Every step keeps the invariant.
LEMMA NextIInv == IInv /\ [Next]_vars => IInv'
<1> SUFFICES ASSUME IInv, [Next]_vars PROVE IInv'
  OBVIOUS
<1>1. ASSUME NEW o \in Op, OpStep(o) PROVE IInv'
  BY <1>1, RetryStep, RefetchStep, UploadOKStep, SegmentOKStep, SegmentGoneStep, FailsStep DEF OpStep
<1>2. ASSUME NEW o \in Op, Upload(o) \/ Segment(o) PROVE IInv'
  BY <1>2, UploadStep, SegmentStep
<1>3. ASSUME NEW i \in Rows, RemoveMask(i) PROVE IInv'
  BY <1>3, RemoveMaskStep
<1>4. CASE Reset \/ ClearMasks \/ ClearError \/ ExitDone
  BY <1>4, ResetStep, ClearMasksStep, ClearErrorStep, ExitDoneStep
<1>5. CASE UNCHANGED vars
  BY <1>5, StutterStep
<1> QED
  BY <1>1, <1>2, <1>3, <1>4, <1>5 DEF Next

-----------------------------------------------------------------------------
\* The inductive invariant of the page: useSegmentation.ts, api.ts and page.tsx
\* keep the calls, the state and the mounted child in step.
THEOREM Invariance == Spec => []IInv
<1> QED
  BY InitIInv, NextIInv, PTL DEF Spec

\* The type of the page's state; no call is sent more than 1 + MAX_RETRY times
\* (fetchWithRetry).
THEOREM TypeCorrect == Spec => []TypeOK
<1>1. IInv => TypeOK
  BY DEF IInv
<1> QED
  BY <1>1, Invariance, PTL

\* The spinner of useSegmentation.ts stands for a call: fetchWithRetry puts a
\* call to sleep or sends it again, and every way out of upload and segment
\* ends both.
THEOREM SpinnerIsOfACall == Spec => []SpinnerHasCall
<1>1. Init => SpinnerHasCall
  BY DEF Init, SpinnerHasCall
<1>2. IInv /\ SpinnerHasCall /\ [Next]_vars => SpinnerHasCall'
  <2> SUFFICES ASSUME IInv, SpinnerHasCall, [Next]_vars, loading' PROVE Pending' # {}
    BY DEF SpinnerHasCall
  <2>1. at \in [Op -> {"unused", "upload", "segment", "upload wait", "segment wait", "done"}]
    BY DEF IInv, TypeOK
  <2>2. ASSUME NEW o \in Op, Upload(o) \/ Segment(o) PROVE o \in Pending'
    BY <2>1, <2>2 DEF Upload, Segment, Begin, Pending, Fetching
  <2>3. ASSUME NEW o \in Op, Retry(o) \/ Refetch(o) PROVE o \in Pending'
    BY <2>1, <2>3 DEF Retry, Refetch, Sleep, Pending, Fetching, Waiting
  <2>4. ASSUME NEW o \in Op, UploadOK(o) \/ SegmentOK(o) \/ SegmentGone(o) \/ Fails(o)
        PROVE  FALSE
    BY <2>4 DEF UploadOK, SegmentOK, SegmentGone, Fails, Settle
  <2>5. CASE \/ \E i \in Rows : RemoveMask(i)
             \/ Reset \/ ClearMasks \/ ClearError \/ ExitDone \/ UNCHANGED vars
    <3>1. UNCHANGED <<loading, at>>
      BY <2>5 DEF RemoveMask, Reset, ClearMasks, ClearError, ExitDone, vars, hook, ops
    <3> QED
      BY <3>1 DEF SpinnerHasCall, Pending, Fetching, Waiting
  <2> QED
    BY <2>2, <2>3, <2>4, <2>5 DEF Next, OpStep
<1> QED
  BY <1>1, <1>2, Invariance, PTL DEF Spec

-----------------------------------------------------------------------------
(* The canvas adds nothing to the page.                                       *)

\* Every step is a step of the page, or of the canvas alone.
LEMMA StepsOfPage == [CanvasNext]_allVars => [Next]_vars
<1>1. ASSUME NEW o \in Op, OpShows(o) PROVE Next
  BY <1>1 DEF OpShows, Next, OpStep
<1>2. UserShows => Next
  BY DEF UserShows, Next
<1>3. ExitDone => Next
  BY DEF Next
<1>4. ImgLoad \/ Resize \/ RunEffect \/ UNCHANGED allVars => UNCHANGED vars
  BY DEF ImgLoad, Resize, RunEffect, allVars
<1> QED
  BY <1>1, <1>2, <1>3, <1>4 DEF CanvasNext

\* SegmentCanvas.tsx only looks at the state of the hook: whatever the page
\* does with it is a behaviour of the page alone.
THEOREM RefinesPage == CanvasSpec => Spec
<1>1. CanvasInit => Init
  BY DEF CanvasInit
<1> QED
  BY <1>1, StepsOfPage, PTL DEF CanvasSpec, Spec

-----------------------------------------------------------------------------
(* What the steps of the page do to the canvas.                               *)

\* Mounted, not mounted, or leaving: nothing is claimed of the canvas yet.
LEMMA NotRenderedKeeps ==
  ASSUME IInv, CanvasInv, hurried => hurried',
         Mount \/ NotMounted \/ (Leaving /\ stage \in Workspace)
  PROVE  CanvasInv'
<1> USE DEF CanvasInv
<1>1. CASE Mount
  BY <1>1 DEF Mount, Fresh, CanvasTypeOK, ReadyInv, MountInv, CanvasShowsState
<1>2. CASE NotMounted
  BY <1>2 DEF NotMounted, Fresh, CanvasTypeOK, ReadyInv, MountInv, CanvasShowsState, Uploader
<1>3. CASE Leaving /\ stage \in Workspace
  BY <1>3 DEF Leaving, canvas, CanvasTypeOK, ReadyInv, MountInv, CanvasShowsState, Uploader
<1> QED
  BY <1>1, <1>2, <1>3

\* Rendered: if the masks or the picture are new the effect is due, and only a
\* user who hurried sees a new picture in a canvas that had one.
LEMMA RenderKeeps ==
  ASSUME IInv, CanvasInv, NEW newMasks \in BOOLEAN, Render(newMasks),
         hurried => hurried',
         ~newMasks => masks' = masks /\ stage' = stage,
         stage = "workspace" /\ imageUrl' # imageUrl => newMasks /\ hurried',
         stage = "workspace leaving" => newMasks /\ hurried'
  PROVE  CanvasInv'
<1> USE DEF CanvasInv, Render
<1>1. CanvasTypeOK' /\ MountInv'
  BY DEF CanvasTypeOK, MountInv, Uploader
<1>2. stage = "workspace" => Rendered.picture = imageUrl
  BY DEF Rendered, Current
<1>3. stage \in {"workspace", "workspace leaving"}
  BY DEF Workspace
<1>4. ReadyInv'
  BY <1>2, <1>3 DEF ReadyInv, CanvasTypeOK
<1>5. CanvasShowsState'
  <2> SUFFICES ASSUME complete', ~effect'
               PROVE  drawn' = Current' \/ (drawn' = Blank /\ (hurried' \/ resized'))
    BY DEF CanvasShowsState
  <2>1. ~newMasks /\ stage = "workspace" /\ imageUrl' = Rendered.picture /\ ~effect /\ complete
    BY <1>3 DEF CanvasTypeOK
  <2>2. Current' = Current
    BY <1>2, <2>1 DEF Current
  <2> QED
    BY <2>1, <2>2 DEF CanvasShowsState
<1> QED
  BY <1>1, <1>4, <1>5

\* The two together.
LEMMA ShowsKeeps ==
  ASSUME IInv, CanvasInv, NEW newMasks \in BOOLEAN, Shows(newMasks),
         hurried => hurried',
         stage \in Workspace \/ stage' # "workspace leaving",
         ~newMasks => masks' = masks /\ (stage \in Workspace => stage' = stage \/ stage' \in Uploader),
         stage = "workspace" /\ imageUrl' # imageUrl /\ stage' = "workspace" => newMasks /\ hurried',
         stage = "workspace leaving" /\ stage' = "workspace" => newMasks /\ hurried'
  PROVE  CanvasInv'
<1>1. CASE Mount \/ NotMounted
  BY <1>1, NotRenderedKeeps
<1>2. CASE Leaving
  BY <1>2, NotRenderedKeeps DEF Leaving
<1>3. CASE Render(newMasks)
  BY <1>3, RenderKeeps DEF Render, Uploader
<1> QED
  BY <1>1, <1>2, <1>3 DEF Shows

\* Calls: only the answer of an upload changes the picture, and one that is
\* answered while the workspace is there was hurried.
LEMMA OpKeeps == ASSUME IInv, CanvasInv, NEW o \in Op, OpShows(o) PROVE CanvasInv'
<1> USE DEF page
<1>1. CASE (Retry(o) \/ Refetch(o) \/ Fails(o)) /\ Shows(FALSE)
  <2>1. masks' = masks /\ imageUrl' = imageUrl /\ stage' = stage /\ hurried' = hurried
    <3>1. CASE Retry(o) \/ Refetch(o)
      BY <3>1 DEF Retry, Refetch, hook
    <3>2. CASE Fails(o)
      BY <3>2 DEF Fails, Settle
    <3> QED
      BY <1>1, <3>1, <3>2
  <2>2. stage \in Uploader \union Workspace
    BY DEF IInv, TypeOK
  <2> QED
    BY <1>1, <2>1, <2>2, ShowsKeeps DEF Uploader, Workspace
<1>2. CASE UploadOK(o) /\ Shows(TRUE)
  <2>1. at[o] = "upload" /\ o \in Pending /\ hurried' = hurried
    BY <1>2 DEF UploadOK, Settle, Pending, Fetching
  <2>2. stage \in Workspace => hurried
    BY <2>1 DEF IInv, TurnInv, OnItsPage, Workspace
  <2>3. stage \in Workspace \/ stage' # "workspace leaving"
    BY <1>2 DEF UploadOK, ShowWorkspace, IInv, TypeOK, Uploader, Workspace
  <2> QED
    BY <1>2, <2>1, <2>2, <2>3, ShowsKeeps DEF IInv, TypeOK, Workspace
<1>3. CASE SegmentGone(o) /\ Shows(TRUE)
  BY <1>3, ShowsKeeps DEF SegmentGone, Settle, IInv, TypeOK, Uploader, Workspace
<1>4. CASE SegmentOK(o) /\ Shows(masks' # masks)
  BY <1>4, ShowsKeeps DEF SegmentOK, Settle, IInv, TypeOK, Uploader, Workspace
<1> QED
  BY <1>1, <1>2, <1>3, <1>4 DEF OpShows

\* The user's actions: what replaces the masks renders the canvas.
LEMMA UserKeeps == ASSUME IInv, CanvasInv, UserShows PROVE CanvasInv'
<1> USE DEF page, IInv, TypeOK, Uploader, Workspace
<1>1. ASSUME NEW o \in Op, Upload(o) \/ Segment(o), Shows(FALSE) PROVE CanvasInv'
  BY <1>1, ShowsKeeps DEF Upload, Segment, Begin, Hurry
<1>2. ASSUME NEW i \in Rows, RemoveMask(i), Shows(TRUE) PROVE CanvasInv'
  BY <1>2, ShowsKeeps DEF RemoveMask, Hurry
<1>3. CASE Reset /\ Shows(TRUE)
  BY <1>3, ShowsKeeps DEF Reset, Hurry
<1>4. CASE ClearMasks /\ Shows(TRUE)
  BY <1>4, ShowsKeeps DEF ClearMasks, Hurry
<1>5. CASE ClearError /\ Shows(FALSE)
  BY <1>5, ShowsKeeps DEF ClearError
<1> QED
  BY <1>1, <1>2, <1>3, <1>4, <1>5 DEF UserShows

\* An exit animation ends: the workspace is mounted, or unmounted.
LEMMA ExitKeeps == ASSUME IInv, CanvasInv, ExitDone, Shows(FALSE) PROVE CanvasInv'
BY ShowsKeeps DEF ExitDone, hook, Uploader, Workspace

-----------------------------------------------------------------------------
(* The steps of the canvas.                                                   *)

\* Load, resize and effect: a load event finds canvasReady set only after a
\* resize, or when the user hurried, and else makes the effect due.
LEMMA CanvasKeeps == ASSUME IInv, CanvasInv, ImgLoad \/ Resize \/ RunEffect PROVE CanvasInv'
<1> USE DEF CanvasInv, CanvasTypeOK, vars, hook, page
<1>1. CASE ImgLoad
  BY <1>1 DEF ImgLoad, SetupCanvas, ReadyInv, MountInv, CanvasShowsState, Uploader, Workspace
<1>2. CASE Resize
  BY <1>2 DEF Resize, SetupCanvas, ReadyInv, MountInv, CanvasShowsState, Uploader, Workspace
<1>3. CASE RunEffect
  <2>1. Current' = Current /\ (stage = "workspace" => Rendered = Current)
    BY <1>3 DEF RunEffect, Current, Rendered
  <2>2. CASE complete /\ canvasReady
    BY <1>3, <2>1, <2>2 DEF RunEffect, ReadyInv, MountInv, CanvasShowsState, Uploader
  <2>3. CASE ~(complete /\ canvasReady)
    BY <1>3, <2>3 DEF RunEffect, ReadyInv, MountInv, CanvasShowsState, Uploader
  <2> QED
    BY <2>2, <2>3
<1> QED
  BY <1>1, <1>2, <1>3

\* A step that changes nothing.
LEMMA CanvasStutters == ASSUME CanvasInv, UNCHANGED allVars PROVE CanvasInv'
<1>1. Current' = Current
  BY DEF allVars, vars, hook, Current
<1> QED
  BY <1>1 DEF allVars, vars, hook, page, canvas, CanvasInv, CanvasTypeOK, ReadyInv, MountInv, CanvasShowsState

\* Every step keeps the canvas's part of the invariant.
LEMMA NextCanvasInv == IInv /\ CanvasInv /\ [CanvasNext]_allVars => CanvasInv'
<1> SUFFICES ASSUME IInv, CanvasInv, [CanvasNext]_allVars PROVE CanvasInv'
  OBVIOUS
<1>1. ASSUME NEW o \in Op, OpShows(o) PROVE CanvasInv'
  BY <1>1, OpKeeps
<1>2. CASE UserShows
  BY <1>2, UserKeeps
<1>3. CASE ExitDone /\ Shows(FALSE)
  BY <1>3, ExitKeeps
<1>4. CASE ImgLoad \/ Resize \/ RunEffect
  BY <1>4, CanvasKeeps
<1>5. CASE UNCHANGED allVars
  BY <1>5, CanvasStutters
<1> QED
  BY <1>1, <1>2, <1>3, <1>4, <1>5 DEF CanvasNext

-----------------------------------------------------------------------------
\* The inductive invariant of page and canvas together.
THEOREM CanvasInvariance == CanvasSpec => [](IInv /\ CanvasInv)
<1>1. CanvasInit => IInv /\ CanvasInv
  <2>1. CanvasInit => IInv
    BY InitIInv DEF CanvasInit
  <2>2. CanvasInit => CanvasInv
    BY DEF CanvasInit, Init, CanvasInv, CanvasTypeOK, ReadyInv, MountInv, CanvasShowsState
  <2> QED
    BY <2>1, <2>2
<1>2. (IInv /\ CanvasInv) /\ [CanvasNext]_allVars => (IInv /\ CanvasInv)'
  BY StepsOfPage, NextIInv, NextCanvasInv
<1> QED
  BY <1>1, <1>2, PTL DEF CanvasSpec

\* useSegmentation.ts never sends a click for another picture than the one shown,
\* in whatever order uploads that overlap are answered.
THEOREM ClicksAreForPicture == CanvasSpec => []ClickIsForPicture
<1>1. IInv => ClickIsForPicture
  BY DEF IInv
<1> QED
  BY <1>1, CanvasInvariance, PTL

\* The masks are of the picture they are drawn over, for a user who waits.
THEOREM MasksAreOnPicture == CanvasSpec => []MasksOnPictureInTurn
<1>1. IInv => MasksOnPictureInTurn
  BY DEF IInv
<1> QED
  BY <1>1, CanvasInvariance, PTL

\* The object URLs that useSegmentation.ts makes and revokes are in step with
\* the picture.
THEOREM UrlsAreInStep == CanvasSpec => []UrlsInStep
<1>1. IInv => UrlsInStep
  BY DEF IInv
<1> QED
  BY <1>1, CanvasInvariance, PTL

\* The banner of a 410 is about the picture shown, for a user who waits.
THEOREM ExpiryIsForPicture == CanvasSpec => []ExpiredIsForPicture
<1>1. IInv => ExpiredIsForPicture
  BY DEF IInv
<1> QED
  BY <1>1, CanvasInvariance, PTL

\* SegmentCanvas.tsx shows the state of the hook whenever its effect is done,
\* but for a resize or a hurried upload that left it blank.
THEOREM CanvasIsRight == CanvasSpec => []CanvasShowsState
<1>1. CanvasInv => CanvasShowsState
  BY DEF CanvasInv
<1> QED
  BY <1>1, CanvasInvariance, PTL
=============================================================================
