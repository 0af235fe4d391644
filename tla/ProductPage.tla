----------------------------- MODULE ProductPage ------------------------------
(***************************************************************************)
(* The product page (vibeshop/app/product/[id]/page.tsx) with its two     *)
(* ImagePreview overlays (components/ImagePreview.tsx): one over          *)
(* product.images, one over product.real_images, each with its own index *)
(* state in the page.  The product is a reactive getProductById query, so *)
(* its image lists can change while a preview is open.  An image list is *)
(* abstracted to its length; an index is the number the page stores.     *)
(* The Facebook pixel of the layout (app/layout.tsx) is part of the page: *)
(* window.fbq is defined when its afterInteractive script runs, and the  *)
(* events the page sends through it are kept in order as a history.     *)
(***************************************************************************)
EXTENDS Integers, Sequences, FiniteSets

CONSTANTS
    MaxImages      \* bound on the length of an image list

Kinds == {"images", "real_images"}

VARIABLES
    loaded,        \* getProductById and getCategoryById have answered
    count,         \* kind -> length of product[kind]
    index,         \* kind -> selectedImageIndex / selectedRealImageIndex
    open,          \* kind -> isPreviewOpen / isRealPreviewOpen
    stable,        \* kind -> the list has not changed since the preview opened
    isLoading,     \* the buy button's state
    timers,        \* pending 2 s delays of handleBuyClick
    navigations,   \* assignments of window.location.href to the checkout
    pixel,         \* typeof window.fbq === "function"
    tracked,       \* the ref hasTrackedViewContent
    pixelEvents,   \* the events passed to fbq('track', ...), in order
    isDescriptionExpanded

vars == <<loaded, count, index, open, stable, isLoading, timers,
          navigations, pixel, tracked, pixelEvents, isDescriptionExpanded>>

\* Bound on buy clicks the model follows.
CONSTANT MaxClicks

Init ==
    /\ loaded = FALSE
    /\ count \in [Kinds -> 0..MaxImages]
    /\ index = [k \in Kinds |-> 0]
    /\ open = [k \in Kinds |-> FALSE]
    /\ stable = [k \in Kinds |-> FALSE]
    /\ isLoading = FALSE /\ timers = 0 /\ navigations = 0
    /\ pixel = FALSE /\ tracked = FALSE /\ pixelEvents = << >>
    /\ isDescriptionExpanded = FALSE

Buy == <<isLoading, timers, navigations>>

\* What the image and description actions leave alone besides Buy.
Page == <<pixel, tracked, pixelEvents, isDescriptionExpanded>>

(* The layout's pixel script (layout.tsx lines 40-65), run after the page *)
(* is interactive: it defines window.fbq and tracks PageView.            *)
PixelLoad ==
    /\ ~pixel
    /\ pixel' = TRUE
    /\ pixelEvents' = Append(pixelEvents, "PageView")
    /\ UNCHANGED <<loaded, count, index, open, stable, tracked,
                   isDescriptionExpanded>> /\ UNCHANGED Buy

\* A variant of the effect that does not consult the ref.
TrackViewContentUnguarded ==
    IF pixel
    THEN tracked' = TRUE /\ pixelEvents' = Append(pixelEvents, "ViewContent")
    ELSE UNCHANGED <<tracked, pixelEvents>>

\* The ViewContent effect (lines 36-48), run after every render with a new
\* product: once per mount, and only if fbq is there at that moment.
TrackViewContent ==
    IF ~tracked /\ pixel
    THEN tracked' = TRUE /\ pixelEvents' = Append(pixelEvents, "ViewContent")
    ELSE UNCHANGED <<tracked, pixelEvents>>

\* The queries answer: the page leaves its loader (lines 79-101).
Load ==
    /\ ~loaded
    /\ loaded' = TRUE
    /\ TrackViewContent
    /\ UNCHANGED <<count, index, open, stable, pixel,
                   isDescriptionExpanded>> /\ UNCHANGED Buy

\* The product is edited: the query delivers new image lists.
ProductChanged(k, n) ==
    /\ loaded
    /\ n # count[k]
    /\ count' = [count EXCEPT ![k] = n]
    /\ stable' = [stable EXCEPT ![k] = FALSE]
    /\ TrackViewContent
    /\ UNCHANGED <<loaded, index, open, pixel, isDescriptionExpanded>>
    /\ UNCHANGED Buy

\* Clicking image i of a strip (lines 119-134 and 152-167): select it and
\* open its preview.  The real-images strip is rendered when the list is
\* not empty.
OpenPreview(k, i) ==
    /\ loaded
    /\ i \in 0..count[k] - 1
    /\ index' = [index EXCEPT ![k] = i]
    /\ open' = [open EXCEPT ![k] = TRUE]
    /\ stable' = [stable EXCEPT ![k] = TRUE]
    /\ UNCHANGED <<loaded, count>> /\ UNCHANGED <<Buy, Page>>

\* A variant of handlePrevious that wraps to images.length.
handlePreviousPastEnd(k) ==
    /\ open[k]
    /\ index' = [index EXCEPT ![k] = IF index[k] > 0 THEN index[k] - 1
                                                     ELSE count[k]]
    /\ UNCHANGED <<loaded, count, open, stable>> /\ UNCHANGED <<Buy, Page>>

\* handlePrevious (ImagePreview lines 29-32), via onImageSelect.
handlePrevious(k) ==
    /\ open[k]
    /\ index' = [index EXCEPT ![k] = IF index[k] > 0 THEN index[k] - 1
                                                     ELSE count[k] - 1]
    /\ UNCHANGED <<loaded, count, open, stable>> /\ UNCHANGED <<Buy, Page>>

\* handleNext (ImagePreview lines 34-37).
handleNext(k) ==
    /\ open[k]
    /\ index' = [index EXCEPT ![k] = IF index[k] < count[k] - 1
                                     THEN index[k] + 1 ELSE 0]
    /\ UNCHANGED <<loaded, count, open, stable>> /\ UNCHANGED <<Buy, Page>>

\* A thumbnail (ImagePreview lines 87-103).
SelectThumbnail(k, i) ==
    /\ open[k]
    /\ i \in 0..count[k] - 1
    /\ index' = [index EXCEPT ![k] = i]
    /\ UNCHANGED <<loaded, count, open, stable>> /\ UNCHANGED <<Buy, Page>>

\* The close button (ImagePreview lines 75-80, page lines 217 and 226).
ClosePreview(k) ==
    /\ open[k]
    /\ open' = [open EXCEPT ![k] = FALSE]
    /\ UNCHANGED <<loaded, count, index, stable>> /\ UNCHANGED <<Buy, Page>>

\* handleBuyClick up to its await (lines 50-69); disabled while isLoading.
\* It tracks InitiateCheckout if fbq is there, and warns otherwise.
handleBuyClick ==
    /\ loaded /\ ~isLoading
    /\ timers + navigations < MaxClicks
    /\ isLoading' = TRUE
    /\ timers' = timers + 1
    /\ pixelEvents' = IF pixel THEN Append(pixelEvents, "InitiateCheckout")
                                ELSE pixelEvents
    /\ UNCHANGED <<loaded, count, index, open, stable, navigations, pixel,
                   tracked, isDescriptionExpanded>>

\* A variant whose delay repeats, as setInterval would.
handleBuyClickResumeRepeating ==
    /\ timers > 0
    /\ navigations' = navigations + 1
    /\ isLoading' = FALSE
    /\ UNCHANGED <<loaded, count, index, open, stable, timers>>
    /\ UNCHANGED Page

\* After the 2 s delay (lines 69-75): start the navigation to the
\* checkout, then finally re-enable the button.
handleBuyClickResume ==
    /\ timers > 0
    /\ timers' = timers - 1
    /\ navigations' = navigations + 1
    /\ isLoading' = FALSE
    /\ UNCHANGED <<loaded, count, index, open, stable>> /\ UNCHANGED Page

\* "Read more" / "Show less" under the description (lines 186-191).
ToggleDescription ==
    /\ loaded
    /\ isDescriptionExpanded' = ~isDescriptionExpanded
    /\ UNCHANGED <<loaded, count, index, open, stable, pixel, tracked,
                   pixelEvents>> /\ UNCHANGED Buy

Next ==
    \/ PixelLoad
    \/ Load
    \/ \E k \in Kinds :
         \/ \E n \in 0..MaxImages : ProductChanged(k, n)
         \/ \E i \in 0..MaxImages - 1 : OpenPreview(k, i) \/ SelectThumbnail(k, i)
         \/ handlePrevious(k) \/ handleNext(k) \/ ClosePreview(k)
    \/ handleBuyClick
    \/ handleBuyClickResume
    \/ ToggleDescription

\* The properties checked of the page are invariants: no fairness.
Spec == Init /\ [][Next]_vars
-----------------------------------------------------------------------------
TypeOK ==
    /\ loaded \in BOOLEAN
    /\ count \in [Kinds -> 0..MaxImages]
    /\ index \in [Kinds -> -1..MaxImages]
    /\ open \in [Kinds -> BOOLEAN]
    /\ stable \in [Kinds -> BOOLEAN]
    /\ isLoading \in BOOLEAN
    /\ timers \in 0..MaxClicks /\ navigations \in 0..MaxClicks
    /\ pixel \in BOOLEAN /\ tracked \in BOOLEAN
    /\ pixelEvents \in Seq({"PageView", "ViewContent", "InitiateCheckout"})
    /\ isDescriptionExpanded \in BOOLEAN

(* While the product's images are those the preview was opened on, the   *)
(* preview's previous, next and thumbnail buttons keep its index on an   *)
(* existing image: images[selectedIndex] and "i / n" name a real image.   *)
PreviewShowsImage ==
    \A k \in Kinds :
      open[k] /\ stable[k] => index[k] \in 0..count[k] - 1

(* An open preview always shows an existing image, also after the product *)
(* was edited while it was open.                                         *)
PreviewIndexInRange ==
    \A k \in Kinds : open[k] => index[k] \in 0..count[k] - 1

\* The number of times event e was passed to fbq.
Sent(e) == Cardinality({i \in DOMAIN pixelEvents : pixelEvents[i] = e})

(* ViewContent is tracked at most once per visit of the product page,     *)
(* however often the reactive getProductById query delivers an edited    *)
(* product: the hasTrackedViewContent ref, not the effect's dependency   *)
(* list, keeps every later run of the effect from sending it again.      *)
ViewContentOnce == Sent("ViewContent") <= 1

=============================================================================
