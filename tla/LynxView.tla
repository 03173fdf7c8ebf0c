------------------------------- MODULE LynxView -------------------------------
(***************************************************************************)
(* The life of a <lynx-view> element of the web platform.  It renders its  *)
(* url when it is connected to a document, when the url changes and when it *)
(* is told to reload: it disposes of the page it shows, waits for an iframe *)
(* that becomes the realm of the main-thread script, asks for the bundle   *)
(* and creates a LynxViewInstance.  Each of these takes time, in which the *)
(* element may be disconnected, connected again or given another url.      *)
(*                                                                         *)
(* The code is packages/web-platform/web-core/ts/client/mainthread/        *)
(* LynxView.ts and createIFrameRealm.ts.                                   *)
(***************************************************************************)
EXTENDS Integers

CONSTANTS
  Urls, NoUrl, None

Instances == [templateUrl : Urls \cup {NoUrl}, fetched : Urls, attached : BOOLEAN]

ASSUME ViewConstants ==
  NoUrl \notin Urls /\ None \notin Instances

VARIABLES
  connected,       \* #connected
  url,             \* #url
  rendering,       \* #rendering
  instance,        \* #instance: its templateUrl, the url fetched, is its realm attached?
  disposePromise,  \* what #disposePromise waits for: an instance, a microtask, or "none"
  step,            \* what the render operation waits for
  fetched,         \* the url it passed to fetchBundle
  iframes,         \* number of iframes in the shadow root
  disturbed        \* history: since the last render operation began, while it went on, was the
                   \* element disconnected, its url removed, or changed when its bundle had
                   \* been asked for?

viewVars == <<connected, url, rendering, instance, disposePromise, step, fetched, iframes, disturbed>>
renderVars == <<rendering, step, fetched>>

ViewInit ==
  /\ connected = FALSE /\ url = NoUrl /\ rendering = FALSE /\ instance = None
  /\ disposePromise = "none" /\ step = "none" /\ fetched = NoUrl /\ iframes = 0
  /\ disturbed = FALSE

-----------------------------------------------------------------------------
(* What a call of #render or #disposeInstance does at once *)

\* innerHTML = '' takes the realm away, also from a render operation that goes on.
Cleared == iframes' = 0

BeginDispose ==
  IF disposePromise # "none" THEN UNCHANGED <<instance, disposePromise, iframes>>
  ELSE /\ instance' = None
       /\ IF instance # None
          THEN disposePromise' = "instance" /\ UNCHANGED iframes
          ELSE disposePromise' = "microtask" /\ Cleared

\* Starts to render unless it does already.
RendersOnce(isConnected, to) == ~rendering /\ isConnected /\ to # NoUrl /\ instance = None
RendersAgain(isConnected, to) == isConnected /\ to # NoUrl
MayRender(isConnected, to) == ~rendering /\ isConnected /\ to # NoUrl

NoInstance == instance = None
NothingToDispose == instance = None /\ disposePromise = "none"

render(isConnected, to) ==
  IF MayRender(isConnected, to)
  THEN /\ rendering' = TRUE
       /\ IF NothingToDispose
          THEN /\ step' = "realm" /\ iframes' = iframes + 1
               /\ UNCHANGED <<instance, disposePromise>>
          ELSE step' = "dispose" /\ BeginDispose
       /\ UNCHANGED fetched
  ELSE UNCHANGED <<renderVars, instance, disposePromise, iframes>>

-----------------------------------------------------------------------------
(* Calls of the application and of the browser *)

\* A render operation that begins has not been disturbed; one that goes on is, or not.
Disturbs(it) == disturbed' = IF rendering THEN disturbed \/ it ELSE disturbed /\ ~rendering'

SetUrl(to) ==
  /\ url # to /\ url' = to
  /\ UNCHANGED connected /\ render(connected, to)
  /\ Disturbs(step = "import" \/ to = NoUrl)

reload == render(connected, url) /\ UNCHANGED <<connected, url>> /\ Disturbs(FALSE)

connectedCallback ==
  /\ ~connected /\ connected' = TRUE
  /\ UNCHANGED url /\ render(TRUE, url) /\ Disturbs(FALSE)

disconnectedCallback ==
  /\ connected /\ connected' = FALSE
  /\ UNCHANGED <<url, renderVars>> /\ BeginDispose /\ Disturbs(TRUE)

-----------------------------------------------------------------------------
(* Continuations.  That of a dispose with nothing to wait for runs before any event. *)

NoMicrotask == disposePromise # "microtask"

\* asyncDispose has returned, or there was nothing to dispose of; a render operation that
\* waits for it goes on and creates the realm.
Disposed ==
  /\ disposePromise # "none" /\ disposePromise' = "none"
  /\ LET left == IF disposePromise = "instance" THEN 0 ELSE iframes
     IN  IF step = "dispose"
         THEN step' = "realm" /\ iframes' = left + 1
         ELSE iframes' = left /\ UNCHANGED step
  /\ UNCHANGED <<connected, url, rendering, instance, fetched, disturbed>>

\* The iframe has loaded, which it does in a document only.
RealmReady ==
  /\ step = "realm" /\ iframes > 0 /\ connected /\ NoMicrotask
  /\ IF url # NoUrl THEN step' = "import" /\ fetched' = url
     ELSE step' = "none" /\ UNCHANGED fetched
  /\ UNCHANGED <<connected, url, rendering, instance, disposePromise, iframes, disturbed>>

\* LynxViewInstance.js is there.
StillRendering == TRUE
AfterRender == FALSE

Imported ==
  /\ step = "import" /\ step' = "none" /\ NoMicrotask
  /\ instance' = [templateUrl |-> url, fetched |-> fetched, attached |-> iframes > 0]
  /\ rendering' = AfterRender
  /\ UNCHANGED <<connected, url, disposePromise, fetched, iframes, disturbed>>

-----------------------------------------------------------------------------
ViewNext ==
  \/ \E to \in Urls \cup {NoUrl} : SetUrl(to)
  \/ reload \/ connectedCallback \/ disconnectedCallback
  \/ Disposed \/ RealmReady \/ Imported

ViewSpec == ViewInit /\ [][ViewNext]_viewVars

\* Pages are disposed of, iframes in a document load, and the chunk is downloaded.
ViewFairness == WF_viewVars(Disposed) /\ WF_viewVars(RealmReady) /\ WF_viewVars(Imported)

FairViewSpec == ViewSpec /\ ViewFairness

-----------------------------------------------------------------------------
(* Properties *)

\* One realm at most is in the element.
ViewTypeOK ==
  /\ connected \in BOOLEAN /\ rendering \in BOOLEAN
  /\ url \in Urls \cup {NoUrl} /\ fetched \in Urls \cup {NoUrl}
  /\ instance \in Instances \cup {None}
  /\ disposePromise \in {"none", "instance", "microtask"}
  /\ step \in {"none", "dispose", "realm", "import"}
  /\ iframes \in 0..1
  /\ disturbed \in BOOLEAN

\* A new page is begun only when the former has been cleaned up, in both threads.
FreshStart ==
  step \in {"realm", "import"} => instance = None /\ disposePromise # "instance"

\* When a render operation ends that was not disturbed, and until the next one begins, the
\* element shows the bundle of its url, with an instance that looks for the sections of that
\* bundle and has a realm to run its script in, whatever was given to the element before the
\* bundle was asked for.
ShowsItsUrl ==
  connected /\ ~rendering /\ ~disturbed /\ instance # None /\ url # NoUrl =>
    instance.templateUrl = url /\ instance.fetched = url /\ instance.attached

\* An element that stays in the document with a url, and is not disturbed, comes to show it.
EventuallyShown ==
  <>[](connected /\ url # NoUrl /\ ~disturbed) =>
    []<>(instance # None /\ instance.templateUrl = url)
=============================================================================
