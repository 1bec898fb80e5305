------------------------------ MODULE PdfRenderer ------------------------------
(***************************************************************************)
(* PlaywrightPdfRenderer: the minutes of a meeting are printed by a         *)
(* Chromium process that all requests of a backend share.                   *)
(*                                                                         *)
(* A request waits for a slot; with a slot it launches the browser or       *)
(* waits for the launch under way, opens a page and prints.  An error that  *)
(* says the browser is gone is retried once, after resetBrowser; a watchdog *)
(* ends an attempt that takes too long and frees its slot, while the page   *)
(* goes on.  Browsers crash; "disconnected" is delivered before or after    *)
(* the pages notice.                                                        *)
(***************************************************************************)
EXTENDS Naturals, Sequences, FiniteSets

CONSTANTS
    Renders,        \* the requests, numbered as they come
    Configured,     \* PLAYWRIGHT_PDF_MAX_CONCURRENT_RENDERS, 0 when it is not set
    Parallelism,    \* os.availableParallelism()
    MemorySlots,    \* how often PDF_RENDER_MEMORY_BUDGET_BYTES fits in the memory
    MaxBrowsers     \* bound on the browsers at any one time

\* Each of the two attempts of a request launches at most one browser: the bound is never met.
ASSUME PdfAssumption == Renders \subseteq Nat /\ MaxBrowsers >= 2 * Cardinality(Renders)

AtLeastOne(n) == IF n < 1 THEN 1 ELSE n

\* At most MAX_DYNAMIC_PDF_CONCURRENCY unless the environment says otherwise, but at least one.
computeDynamicPdfConcurrency ==
    CHOOSE n \in {AtLeastOne(AtLeastOne(Parallelism) \div 2), AtLeastOne(MemorySlots), 4} :
        n <= AtLeastOne(AtLeastOne(Parallelism) \div 2) /\ n <= AtLeastOne(MemorySlots) /\ n <= 4

Slots == IF Configured > 0 THEN Configured ELSE computeDynamicPdfConcurrency

Browsers == 1..MaxBrowsers

VARIABLES
    renders,            \* renders[r]: where the request r is
    activeRenderCount,
    renderQueue,
    browserPromise,     \* the browser launched last, 0 for null
    browserInstance,    \* the browser that came up last, 0 for null
    browsers            \* browsers[b]: "launching", "up", "dead" (not yet reported) or "gone"

pdfVars == <<renders, activeRenderCount, renderQueue, browserPromise, browserInstance, browsers>>

NoRender == [at |-> "idle", attempt |-> 0, on |-> 0]
Answered == [NoRender EXCEPT !.at = "answered"]

PdfInit ==
    /\ renders = [r \in Renders |-> NoRender]
    /\ activeRenderCount = 0 /\ renderQueue = <<>>
    /\ browserPromise = 0 /\ browserInstance = 0
    /\ browsers = [b \in Browsers |-> "gone"]

-----------------------------------------------------------------------------
(***************************************************************************)
(* Slots                                                                    *)
(***************************************************************************)
acquireRenderSlot(r) ==
    /\ renders[r].at = "idle" /\ \A q \in Renders : q < r => renders[q].at # "idle"
    /\ IF activeRenderCount < Slots
         THEN /\ activeRenderCount' = activeRenderCount + 1 /\ UNCHANGED renderQueue
              /\ renders' = [renders EXCEPT ![r] = [at |-> "start", attempt |-> 1, on |-> 0]]
         ELSE /\ renderQueue' = Append(renderQueue, r) /\ UNCHANGED activeRenderCount
              /\ renders' = [renders EXCEPT ![r].at = "queued"]
    /\ UNCHANGED <<browserPromise, browserInstance, browsers>>

WaitingRenders == renderQueue # <<>>

\* releaseRenderSlot after the answer of r: the first in the queue takes the slot at once.
releaseRenderSlot(r, answer) ==
    IF WaitingRenders
      THEN /\ renders' = [renders EXCEPT ![r] = answer,
                                         ![Head(renderQueue)] = [at |-> "start", attempt |-> 1, on |-> 0]]
           /\ renderQueue' = Tail(renderQueue) /\ UNCHANGED activeRenderCount
      ELSE /\ renders' = [renders EXCEPT ![r] = answer]
           /\ activeRenderCount' = activeRenderCount - 1 /\ UNCHANGED renderQueue

-----------------------------------------------------------------------------
(***************************************************************************)
(* The shared browser                                                       *)
(***************************************************************************)

\* Something still refers to browser b; the number of any other that is gone is used again.
InUse(b) == b \in {browserPromise, browserInstance} \/ \E r \in Renders : renders[r].on = b
Unused == {b \in Browsers : browsers[b] = "gone" /\ ~InUse(b)}

\* getBrowser: the launch under way, or a new one.
getBrowser(r) ==
    /\ renders[r].at = "start"
    /\ IF browserPromise # 0
         THEN /\ renders' = [renders EXCEPT ![r].at = "browser", ![r].on = browserPromise]
              /\ UNCHANGED <<browserPromise, browsers>>
         ELSE \E b \in Unused :
                /\ \A c \in Unused : b <= c
                /\ browsers' = [browsers EXCEPT ![b] = "launching"] /\ browserPromise' = b
                /\ renders' = [renders EXCEPT ![r].at = "browser", ![r].on = b]
    /\ UNCHANGED <<activeRenderCount, renderQueue, browserInstance>>

LaunchResolves(b) ==
    /\ browsers[b] = "launching"
    /\ browsers' = [browsers EXCEPT ![b] = "up"] /\ browserInstance' = b
    /\ UNCHANGED <<renders, activeRenderCount, renderQueue, browserPromise>>

\* Whichever browser is the instance is forgotten.
LaunchFails(b) ==
    /\ browsers[b] = "launching"
    /\ browsers' = [browsers EXCEPT ![b] = "gone"] /\ browserInstance' = 0
    /\ browserPromise' = IF browserPromise = b THEN 0 ELSE browserPromise
    /\ UNCHANGED <<renders, activeRenderCount, renderQueue>>

\* (The end of a browser that nothing refers to changes nothing else.)
Crash(b) ==
    /\ browsers[b] = "up" /\ InUse(b)
    /\ browsers' = [browsers EXCEPT ![b] = "dead"]
    /\ UNCHANGED <<renders, activeRenderCount, renderQueue, browserPromise, browserInstance>>

Forget(b, promise) == IF promise = b THEN 0 ELSE promise

\* The handler of "disconnected".
Disconnected(b) ==
    /\ browsers[b] = "dead"
    /\ browsers' = [browsers EXCEPT ![b] = "gone"]
    /\ browserInstance' = IF browserInstance = b THEN 0 ELSE browserInstance
    /\ browserPromise' = Forget(b, browserPromise)
    /\ UNCHANGED <<renders, activeRenderCount, renderQueue>>

-----------------------------------------------------------------------------
(***************************************************************************)
(* An attempt                                                               *)
(***************************************************************************)
OpenPage(r) ==
    /\ renders[r].at = "browser" /\ browsers[renders[r].on] = "up"
    /\ renders' = [renders EXCEPT ![r].at = "page"]
    /\ UNCHANGED <<activeRenderCount, renderQueue, browserPromise, browserInstance, browsers>>

\* The page is printed, or fails with an error of its own, which is not retried.
AnswerRender(r) ==
    /\ renders[r].at = "page" /\ browsers[renders[r].on] = "up"
    /\ releaseRenderSlot(r, Answered)
    /\ UNCHANGED <<browserPromise, browserInstance, browsers>>

BrowserLost(r) == renders[r].at \in {"browser", "page"} /\ browsers[renders[r].on] \in {"dead", "gone"}

\* isRetryableBrowserError on the first attempt: resetBrowser forgets the browser it will close.
resetBrowser(r) ==
    /\ BrowserLost(r) /\ renders[r].attempt = 1
    /\ renders' = [renders EXCEPT ![r].at = "reset",
                                  ![r].on = IF browserInstance # 0 THEN browserInstance ELSE browserPromise]
    /\ browserInstance' = 0 /\ browserPromise' = 0
    /\ UNCHANGED <<activeRenderCount, renderQueue, browsers>>

\* browser.close(), once the launch that is reset has ended; then the second attempt.
CloseForgotten(r) ==
    /\ renders[r].at = "reset"
    /\ \/ renders[r].on = 0 /\ UNCHANGED browsers
       \/ renders[r].on # 0 /\ browsers[renders[r].on] # "launching"
          /\ browsers' = [browsers EXCEPT ![renders[r].on] = IF @ = "up" THEN "dead" ELSE @]
    /\ renders' = [renders EXCEPT ![r] = [at |-> "start", attempt |-> 2, on |-> 0]]
    /\ UNCHANGED <<activeRenderCount, renderQueue, browserPromise, browserInstance>>

\* A mutant of LastError: the slot of a request that is given up stays taken.
KeepSlot(r) == renders' = [renders EXCEPT ![r] = Answered] /\ UNCHANGED <<activeRenderCount, renderQueue>>

LastError(r) == releaseRenderSlot(r, Answered)

\* The second attempt failed, or the error is not one that is retried (a launch fails with any error).
GiveUpRender(r) ==
    /\ BrowserLost(r)
    /\ renders[r].attempt = 2 \/ (renders[r].at = "browser" /\ browsers[renders[r].on] = "gone")
    /\ LastError(r)
    /\ UNCHANGED <<browserPromise, browserInstance, browsers>>

\* renderWithWatchdog: the attempt is given up and its slot is free.  Its page goes on; nothing waits
\* for it, and it changes nothing that others see.
Watchdog(r) ==
    /\ renders[r].at \in {"browser", "page"}
    /\ releaseRenderSlot(r, Answered)
    /\ UNCHANGED <<browserPromise, browserInstance, browsers>>

PdfNext ==
    \/ \E r \in Renders :
         \/ acquireRenderSlot(r) \/ getBrowser(r) \/ OpenPage(r) \/ AnswerRender(r) \/ resetBrowser(r)
         \/ CloseForgotten(r) \/ GiveUpRender(r) \/ Watchdog(r)
    \/ \E b \in Browsers : LaunchResolves(b) \/ LaunchFails(b) \/ Crash(b) \/ Disconnected(b)

PdfSpec == PdfInit /\ [][PdfNext]_pdfVars

\* A request goes on, and its attempts end: by the answer, by the error or by the watchdog.  A launch
\* ends, since launch() has a timeout of its own, and a dead process is noticed.  No request or browser
\* takes one of these steps more than twice: to owe them together is to owe each of them.
RenderGoesOn(r) == getBrowser(r) \/ CloseForgotten(r) \/ Watchdog(r)
BrowserGoesOn(b) == LaunchResolves(b) \/ LaunchFails(b) \/ Disconnected(b)

PdfFairness ==
    /\ WF_pdfVars(\E r \in Renders : RenderGoesOn(r))
    /\ WF_pdfVars(\E b \in Browsers : BrowserGoesOn(b))

FairPdfSpec == PdfSpec /\ PdfFairness

-----------------------------------------------------------------------------
\* Every request for a document is answered, however browsers crash, launches fail, pages hang and
\* the reset of one render closes the browser under the others, or forgets the one just launched for
\* them, while two hold slots and a third waits for one (withRenderSlot, renderWithWatchdog).
EveryRenderEnds ==
    \A r \in Renders : renders[r].at # "idle" ~> renders[r].at = "answered"
=============================================================================
