---------------------------- MODULE NetTaskProofs ----------------------------
(***************************************************************************)
(* The two stacks for any number of windows, inputs, redirects and yields: *)
(* every switch but that of a terminal command resumes a suspended stack,  *)
(* and the flags of task.rs agree with each other.                         *)
(***************************************************************************)
EXTENDS NetTask, RetainProofs

\* While net runs, main waits inside start_fetch or tick_network at the place
\* MAIN_RSP points to, and the fetch is under way.
NetHasCore ==
    cpu = "net" =>
        /\ MAIN_RSP = Suspended("main")
        /\ main \in {"start", "tick"}
        /\ NET_RUNNING
        /\ ~NET_DONE
        /\ fetch.phase \notin {"none", "halted"}

\* While main runs, a fetch under way is suspended where NET_RSP points to.
MainHasCore ==
    cpu = "main" =>
        /\ NET_RUNNING => NET_RSP = Suspended("net")
        /\ ~NET_RUNNING => main = "loop"

\* The URL has been taken as soon as net is past its entry, which it is when
\* it first gives up the core.
UrlTaken ==
    /\ fetch.phase # "entry" => PENDING_URL = NoUrl
    /\ cpu = "main" => fetch.phase # "entry"

\* MAIN_RSP never points into the net stack.
MainSaved == MAIN_RSP.stack \in {"none", "main"}

\* The record of the fetch has the field that the steps switch on.
FetchHasPhase == "phase" \in DOMAIN fetch

\* The inductive invariant.
IInv ==
    /\ cpu \in {"main", "net", "lost"}
    /\ main \in {"loop", "start", "tick"}
    /\ NET_RUNNING \in BOOLEAN /\ NET_DONE \in BOOLEAN
    /\ NetHasCore
    /\ MainHasCore
    /\ UrlTaken
    /\ MainSaved
    /\ FetchHasPhase
    /\ ResultHeld

\* No fetch runs, no context is saved and main has the core at start-up.
LEMMA InitEstablishes == Init => IInv
  <1>1. SUFFICES ASSUME Init PROVE IInv
    OBVIOUS
  <1>2. /\ fetch.phase = "none" /\ "phase" \in DOMAIN fetch
        /\ MAIN_RSP.stack = "none"
    BY <1>1 DEF Init, NoFetch, NoContext
  <1>3. QED
    BY <1>1, <1>2, Zenon
    DEF Init, IInv, NetHasCore, MainHasCore, UrlTaken, MainSaved, FetchHasPhase, ResultHeld

\* A wait loop or a finished fetch gives the core back to main where main
\* left it, and its own context is the one that NET_RSP now points to.
LEMMA SwitchToMainResumes ==
  ASSUME IInv, cpu = "net", SwitchToMain
  PROVE  /\ cpu' = "main"
         /\ main' = main
         /\ main \in {"start", "tick"}
         /\ MAIN_RSP' = MAIN_RSP
         /\ NET_RSP' = Suspended("net")'
  BY DEF IInv, NetHasCore, SwitchToMain, Saved, Suspended, Resumed, Other, Context

\* The end of a fetch, with any result that is one.
LEMMA FinishPreserves ==
  ASSUME IInv, cpu = "net", fetch.phase # "entry",
         NEW r, r # NoResult, Finish(r)
  PROVE  IInv'
  <1>1. /\ cpu' = "main" /\ main' = main /\ main \in {"start", "tick"}
        /\ MAIN_RSP' = MAIN_RSP /\ NET_RSP' = Suspended("net")'
    BY SwitchToMainResumes DEF Finish
  <1>2. /\ fetch'.phase = "halted" /\ "phase" \in DOMAIN fetch'
        /\ FETCH_RESULT' = r /\ NET_DONE' = TRUE
        /\ NET_RUNNING' = NET_RUNNING /\ PENDING_URL' = PENDING_URL
    BY DEF Finish, NoFetch
  <1>3. NET_RUNNING
    BY DEF IInv, NetHasCore
  <1>4. NoResult' = NoResult
    BY DEF NoResult, Doc, Closed, Socket
  <1>5. QED
    BY <1>1, <1>2, <1>3, <1>4
    DEF IInv, NetHasCore, MainHasCore, UrlTaken, MainSaved, FetchHasPhase, ResultHeld

\* A failed fetch has a result: an error.
LEMMA FailPreserves ==
  ASSUME IInv, cpu = "net", fetch.phase # "entry", Fail
  PROVE  IInv'
  <1>1. Doc("error", fetch.url, Closed) # NoResult
    BY DEF Doc, NoResult
  <1>2. QED
    BY <1>1, FinishPreserves DEF Fail

\* A step of net that keeps the core and moves to a phase of the fetch.
LEMMA PhasePreserves ==
  ASSUME IInv, cpu = "net", UNCHANGED ctx,
         UNCHANGED <<NET_RUNNING, NET_DONE, FETCH_RESULT>>, PENDING_URL' = NoUrl,
         "phase" \in DOMAIN fetch',
         fetch'.phase \notin {"none", "entry", "halted"}
  PROVE  IInv'
  <1>1. NoResult' = NoResult
    BY DEF NoResult, Doc, Closed, Socket
  <1>2. Suspended("main")' = Suspended("main")
    BY DEF Suspended, ctx, Context, NoFetch
  <1>3. QED
    BY <1>1, <1>2
    DEF IInv, NetHasCore, MainHasCore, UrlTaken, MainSaved, FetchHasPhase, ResultHeld, ctx

\* The same for the phases entered with Enter.
LEMMA EnterPreserves ==
  ASSUME IInv, cpu = "net", fetch.phase # "entry", UNCHANGED <<ctx, task>>,
         NEW p, p \notin {"none", "entry", "halted"}, Enter(p)
  PROVE  IInv'
  <1>1. "phase" \in DOMAIN fetch' /\ fetch'.phase = p
    BY DEF Enter, IInv, FetchHasPhase
  <1>2. PENDING_URL' = NoUrl
    BY DEF IInv, UrlTaken, task
  <1>3. QED
    BY <1>1, <1>2, PhasePreserves DEF task

\* Every step of the fetch keeps the invariant.
LEMMA NetStepPreserves ==
  ASSUME IInv, NetStep
  PROVE  IInv'
  <1>1. CASE NetTaskMain
    <2>1. "phase" \in DOMAIN fetch' /\ fetch'.phase = "dns"
      BY <1>1 DEF NetTaskMain
    <2>2. QED
      BY <1>1, <2>1, PhasePreserves DEF NetTaskMain, InPhase
  <1>2. CASE YieldToMain
    <2>1. /\ cpu' = "main" /\ main' = main /\ main \in {"start", "tick"}
          /\ MAIN_RSP' = MAIN_RSP /\ NET_RSP' = Suspended("net")'
      BY <1>2, SwitchToMainResumes DEF YieldToMain
    <2>2. "phase" \in DOMAIN fetch' /\ fetch'.phase = fetch.phase
      BY <1>2 DEF YieldToMain, IInv, FetchHasPhase
    <2>3. NoResult' = NoResult
      BY DEF NoResult, Doc, Closed, Socket
    <2>4. QED
      BY <1>2, <2>1, <2>2, <2>3
      DEF YieldToMain, task, IInv, NetHasCore, MainHasCore, UrlTaken, MainSaved, FetchHasPhase,
          ResultHeld
  <1>3. CASE Resolve
    BY <1>3, EnterPreserves, FailPreserves DEF Resolve, InPhase
  <1>4. CASE Connect
    BY <1>4, EnterPreserves, FailPreserves DEF Connect, InPhase
  <1>5. CASE Handshake
    BY <1>5, EnterPreserves, FailPreserves DEF Handshake, InPhase
  <1>6. CASE Send
    BY <1>6, EnterPreserves, FailPreserves DEF Send, InPhase
  <1>7. CASE ReadNothing
    BY <1>7, FailPreserves DEF ReadNothing, InPhase
  <1>8. ASSUME NEW u \in Urls, Redirect(u) PROVE IInv'
    <2>1. CASE fetch.tries > 1
      <3>1. "phase" \in DOMAIN fetch' /\ fetch'.phase = "dns"
        BY <1>8, <2>1, Zenon DEF Redirect, IInv, FetchHasPhase
      <3>2. PENDING_URL' = NoUrl
        BY <1>8, <2>1 DEF Redirect, InPhase, IInv, UrlTaken, task
      <3>3. QED
        BY <1>8, <2>1, <3>1, <3>2, PhasePreserves DEF Redirect, InPhase, task
    <2>2. CASE ~(fetch.tries > 1)
      BY <1>8, <2>2, FailPreserves DEF Redirect, InPhase
    <2>3. QED
      BY <2>1, <2>2
  <1>9. CASE RedirectNowhere
    BY <1>9, FailPreserves DEF RedirectNowhere, InPhase
  <1>10. CASE ReadPage
    <2>1. Doc("page", fetch.url, sock) # NoResult
      BY DEF Doc, NoResult
    <2>2. QED
      BY <1>10, <2>1, FinishPreserves DEF ReadPage, InPhase
  <1>11. QED
    BY <1>1, <1>2, <1>3, <1>4, <1>5, <1>6, <1>7, <1>8, <1>9, <1>10 DEF NetStep

\* Every step of the desktop loop keeps the invariant.
LEMMA MainStepPreserves ==
  ASSUME IInv, MainStep
  PROVE  IInv'
  <1>1. NoResult' = NoResult
    BY DEF NoResult, Doc, Closed, Socket
  <1>2. CASE TickNetwork
    <2>1. NET_RSP = Suspended("net")
      BY <1>2 DEF TickNetwork, AtLoop, IInv, MainHasCore
    <2>2. cpu' = "net"
      BY <1>2, <2>1 DEF TickNetwork, AtLoop, SwitchToNet, Resumed, Other
    <2>3. MAIN_RSP' = Suspended("main")' /\ MAIN_RSP'.stack = "main"
      BY <1>2 DEF TickNetwork, AtLoop, SwitchToNet, Saved, Suspended, Context, NoFetch
    <2>4. fetch.phase \notin {"none", "halted"}
      BY <1>2 DEF TickNetwork, IInv, ResultHeld
    <2>5. QED
      BY <1>1, <1>2, <2>2, <2>3, <2>4
      DEF TickNetwork, AtLoop, task, IInv, NetHasCore, MainHasCore, UrlTaken, MainSaved, FetchHasPhase,
          ResultHeld
  <1>3. CASE TickReturns
    BY <1>1, <1>3
    DEF TickReturns, task, IInv, NetHasCore, MainHasCore, UrlTaken, MainSaved, FetchHasPhase,
        ResultHeld, Suspended, Context
  <1>4. CASE Deliver
    BY <1>1, <1>4, Zenon
    DEF Deliver, TakeResult, IInv, NetHasCore, MainHasCore, UrlTaken, MainSaved, FetchHasPhase,
        ResultHeld
  <1>5. CASE StartFetch
    <2>1. "phase" \in DOMAIN fetch' /\ fetch'.phase = "entry"
      BY <1>5 DEF StartFetch, NoFetch
    <2>2. /\ MAIN_RSP' = Suspended("main")' /\ MAIN_RSP'.stack = "main"
          /\ cpu' = "net" /\ main' = "start"
      BY <1>5 DEF StartFetch, AtLoop, StartNet, Saved, Suspended, Context, NoFetch
    <2>3. FETCH_RESULT' = NoResult /\ NET_RUNNING' /\ ~NET_DONE'
      BY <1>5 DEF StartFetch, IInv, ResultHeld
    <2>4. NET_RUNNING' \in BOOLEAN /\ NET_DONE' \in BOOLEAN
      BY <1>5, Zenon DEF StartFetch
    <2>5. QED
      BY <1>1, <2>1, <2>2, <2>3, <2>4
      DEF IInv, NetHasCore, MainHasCore, UrlTaken, MainSaved, FetchHasPhase, ResultHeld
  <1>6. CASE StartReturns
    BY <1>1, <1>6
    DEF StartReturns, task, IInv, NetHasCore, MainHasCore, UrlTaken, MainSaved, FetchHasPhase,
        ResultHeld, Suspended, Context
  <1>7. QED
    BY <1>2, <1>3, <1>4, <1>5, <1>6 DEF MainStep

\* What changes neither the stacks nor the task keeps the invariant.
LEMMA QuietPreserves ==
  ASSUME IInv, UNCHANGED <<ctx, task, fetch>>
  PROVE  IInv'
  <1>1. NoResult' = NoResult
    BY DEF NoResult, Doc, Closed, Socket
  <1>2. QED
    BY <1>1
    DEF ctx, task, IInv, NetHasCore, MainHasCore, UrlTaken, MainSaved, FetchHasPhase, ResultHeld,
        Suspended, Context, NoFetch

\* A terminal command that waits while a fetch is under way resumes the frames
\* that start_fetch or tick_network left long ago; the flags stay as they are.
LEMMA TerminalPreserves ==
  ASSUME IInv, NEW u \in Urls, TerminalCommand(u)
  PROVE  /\ IInv'
         /\ cpu' = "lost" => NET_RUNNING
  <1>1. CASE UNCHANGED ctx
    <2>1. IInv'
      BY <1>1, QuietPreserves DEF TerminalCommand
    <2>2. cpu' = "main"
      BY <1>1 DEF TerminalCommand, AtLoop, ctx
    <2>3. QED
      BY <2>1, <2>2
  <1>2. CASE NET_RUNNING /\ SwitchToMain
    <2>1. MAIN_RSP # Suspended("net")
      BY DEF IInv, MainSaved, Suspended, Context
    <2>2. cpu' = "lost" /\ UNCHANGED <<main, MAIN_RSP, task, fetch>>
      BY <1>2, <2>1 DEF SwitchToMain, TerminalCommand, AtLoop, Resumed, Other
    <2>3. NoResult' = NoResult
      BY DEF NoResult, Doc, Closed, Socket
    <2>4. QED
      BY <1>2, <2>2, <2>3
      DEF task, IInv, NetHasCore, MainHasCore, UrlTaken, MainSaved, FetchHasPhase, ResultHeld
  <1>3. QED
    BY <1>1, <1>2 DEF TerminalCommand

\* The user's other inputs leave stacks and task alone.
LEMMA UserStepPreserves ==
  ASSUME IInv, UserStep
  PROVE  IInv'
  <1>1. CASE OpenBrowser
    BY <1>1, QuietPreserves DEF OpenBrowser
  <1>2. ASSUME NEW u \in Urls, TerminalCommand(u) PROVE IInv'
    BY <1>2, TerminalPreserves
  <1>3. ASSUME Input PROVE IInv'
    BY <1>3, QuietPreserves DEF Input
  <1>4. QED
    BY <1>1, <1>2, <1>3, Zenon
    DEF UserStep, CloseWindow, ClickBack, ClickBar, ClickLink, Key, KeyEnter, KeyEdit,
        KeyEscape, KeyU, KeyBack

\* The invariant holds in every reachable state.
THEOREM StacksInvariant ==
  Spec => []IInv
  <1>1. IInv /\ [Next]_vars => IInv'
    <2>1. SUFFICES ASSUME IInv, [Next]_vars PROVE IInv'
      OBVIOUS
    <2>2. CASE Next
      BY <2>1, <2>2, NetStepPreserves, MainStepPreserves, UserStepPreserves, Zenon DEF Next
    <2>3. CASE UNCHANGED vars
      BY <2>1, <2>3, QuietPreserves DEF vars
    <2>4. QED
      BY <2>1, <2>2, <2>3
  <1>2. QED
    BY <1>1, InitEstablishes, PTL DEF Spec

\* Of all the switches between the two stacks of task.rs, only that of a
\* terminal command waiting beside a running fetch loads a stale stack pointer.
THEOREM ContextsCorrect ==
  Spec => []ContextsLive
  <1>1. IInv /\ [Next]_vars =>
          [cpu' = "lost" => NET_RUNNING /\ \E u \in Urls : TerminalCommand(u)]_vars
    <2>1. SUFFICES ASSUME IInv, Next, cpu' = "lost"
                   PROVE  NET_RUNNING /\ \E u \in Urls : TerminalCommand(u)
      BY Zenon
    <2>2. ASSUME NetStep PROVE FALSE
      <3>1. cpu = "net"
        BY <2>2
        DEF NetStep, NetTaskMain, YieldToMain, Resolve, Connect, Handshake, Send, ReadNothing,
            Redirect, RedirectNowhere, ReadPage, InPhase
      <3>2. UNCHANGED ctx \/ SwitchToMain
        BY <2>2, Zenon
        DEF NetStep, NetTaskMain, YieldToMain, Resolve, Connect, Handshake, Send, ReadNothing,
            Redirect, RedirectNowhere, ReadPage, Fail, Finish
      <3>3. QED
        BY <2>1, <3>1, <3>2, SwitchToMainResumes DEF ctx
    <2>3. ASSUME MainStep PROVE FALSE
      <3>1. cpu = "main" /\ (cpu' = cpu \/ TickNetwork \/ StartFetch)
        BY <2>3 DEF MainStep, TickNetwork, TickReturns, Deliver, StartFetch, StartReturns, AtLoop
      <3>2. CASE TickNetwork
        <4>1. NET_RSP = Suspended("net")
          BY <2>1, <3>2 DEF TickNetwork, AtLoop, IInv, MainHasCore
        <4>2. cpu' = "net"
          BY <3>1, <3>2, <4>1 DEF TickNetwork, SwitchToNet, Resumed, Other
        <4>3. QED
          BY <2>1, <4>2
      <3>3. CASE StartFetch
        BY <2>1, <3>3 DEF StartFetch, StartNet
      <3>4. QED
        BY <2>1, <3>1, <3>2, <3>3
    <2>4. ASSUME OpenBrowser \/ Input PROVE FALSE
      BY <2>1, <2>4 DEF OpenBrowser, Input, AtLoop, ctx
    <2>5. UserStep
      BY <2>1, <2>2, <2>3 DEF Next
    <2>6. \E u \in Urls : TerminalCommand(u)
      BY <2>4, <2>5, Zenon
      DEF UserStep, CloseWindow, ClickBack, ClickBar, ClickLink, Key, KeyEnter, KeyEdit,
          KeyEscape, KeyU, KeyBack
    <2>7. QED
      BY <2>1, <2>6, TerminalPreserves
  <1>2. QED
    BY <1>1, StacksInvariant, PTL DEF Spec, ContextsLive

\* NET_RUNNING, NET_DONE, PENDING_URL and FETCH_RESULT always agree with each
\* other and with the net stack.
THEOREM FlagsCorrect ==
  Spec => []ResultHeld
  <1>1. IInv => ResultHeld
    BY DEF IInv
  <1>2. QED
    BY <1>1, StacksInvariant, PTL

-----------------------------------------------------------------------------
(* The windows and what they asked for                                     *)

Given == Address \ {NoUrl}
BrowserType ==
    [url_input : Address, url_focused : BOOLEAN, current_url : Address, pending_url : Address,
     history : Seq(Given), doc : DocType]
Phases == {"none", "entry", "dns", "connect", "handshake", "send", "read", "halted"}
FetchType ==
    [phase : Phases, url : Address, current : Address, tries : 0..MAX_FETCHES, left : 0..MAX_YIELDS]

\* The types of the desktop's side, ...
WindowTypes ==
    /\ browsers \in Seq(BrowserType)
    /\ asked \in Seq(Seq(Given)) /\ Len(asked) = Len(browsers)
    /\ order \in Seq(Nat) /\ Distinct(order)
    /\ \A w : Has(order, w) => w \in 1..Len(browsers)
    /\ focused = 0 \/ Has(order, focused)
    /\ inputs \in 0..MAX_INPUTS

\* ... and of the download's.
TaskTypes ==
    /\ NET_WIN_ID \in Nat /\ PENDING_URL \in Address /\ FETCH_RESULT \in DocType
    /\ fetch \in FetchType /\ sock \in SocketType
    /\ MAIN_RSP.stack \in {"none", "main"} /\ NET_RSP.stack \in {"none", "main", "net"}

\* What waits in a window is its latest request, what it shows one of its own.
Requests ==
    \A w \in 1..Len(browsers) :
        /\ browsers[w].pending_url # NoUrl =>
             asked[w] # <<>> /\ browsers[w].pending_url = LastAsked(w)
        /\ browsers[w].doc.asked # NoUrl => Has(asked[w], browsers[w].doc.asked)

\* The URL of the fetch under way, wherever it is.
JobUrl ==
    IF NET_DONE THEN FETCH_RESULT.asked
    ELSE IF fetch.phase = "entry" THEN PENDING_URL ELSE fetch.url

\* The fetch is for a request of the window it will be delivered to, for the
\* latest one unless a later one waits.
Job ==
    /\ NET_RUNNING =>
         /\ NET_WIN_ID \in 1..Len(browsers)
         /\ Has(asked[NET_WIN_ID], JobUrl)
         /\ browsers[NET_WIN_ID].pending_url = NoUrl => JobUrl = LastAsked(NET_WIN_ID)
    /\ NET_DONE => FETCH_RESULT.kind \in {"page", "error"}

\* An open window with nothing under way shows the answer to its latest request.
Answered ==
    \A w : Has(order, w) =>
        \/ browsers[w].pending_url # NoUrl
        \/ NET_RUNNING /\ NET_WIN_ID = w
        \/ asked[w] = <<>>
        \/ /\ browsers[w].doc.kind \in {"page", "error"}
           /\ browsers[w].doc.asked = LastAsked(w)

\* The socket is connected to u, unless a terminal command changed it.
Ours(s, u) == s.peer = u \/ s.by = "main"

\* From tcp_connect on the socket belongs to the fetch.
Peer ==
    /\ fetch.phase \in {"connect", "handshake", "send", "read"} => Ours(sock, fetch.current)
    /\ PageFromServer

WInv == WindowTypes /\ TaskTypes /\ Requests /\ Job /\ Answered /\ Peer

\* A socket that was connected or closed.
LEMMA SocketFields ==
  /\ Closed \in SocketType
  /\ \A u \in Address, by \in {"net", "main"} :
        Socket(u, by) \in SocketType /\ Ours(Socket(u, by), u) /\ Socket(u, by).by = by
  BY UrlAssumption DEF Closed, Socket, SocketType, Ours, Address

\* No window is open at start-up and nothing was asked for.
LEMMA WindowsInit == Init => WInv
  <1>1. SUFFICES ASSUME Init PROVE WInv
    OBVIOUS
  <1>2. NoUrl \in Address
    BY UrlAssumption DEF Address
  <1>3. WindowTypes
    BY <1>1, BoundAssumption DEF Init, WindowTypes, Distinct, Has
  <1>4. TaskTypes
    BY <1>1, <1>2, BoundAssumption, SocketFields
    DEF Init, TaskTypes, NoContext, NoResult, Doc, DocType, NoFetch, FetchType, Phases
  <1>5. Requests /\ Answered
    BY <1>1 DEF Init, Requests, Answered, Has
  <1>6. Job /\ Peer
    BY <1>1 DEF Init, Job, Peer, PageFromServer, NoFetch, NoResult, Doc
  <1>7. QED
    BY <1>3, <1>4, <1>5, <1>6 DEF WInv

\* A step that leaves the windows and the owner of the fetch alone, and the URL
\* it is about.
LEMMA FetchKeeps ==
  ASSUME WInv, UNCHANGED <<gui, NET_RUNNING, NET_WIN_ID>>,
         TaskTypes', Peer', JobUrl' = JobUrl,
         NET_DONE' => FETCH_RESULT'.kind \in {"page", "error"}
  PROVE  WInv'
  <1>1. /\ browsers' = browsers /\ asked' = asked /\ order' = order
        /\ focused' = focused /\ inputs' = inputs
        /\ NET_RUNNING' = NET_RUNNING /\ NET_WIN_ID' = NET_WIN_ID
    BY DEF gui
  <1>2. WindowTypes'
    BY <1>1 DEF WInv, WindowTypes
  <1>3. Requests' /\ Answered'
    BY <1>1 DEF WInv, Requests, Answered, LastAsked
  <1>4. Job'
    BY <1>1 DEF WInv, Job, LastAsked
  <1>5. QED
    BY <1>2, <1>3, <1>4 DEF WInv

\* A step that opens no window leaves the others in an order without duplicates.
OrderKept ==
    /\ order' \in Seq(Nat) /\ Distinct(order')
    /\ \A x : Has(order', x) => Has(order, x)
    /\ focused' = 0 \/ Has(order', focused')
    /\ inputs' \in 0..MAX_INPUTS

\* A step in window w that leaves the fetch alone: what then waits in w is the
\* latest request, and without one nothing was asked and nothing shown.
LEMMA WindowKeeps ==
  ASSUME WInv, UNCHANGED <<ctx, task, fetch>>, Peer', sock' \in SocketType,
         NEW w \in 1..Len(browsers), NEW b \in BrowserType, NEW a \in Seq(Given),
         browsers' = [browsers EXCEPT ![w] = b],
         asked' = [asked EXCEPT ![w] = a],
         OrderKept,
         \A x : Has(asked[w], x) => Has(a, x),
         b.pending_url # NoUrl => a # <<>> /\ b.pending_url = a[Len(a)],
         b.doc.asked # NoUrl => Has(a, b.doc.asked),
         b.pending_url = NoUrl =>
           a = asked[w] /\ browsers[w].pending_url = NoUrl /\ b.doc = browsers[w].doc
  PROVE  WInv'
  <1>1. /\ browsers \in Seq(BrowserType) /\ asked \in Seq(Seq(Given))
        /\ Len(asked) = Len(browsers)
    BY DEF WInv, WindowTypes
  <1>2. /\ browsers' \in Seq(BrowserType) /\ Len(browsers') = Len(browsers)
        /\ browsers'[w] = b
        /\ \A v \in 1..Len(browsers) : v # w => browsers'[v] = browsers[v]
    BY <1>1
  <1>3. /\ asked' \in Seq(Seq(Given)) /\ Len(asked') = Len(asked)
        /\ asked'[w] = a
        /\ \A v \in 1..Len(browsers) : v # w => asked'[v] = asked[v]
    BY <1>1
  <1>4. WindowTypes'
    BY <1>1, <1>2, <1>3 DEF WInv, WindowTypes, OrderKept
  <1>5. TaskTypes'
    BY DEF WInv, TaskTypes, ctx, task
  <1>6. Requests'
    BY <1>1, <1>2, <1>3 DEF WInv, Requests, LastAsked
  <1>7. JobUrl' = JobUrl
    BY DEF JobUrl, task
  <1>8. Job'
    BY <1>1, <1>2, <1>3, <1>7, SMTT(20) DEF WInv, Job, LastAsked, task
  <1>9. Answered'
    <2>1. SUFFICES ASSUME NEW v, Has(order', v)
                   PROVE  \/ browsers'[v].pending_url # NoUrl
                          \/ NET_RUNNING' /\ NET_WIN_ID' = v
                          \/ asked'[v] = <<>>
                          \/ /\ browsers'[v].doc.kind \in {"page", "error"}
                             /\ browsers'[v].doc.asked = asked'[v][Len(asked'[v])]
      BY DEF Answered, LastAsked
    <2>2. Has(order, v) /\ v \in 1..Len(browsers)
      BY <2>1 DEF WInv, WindowTypes, OrderKept
    <2>3. \/ browsers[v].pending_url # NoUrl
          \/ NET_RUNNING /\ NET_WIN_ID = v
          \/ asked[v] = <<>>
          \/ /\ browsers[v].doc.kind \in {"page", "error"}
             /\ browsers[v].doc.asked = asked[v][Len(asked[v])]
      BY <2>2 DEF WInv, Answered, LastAsked
    <2>4. QED
      BY <1>2, <1>3, <2>2, <2>3 DEF task
  <1>10. QED
    BY <1>4, <1>5, <1>6, <1>8, <1>9 DEF WInv

\* A fetch that enters its next phase, and one that follows a redirect.
Entered(f, p, l) == [f EXCEPT !.phase = p, !.left = l]
Redirected(f, u, t, l) == [f EXCEPT !.phase = "dns", !.current = u, !.tries = t, !.left = l]

\* Both keep the type and the URL that was asked for.
LEMMA EnteredFields ==
  ASSUME NEW f \in FetchType, NEW p \in Phases, NEW l \in 0..MAX_YIELDS
  PROVE  /\ Entered(f, p, l) \in FetchType
         /\ Entered(f, p, l).phase = p /\ Entered(f, p, l).url = f.url
         /\ Entered(f, p, l).current = f.current
  BY Zenon DEF FetchType, Entered

\* The same for a redirect.
LEMMA RedirectedFields ==
  ASSUME NEW f \in FetchType, NEW u \in Address,
         NEW t \in 0..MAX_FETCHES, NEW l \in 0..MAX_YIELDS
  PROVE  /\ Redirected(f, u, t, l) \in FetchType
         /\ Redirected(f, u, t, l).phase = "dns" /\ Redirected(f, u, t, l).url = f.url
  <1>1. "dns" \in Phases
    BY DEF Phases
  <1>2. QED
    BY <1>1, Zenon DEF FetchType, Redirected

\* While net has the core there is no result yet.
LEMMA NetHasNoResult ==
  ASSUME IInv, cpu = "net"
  PROVE  ~NET_DONE /\ FETCH_RESULT = NoResult /\ FETCH_RESULT.kind = "none"
  BY DEF IInv, NetHasCore, ResultHeld, NoResult, Doc

\* The end of a fetch, with a result for the URL it was started with.
LEMMA FinishKeeps ==
  ASSUME IInv, WInv, cpu = "net", fetch.phase # "entry", sock' \in SocketType,
         NEW r \in DocType, r.kind \in {"page", "error"}, r.asked = fetch.url,
         r.kind = "page" => Ours(r.from, fetch.current), Finish(r)
  PROVE  WInv'
  <1>1. /\ fetch'.phase = "halted" /\ fetch'.current = fetch.current
        /\ FETCH_RESULT' = r /\ NET_DONE' = TRUE
        /\ NET_RUNNING' = NET_RUNNING /\ PENDING_URL' = PENDING_URL
        /\ NET_WIN_ID' = NET_WIN_ID /\ UNCHANGED gui
    BY DEF Finish, NoFetch
  <1>2. fetch' \in FetchType
    <2>1. /\ fetch.current \in Address /\ NoUrl \in Address
          /\ "halted" \in Phases /\ 0 \in 0..MAX_FETCHES /\ 0 \in 0..MAX_YIELDS
      BY UrlAssumption, BoundAssumption DEF WInv, TaskTypes, FetchType, Phases, Address
    <2>2. fetch' = [phase |-> "halted", url |-> NoUrl, current |-> fetch.current,
                    tries |-> 0, left |-> 0]
      BY Zenon DEF Finish, NoFetch
    <2>3. QED
      BY <2>1, <2>2 DEF FetchType
  <1>3. MAIN_RSP' = MAIN_RSP /\ NET_RSP'.stack = "net"
    BY DEF Finish, SwitchToMain, Saved, Context
  <1>4. TaskTypes'
    BY <1>1, <1>2, <1>3 DEF WInv, TaskTypes
  <1>5. Peer'
    BY <1>1 DEF Peer, PageFromServer, Ours
  <1>6. JobUrl' = JobUrl
    BY <1>1, NetHasNoResult DEF JobUrl
  <1>7. QED
    BY <1>1, <1>4, <1>5, <1>6, FetchKeeps

\* A failed fetch ends with an error for its URL.
LEMMA FailKeeps ==
  ASSUME IInv, WInv, cpu = "net", fetch.phase # "entry", sock' \in SocketType, Fail
  PROVE  WInv'
  <1>1. fetch.url \in Address /\ NoUrl \in Address
    BY UrlAssumption DEF WInv, TaskTypes, FetchType, Address
  <1> DEFINE r == Doc("error", fetch.url, Closed)
  <1>2. r \in DocType /\ r.kind = "error" /\ r.asked = fetch.url
    BY <1>1, SocketFields DEF Doc, DocType
  <1>3. Finish(r)
    BY DEF Fail
  <1> HIDE DEF r
  <1>4. QED
    BY <1>2, <1>3, FinishKeeps

\* A step of net that stays in the fetch, with the socket its own where the
\* next phase uses it.
LEMMA PhaseKeeps ==
  ASSUME IInv, WInv, cpu = "net", fetch.phase # "entry", UNCHANGED <<ctx, task, gui>>,
         fetch' \in FetchType, fetch'.phase # "entry", fetch'.url = fetch.url,
         sock' \in SocketType,
         fetch'.phase \in {"connect", "handshake", "send", "read"} =>
           Ours(sock', fetch'.current)
  PROVE  WInv'
  <1>1. TaskTypes'
    BY DEF WInv, TaskTypes, ctx, task
  <1>2. Peer'
    BY NetHasNoResult DEF Peer, PageFromServer, task
  <1>3. JobUrl' = JobUrl
    BY NetHasNoResult DEF JobUrl, task
  <1>4. UNCHANGED <<gui, NET_RUNNING, NET_WIN_ID>> /\ NET_DONE' = NET_DONE
    BY DEF task
  <1>5. QED
    BY <1>1, <1>2, <1>3, <1>4, NetHasNoResult, FetchKeeps

\* The same for the phases entered with Enter.
LEMMA EnterKeeps ==
  ASSUME IInv, WInv, cpu = "net", fetch.phase # "entry", UNCHANGED <<ctx, task, gui>>,
         NEW p \in {"connect", "handshake", "send", "read"}, Enter(p),
         sock' \in SocketType, Ours(sock', fetch.current)
  PROVE  WInv'
  <1>1. fetch \in FetchType
    BY DEF WInv, TaskTypes
  <1>2. /\ fetch' \in FetchType /\ fetch'.phase = p /\ fetch'.url = fetch.url
        /\ fetch'.current = fetch.current /\ fetch.current \in Address
    <2>1. p \in Phases /\ fetch.current \in Address /\ MAX_YIELDS \in 0..MAX_YIELDS
      BY <1>1, BoundAssumption DEF FetchType, Phases
    <2>2. fetch' = Entered(fetch, p, MAX_YIELDS)
      BY DEF Enter, Entered
    <2>3. QED
      BY <1>1, <2>1, <2>2, EnteredFields
  <1>3. QED
    BY <1>2, PhaseKeeps

\* Every step of the fetch keeps the windows and their requests in order.
LEMMA NetStepKeeps ==
  ASSUME IInv, WInv, NetStep
  PROVE  WInv'
  <1>1. /\ fetch \in FetchType /\ sock \in SocketType /\ fetch.current \in Address
        /\ fetch.url \in Address /\ PENDING_URL \in Address
    BY DEF WInv, TaskTypes, FetchType
  <1>2. NoUrl \in Address /\ Closed \in SocketType
    BY UrlAssumption, SocketFields DEF Address
  <1>3. fetch.phase \in {"connect", "handshake", "send", "read"} => Ours(sock, fetch.current)
    BY DEF WInv, Peer
  <1>4. CASE NetTaskMain
    <2>1. /\ fetch' \in FetchType /\ fetch'.phase = "dns" /\ fetch'.url = PENDING_URL
      BY <1>1, <1>4, BoundAssumption DEF NetTaskMain, FetchType, Phases
    <2>2. cpu = "net" /\ fetch.phase = "entry" /\ PENDING_URL' = NoUrl
      BY <1>4 DEF NetTaskMain, InPhase
    <2>3. /\ UNCHANGED <<gui, NET_RUNNING, NET_WIN_ID>> /\ NET_DONE' = NET_DONE
          /\ FETCH_RESULT' = FETCH_RESULT /\ sock' = sock
          /\ MAIN_RSP' = MAIN_RSP /\ NET_RSP' = NET_RSP
      BY <1>4 DEF NetTaskMain, ctx
    <2>4. TaskTypes'
      BY <1>2, <2>1, <2>2, <2>3 DEF WInv, TaskTypes
    <2>5. Peer'
      BY <2>1, <2>2, <2>3, NetHasNoResult DEF Peer, PageFromServer
    <2>6. JobUrl' = JobUrl
      BY <2>1, <2>2, <2>3, NetHasNoResult DEF JobUrl
    <2>7. QED
      BY <2>2, <2>3, <2>4, <2>5, <2>6, NetHasNoResult, FetchKeeps
  <1>5. CASE YieldToMain
    <2>1. /\ fetch' \in FetchType /\ fetch'.phase = fetch.phase /\ fetch'.url = fetch.url
          /\ fetch'.current = fetch.current
      BY <1>1, <1>5, BoundAssumption DEF YieldToMain, FetchType
    <2>2. cpu = "net" /\ fetch.phase # "entry"
      BY <1>5 DEF YieldToMain
    <2>3. /\ UNCHANGED <<gui, NET_RUNNING, NET_WIN_ID>> /\ NET_DONE' = NET_DONE
          /\ FETCH_RESULT' = FETCH_RESULT /\ sock' = sock /\ PENDING_URL' = PENDING_URL
          /\ MAIN_RSP' = MAIN_RSP /\ NET_RSP'.stack = "net"
      BY <1>5, <2>2 DEF YieldToMain, task, SwitchToMain, Saved, Context
    <2>4. TaskTypes'
      BY <2>1, <2>2, <2>3 DEF WInv, TaskTypes
    <2>5. Peer'
      BY <1>3, <2>1, <2>2, <2>3, NetHasNoResult DEF Peer, PageFromServer
    <2>6. JobUrl' = JobUrl
      BY <2>1, <2>2, <2>3, NetHasNoResult DEF JobUrl
    <2>7. QED
      BY <2>2, <2>3, <2>4, <2>5, <2>6, NetHasNoResult, FetchKeeps
  <1>6. CASE Resolve
    BY <1>1, <1>6, EnterKeeps, FailKeeps, SocketFields DEF Resolve, InPhase, TcpConnect
  <1>7. CASE Connect
    BY <1>1, <1>2, <1>3, <1>7, EnterKeeps, FailKeeps DEF Connect, InPhase, TcpClose
  <1>8. CASE Handshake
    BY <1>1, <1>2, <1>3, <1>8, EnterKeeps, FailKeeps DEF Handshake, InPhase, TcpClose
  <1>9. CASE Send
    BY <1>1, <1>3, <1>9, EnterKeeps, FailKeeps DEF Send, InPhase
  <1>10. CASE ReadNothing
    BY <1>1, <1>2, <1>10, FailKeeps DEF ReadNothing, InPhase, TcpClose
  <1>11. ASSUME NEW u \in Urls, Redirect(u) PROVE WInv'
    <2>1. cpu = "net" /\ fetch.phase = "read" /\ sock' = Closed
      BY <1>11 DEF Redirect, InPhase, TcpClose
    <2>2. CASE fetch.tries > 1
      <3>1. fetch' \in FetchType /\ fetch'.phase = "dns" /\ fetch'.url = fetch.url
        <4>1. /\ u \in Address /\ MAX_YIELDS \in 0..MAX_YIELDS
              /\ fetch.tries - 1 \in 0..MAX_FETCHES
          BY <1>1, <2>2, BoundAssumption DEF FetchType, Phases, Address
        <4>2. fetch' = Redirected(fetch, u, fetch.tries - 1, MAX_YIELDS)
          BY <1>11, <2>2 DEF Redirect, Redirected
        <4>3. QED
          BY <1>1, <4>1, <4>2, RedirectedFields, SMTT(20)
      <3>2. UNCHANGED <<ctx, task, gui>>
        BY <1>11, <2>2 DEF Redirect
      <3>3. QED
        BY <1>2, <2>1, <3>1, <3>2, PhaseKeeps
    <2>3. CASE ~(fetch.tries > 1)
      BY <1>2, <1>11, <2>1, <2>3, FailKeeps DEF Redirect
    <2>4. QED
      BY <2>2, <2>3
  <1>12. CASE RedirectNowhere
    BY <1>2, <1>12, FailKeeps DEF RedirectNowhere, InPhase, TcpClose
  <1>13. CASE ReadPage
    <2>1. /\ cpu = "net" /\ fetch.phase = "read" /\ sock' = Closed
          /\ Finish(Doc("page", fetch.url, sock))
      BY <1>13 DEF ReadPage, InPhase, TcpClose
    <2> DEFINE r == Doc("page", fetch.url, sock)
    <2>2. r \in DocType /\ r.kind = "page" /\ r.asked = fetch.url /\ r.from = sock
      BY <1>1 DEF Doc, DocType
    <2> HIDE DEF r
    <2>3. QED
      BY <1>2, <1>3, <2>1, <2>2, FinishKeeps DEF r
  <1>14. QED
    BY <1>4, <1>5, <1>6, <1>7, <1>8, <1>9, <1>10, <1>11, <1>12, <1>13 DEF NetStep

\* The windows on the screen.
LEMMA OpenIsHas ==
  ASSUME WindowTypes, NEW w
  PROVE  /\ w \in Open <=> Has(order, w)
         /\ w \in Open => w \in Ids
         /\ Ids = 1..Len(browsers)
  BY DEF WindowTypes, Open, Has, Ids

\* A delivered result changes what is shown, and no request.
LEMMA ShownFields ==
  ASSUME NEW b \in BrowserType, NEW r \in DocType
  PROVE  /\ Shown(b, r) \in BrowserType
         /\ Shown(b, r).doc = r /\ Shown(b, r).pending_url = b.pending_url
  BY Zenon DEF BrowserType, Shown

\* A result reaches the window that asked for it, and is the answer to its
\* latest request unless a later one waits.
LEMMA DeliverKeeps ==
  ASSUME IInv, WInv, Deliver
  PROVE  WInv'
  <1>1. /\ NET_RUNNING /\ NET_DONE
        /\ NET_RUNNING' = FALSE /\ NET_DONE' = FALSE /\ FETCH_RESULT' = NoResult
        /\ UNCHANGED <<NET_WIN_ID, PENDING_URL, MAIN_RSP, NET_RSP, fetch, sock, order,
                       focused, inputs, asked>>
    BY DEF Deliver, TakeResult
  <1>2. /\ browsers \in Seq(BrowserType) /\ FETCH_RESULT \in DocType
        /\ WindowTypes /\ Ids = 1..Len(browsers)
    BY OpenIsHas DEF WInv, WindowTypes, TaskTypes
  <1> DEFINE B(v) == IF v \in Receivers THEN Shown(browsers[v], FETCH_RESULT)
                                        ELSE browsers[v]
  <1>3. ASSUME NEW v \in 1..Len(browsers)
        PROVE  /\ B(v) \in BrowserType /\ B(v).pending_url = browsers[v].pending_url
               /\ v \in Receivers => B(v).doc = FETCH_RESULT
               /\ v \notin Receivers => B(v).doc = browsers[v].doc
    <2>1. browsers[v] \in BrowserType
      BY <1>2
    <2>2. QED
      BY <1>2, <2>1, ShownFields
  <1>4. browsers' = [v \in 1..Len(browsers) |-> B(v)]
    BY <1>2 DEF Deliver
  <1> HIDE DEF B
  <1>5. /\ browsers' \in Seq(BrowserType) /\ Len(browsers') = Len(browsers)
        /\ \A v \in 1..Len(browsers) : browsers'[v] = B(v)
    BY <1>2, <1>3, <1>4
  <1>6. ASSUME NEW v PROVE v \in Receivers <=> v = NET_WIN_ID /\ Has(order, v)
    BY <1>2, OpenIsHas DEF Receivers
  <1>7. JobUrl = FETCH_RESULT.asked
    BY <1>1 DEF JobUrl
  <1>8. WindowTypes'
    BY <1>1, <1>5 DEF WInv, WindowTypes
  <1>9. TaskTypes'
    <2>1. NoResult \in DocType
      BY UrlAssumption, SocketFields DEF NoResult, Doc, DocType, Address
    <2>2. QED
      BY <1>1, <2>1 DEF WInv, TaskTypes
  <1>10. Requests'
    BY <1>1, <1>3, <1>5, <1>6, <1>7 DEF WInv, Requests, Job, LastAsked
  <1>11. Job'
    BY <1>1 DEF Job
  <1>12. Answered'
    <2>1. SUFFICES ASSUME NEW v, Has(order, v)
                   PROVE  \/ browsers'[v].pending_url # NoUrl
                          \/ asked[v] = <<>>
                          \/ /\ browsers'[v].doc.kind \in {"page", "error"}
                             /\ browsers'[v].doc.asked = LastAsked(v)
      BY <1>1 DEF Answered, LastAsked
    <2>2. v \in 1..Len(browsers)
      BY <2>1 DEF WInv, WindowTypes
    <2>3. CASE v = NET_WIN_ID
      BY <1>1, <1>3, <1>5, <1>6, <1>7, <2>1, <2>2, <2>3, SMTT(20) DEF WInv, Job
    <2>4. CASE v # NET_WIN_ID
      BY <1>3, <1>5, <1>6, <2>1, <2>2, <2>4 DEF WInv, Answered
    <2>5. QED
      BY <2>3, <2>4
  <1>13. Peer'
    BY <1>1 DEF WInv, Peer, PageFromServer, NoResult, Doc
  <1>14. QED
    BY <1>8, <1>9, <1>10, <1>11, <1>12, <1>13 DEF WInv

\* A window whose request was taken.
Taken(b) == [b EXCEPT !.pending_url = NoUrl]

\* Only the waiting URL goes.
LEMMA TakenFields ==
  ASSUME NEW b \in BrowserType
  PROVE  /\ Taken(b) \in BrowserType /\ Taken(b).pending_url = NoUrl /\ Taken(b).doc = b.doc
  <1>1. NoUrl \in Address
    BY UrlAssumption DEF Address
  <1>2. QED
    BY <1>1 DEF BrowserType, Taken

\* The fetch that starts is for the latest request of its window.
LEMMA StartKeeps ==
  ASSUME IInv, WInv, StartFetch
  PROVE  WInv'
  <1>1. PICK w \in Waiting :
          /\ browsers' = [browsers EXCEPT ![w].pending_url = NoUrl]
          /\ PENDING_URL' = browsers[w].pending_url
          /\ NET_WIN_ID' = w
    BY Zenon DEF StartFetch
  <1>2. /\ ~NET_RUNNING /\ NET_DONE' = FALSE /\ NET_RUNNING' = TRUE
        /\ fetch'.phase = "entry" /\ MAIN_RSP'.stack = "main"
        /\ UNCHANGED <<NET_RSP, FETCH_RESULT, sock, order, focused, inputs, asked>>
    BY DEF StartFetch, StartNet, AtLoop, Saved, Context, NoFetch
  <1>3. /\ WindowTypes /\ browsers \in Seq(BrowserType) /\ asked \in Seq(Seq(Given))
        /\ Len(asked) = Len(browsers)
    BY DEF WInv, WindowTypes
  <1>4. Has(order, w) /\ w \in 1..Len(browsers) /\ browsers[w].pending_url # NoUrl
    <2>1. w \in Open /\ browsers[w].pending_url # NoUrl
      BY <1>1 DEF Waiting
    <2>2. QED
      BY <1>3, <2>1, OpenIsHas
  <1>5. /\ Taken(browsers[w]) \in BrowserType
        /\ Taken(browsers[w]).pending_url = NoUrl
        /\ Taken(browsers[w]).doc = browsers[w].doc
    BY <1>3, <1>4, TakenFields
  <1>6. browsers' = [browsers EXCEPT ![w] = Taken(browsers[w])]
    BY <1>1 DEF Taken
  <1>7. /\ browsers' \in Seq(BrowserType) /\ Len(browsers') = Len(browsers)
        /\ browsers'[w] = Taken(browsers[w])
        /\ \A v \in 1..Len(browsers) : v # w => browsers'[v] = browsers[v]
    BY <1>3, <1>4, <1>5, <1>6
  <1>8. /\ asked[w] # <<>> /\ PENDING_URL' = LastAsked(w)
        /\ Has(asked[w], PENDING_URL')
    <2>1. asked[w] # <<>> /\ browsers[w].pending_url = LastAsked(w)
      BY <1>4 DEF WInv, Requests
    <2>2. asked[w] \in Seq(Given) /\ Len(asked[w]) \in 1..Len(asked[w])
      BY <1>3, <1>4, <2>1
    <2>3. QED
      BY <1>1, <2>1, <2>2 DEF Has, LastAsked
  <1>9. JobUrl' = PENDING_URL'
    BY <1>2 DEF JobUrl
  <1>10. WindowTypes'
    BY <1>2, <1>7 DEF WInv, WindowTypes
  <1>11. TaskTypes'
    <2>1. fetch' \in FetchType
      <3>1. /\ NoUrl \in Address /\ "entry" \in Phases
            /\ 0 \in 0..MAX_FETCHES /\ 0 \in 0..MAX_YIELDS
        BY UrlAssumption, BoundAssumption DEF Address, Phases
      <3>2. fetch' = [phase |-> "entry", url |-> NoUrl, current |-> NoUrl,
                      tries |-> 0, left |-> 0]
        BY DEF StartFetch, NoFetch
      <3>3. QED
        BY <3>1, <3>2 DEF FetchType
    <2>2. browsers[w].pending_url \in Address
      <3>1. browsers[w] \in BrowserType
        BY <1>3, <1>4
      <3>2. QED
        BY <3>1 DEF BrowserType
    <2>3. QED
      BY <1>1, <1>2, <1>4, <2>1, <2>2 DEF WInv, TaskTypes
  <1>12. Requests'
    BY <1>2, <1>5, <1>7 DEF WInv, Requests, LastAsked
  <1>13. Job'
    BY <1>1, <1>2, <1>4, <1>7, <1>8, <1>9, SMTT(20) DEF Job, LastAsked
  <1>14. Answered'
    <2>1. SUFFICES ASSUME NEW v, Has(order, v), v # w
                   PROVE  \/ browsers'[v].pending_url # NoUrl
                          \/ asked[v] = <<>>
                          \/ /\ browsers'[v].doc.kind \in {"page", "error"}
                             /\ browsers'[v].doc.asked = LastAsked(v)
      BY <1>1, <1>2 DEF Answered, LastAsked
    <2>2. v \in 1..Len(browsers)
      BY <2>1 DEF WInv, WindowTypes
    <2>3. QED
      BY <1>2, <1>7, <2>1, <2>2 DEF WInv, Answered
  <1>15. Peer'
    <2>1. FETCH_RESULT.kind = "none"
      BY <1>2 DEF IInv, ResultHeld, NoResult, Doc
    <2>2. QED
      BY <1>2, <2>1 DEF Peer, PageFromServer
  <1>16. QED
    BY <1>10, <1>11, <1>12, <1>13, <1>14, <1>15 DEF WInv

\* Every step of the desktop loop keeps the windows and their requests in order.
LEMMA MainStepKeeps ==
  ASSUME IInv, WInv, MainStep
  PROVE  WInv'
  <1>1. ASSUME MAIN_RSP'.stack \in {"none", "main"}, NET_RSP' = NET_RSP,
               UNCHANGED <<task, fetch, sock, gui>>
        PROVE  WInv'
    <2>1. TaskTypes'
      BY <1>1 DEF WInv, TaskTypes, task
    <2>2. Peer' /\ JobUrl' = JobUrl
      BY <1>1 DEF WInv, Peer, PageFromServer, JobUrl, task
    <2>3. /\ UNCHANGED <<gui, NET_RUNNING, NET_WIN_ID>>
          /\ NET_DONE' => FETCH_RESULT'.kind \in {"page", "error"}
      BY <1>1 DEF WInv, Job, task
    <2>4. QED
      BY <2>1, <2>2, <2>3, FetchKeeps
  <1>2. MAIN_RSP.stack \in {"none", "main"}
    BY DEF WInv, TaskTypes
  <1>3. CASE TickNetwork
    <2>1. MAIN_RSP'.stack = "main" /\ NET_RSP' = NET_RSP
      BY <1>3 DEF TickNetwork, AtLoop, SwitchToNet, Saved, Context
    <2>2. QED
      BY <1>1, <1>3, <2>1 DEF TickNetwork
  <1>4. CASE TickReturns
    BY <1>1, <1>2, <1>4 DEF TickReturns
  <1>5. CASE StartReturns
    BY <1>1, <1>2, <1>5 DEF StartReturns
  <1>6. QED
    BY <1>3, <1>4, <1>5, DeliverKeeps, StartKeeps DEF MainStep

\* A window that starts to load u.
Asking(b, u, h) == [Loading(b, u) EXCEPT !.history = h]

\* What waits in it is what it says it loads.
LEMMA AskingFields ==
  ASSUME NEW b \in BrowserType, NEW u \in Given, NEW h \in Seq(Given)
  PROVE  /\ Asking(b, u, h) \in BrowserType
         /\ Asking(b, u, h).pending_url = u /\ Asking(b, u, h).doc.asked = u
  <1>1. u \in Address /\ Doc("loading", u, Closed) \in DocType
        /\ Doc("loading", u, Closed).asked = u
    BY UrlAssumption, SocketFields DEF Given, Doc, DocType, Address
  <1> DEFINE d == Doc("loading", u, Closed)
  <1>2. Asking(b, u, h) =
          [[b EXCEPT !.url_input = u, !.url_focused = FALSE, !.pending_url = u, !.doc = d]
             EXCEPT !.history = h]
    BY DEF Asking, Loading
  <1>3. d \in DocType /\ d.asked = u
    BY <1>1
  <1> HIDE DEF d
  <1>4. QED
    BY <1>1, <1>2, <1>3, Zenon DEF BrowserType

\* The latest request is the one appended.
LEMMA AppendedLast ==
  ASSUME NEW S, NEW s \in Seq(S), NEW e \in S
  PROVE  /\ Append(s, e) \in Seq(S) /\ Append(s, e) # <<>>
         /\ Append(s, e)[Len(Append(s, e))] = e
  <1>1. Len(Append(s, e)) = Len(s) + 1 /\ Append(s, e) \in Seq(S) /\ Len(s) \in Nat
    OBVIOUS
  <1>2. Append(s, e)[Len(s) + 1] = e
    OBVIOUS
  <1>3. Append(s, e) # <<>>
    BY <1>1
  <1>4. QED
    BY <1>1, <1>2, <1>3

\* A request made in an open window.
LEMMA AskKeeps ==
  ASSUME WInv, UNCHANGED <<ctx, task, fetch, sock>>, OrderKept,
         NEW w \in 1..Len(browsers), NEW u \in Given, NEW h \in Seq(Given),
         browsers' = [browsers EXCEPT ![w] = Asking(browsers[w], u, h)],
         asked' = [asked EXCEPT ![w] = Append(asked[w], u)]
  PROVE  WInv'
  <1>1. browsers[w] \in BrowserType /\ asked[w] \in Seq(Given)
    BY DEF WInv, WindowTypes
  <1> DEFINE b == Asking(browsers[w], u, h)
             a == Append(asked[w], u)
  <1>2. b \in BrowserType /\ b.pending_url = u /\ b.doc.asked = u /\ u # NoUrl
    BY <1>1, AskingFields DEF Given
  <1>3. a \in Seq(Given) /\ a # <<>> /\ a[Len(a)] = u
    BY <1>1, AppendedLast, Zenon
  <1>4. Has(a, u) /\ \A x : Has(asked[w], x) => Has(a, x)
    <2>1. \A x : Has(Append(asked[w], u), x) <=> Has(asked[w], x) \/ x = u
      BY <1>1, AppendDistinct, Zenon
    <2>2. QED
      BY <2>1, Zenon
  <1>5. Peer' /\ sock' \in SocketType
    BY DEF WInv, TaskTypes, Peer, PageFromServer, task
  <1>6. browsers' = [browsers EXCEPT ![w] = b] /\ asked' = [asked EXCEPT ![w] = a]
        /\ UNCHANGED <<ctx, task, fetch>>
    OBVIOUS
  <1> HIDE DEF a, b
  <1>7. QED
    BY <1>2, <1>3, <1>4, <1>5, <1>6, WindowKeeps, Zenon

\* An edit of the address bar, or a change of its focus.
LEMMA EditKeeps ==
  ASSUME WInv, UNCHANGED <<ctx, task, fetch, asked>>, Peer', sock' \in SocketType, OrderKept,
         NEW w \in 1..Len(browsers), NEW b \in BrowserType,
         b.pending_url = browsers[w].pending_url, b.doc = browsers[w].doc,
         browsers' = [browsers EXCEPT ![w] = b]
  PROVE  WInv'
  <1> DEFINE a == asked[w]
  <1>1. a \in Seq(Given) /\ asked' = [asked EXCEPT ![w] = a]
    BY DEF WInv, WindowTypes
  <1>2. /\ b.pending_url # NoUrl => a # <<>> /\ b.pending_url = a[Len(a)]
        /\ b.doc.asked # NoUrl => Has(a, b.doc.asked)
    BY DEF WInv, Requests, LastAsked
  <1>3. /\ b.pending_url = NoUrl =>
             a = asked[w] /\ browsers[w].pending_url = NoUrl /\ b.doc = browsers[w].doc
        /\ \A x : Has(asked[w], x) => Has(a, x)
        /\ UNCHANGED <<ctx, task, fetch>>
    OBVIOUS
  <1> HIDE DEF a
  <1>4. QED
    BY <1>1, <1>2, <1>3, WindowKeeps, Zenon

\* What changes no window and not the fetch.
LEMMA OthersKeep ==
  ASSUME WInv, UNCHANGED <<MAIN_RSP, task, fetch, browsers, asked>>,
         NET_RSP'.stack \in {"none", "main", "net"}, Peer', sock' \in SocketType, OrderKept
  PROVE  WInv'
  <1>1. WindowTypes'
    BY DEF WInv, WindowTypes, OrderKept
  <1>2. TaskTypes'
    BY DEF WInv, TaskTypes, task
  <1>3. Requests'
    BY DEF WInv, Requests, LastAsked
  <1>4. Job'
    BY SMTT(20) DEF WInv, Job, JobUrl, LastAsked, task
  <1>5. Answered'
    BY DEF WInv, Answered, OrderKept, LastAsked, task
  <1>6. QED
    BY <1>1, <1>2, <1>3, <1>4, <1>5 DEF WInv

\* focus_window puts an open window on top.
LEMMA RaiseOrder ==
  ASSUME WInv, NEW w, Has(order, w), Raise(w), Input
  PROVE  OrderKept
  <1>1. order \in Seq(Nat) /\ Distinct(order) /\ w \in Nat
    BY DEF WInv, WindowTypes
  <1> DEFINE o == Retain(order, w)
  <1>2. o \in Seq(Nat) /\ Distinct(o) /\ \A x : Has(o, x) <=> Has(order, x) /\ x # w
    BY <1>1, RetainDistinct, Zenon
  <1>3. order' = Append(o, w) /\ focused' = w
    BY DEF Raise
  <1> HIDE DEF o
  <1>4. /\ Append(o, w) \in Seq(Nat) /\ Distinct(Append(o, w))
        /\ \A x : Has(Append(o, w), x) <=> Has(o, x) \/ x = w
    BY <1>1, <1>2, AppendDistinct, Zenon
  <1>5. inputs' \in 0..MAX_INPUTS
    BY BoundAssumption DEF WInv, WindowTypes, Input
  <1>6. QED
    BY <1>2, <1>3, <1>4, <1>5 DEF OrderKept

\* BrowserState::navigate in an open window.
LEMMA NavigateKeeps ==
  ASSUME WInv, UNCHANGED <<ctx, task, fetch, sock>>, OrderKept,
         NEW w \in 1..Len(browsers), NEW u \in Urls, Navigate(w, u)
  PROVE  WInv'
  <1>1. browsers[w] \in BrowserType
    BY DEF WInv, WindowTypes
  <1>2. u \in Given
    BY UrlAssumption DEF Given, Address
  <1> DEFINE b == browsers[w]
             h == IF b.current_url \notin {NoUrl, u} THEN Append(b.history, b.current_url)
                                                     ELSE b.history
  <1>3. h \in Seq(Given)
    <2>1. b.history \in Seq(Given) /\ b.current_url \in Address
      BY <1>1 DEF BrowserType
    <2>2. QED
      BY <2>1 DEF Given
  <1>4. Loading(b, u).history = b.history
    BY <1>1 DEF Loading, BrowserType
  <1>5. /\ browsers' = [browsers EXCEPT ![w] = Asking(browsers[w], u, h)]
        /\ asked' = [asked EXCEPT ![w] = Append(asked[w], u)]
    BY <1>4 DEF Navigate, Asking
  <1> HIDE DEF h, b
  <1>6. QED
    BY <1>2, <1>3, <1>5, AskKeeps, Zenon

\* BrowserState::go_back in an open window.
LEMMA GoBackKeeps ==
  ASSUME WInv, UNCHANGED <<ctx, task, fetch, sock>>, OrderKept,
         NEW w \in 1..Len(browsers), GoBack(w)
  PROVE  WInv'
  <1>1. browsers[w] \in BrowserType
    BY DEF WInv, WindowTypes
  <1> DEFINE b == browsers[w]
             u == b.history[Len(b.history)]
             h == SubSeq(b.history, 1, Len(b.history) - 1)
  <1>2. b.history \in Seq(Given)
    BY <1>1 DEF BrowserType
  <1>3. CASE b.history = <<>>
    <2>1. UNCHANGED <<browsers, asked>>
      BY <1>3 DEF GoBack
    <2>2. Peer' /\ sock' \in SocketType
      BY DEF WInv, TaskTypes, Peer, PageFromServer, task
    <2>3. QED
      BY <2>1, <2>2, OthersKeep DEF WInv, TaskTypes, ctx
  <1>4. CASE b.history # <<>>
    <2>1. u \in Given /\ h \in Seq(Given)
      BY <1>2, <1>4
    <2>2. Loading(b, u).history = b.history
      BY <1>1 DEF Loading, BrowserType
    <2>3. /\ browsers' = [browsers EXCEPT ![w] = Asking(browsers[w], u, h)]
          /\ asked' = [asked EXCEPT ![w] = Append(asked[w], u)]
      BY <1>4, <2>2 DEF GoBack, Asking
    <2> HIDE DEF u, h, b
    <2>4. QED
      BY <2>1, <2>3, AskKeeps, Zenon
  <1>5. QED
    BY <1>3, <1>4

\* An address bar with another text or focus.
Edited(b, text, focus) == [b EXCEPT !.url_input = text, !.url_focused = focus]

\* It changes no request and nothing shown.
LEMMA EditedFields ==
  ASSUME NEW b \in BrowserType, NEW text \in Address, NEW focus \in BOOLEAN
  PROVE  /\ Edited(b, text, focus) \in BrowserType
         /\ Edited(b, text, focus).pending_url = b.pending_url
         /\ Edited(b, text, focus).doc = b.doc
  BY Zenon DEF BrowserType, Edited

\* The keys and clicks that only edit the address bar.
LEMMA BarKeeps ==
  ASSUME WInv, UNCHANGED <<ctx, task, fetch, sock, asked>>, OrderKept,
         NEW w \in 1..Len(browsers), NEW text \in Address, NEW focus \in BOOLEAN,
         browsers' = [browsers EXCEPT ![w] = Edited(browsers[w], text, focus)]
  PROVE  WInv'
  <1>1. browsers[w] \in BrowserType
    BY DEF WInv, WindowTypes
  <1> DEFINE b == Edited(browsers[w], text, focus)
  <1>2. b \in BrowserType /\ b.pending_url = browsers[w].pending_url /\ b.doc = browsers[w].doc
    BY <1>1, EditedFields
  <1>3. Peer' /\ sock' \in SocketType
    BY DEF WInv, TaskTypes, Peer, PageFromServer, task
  <1>4. browsers' = [browsers EXCEPT ![w] = b]
    OBVIOUS
  <1> HIDE DEF b
  <1>5. QED
    BY <1>2, <1>3, <1>4, EditKeeps, Zenon

\* The desktop icon: the new window has asked for nothing.
LEMMA OpenKeeps ==
  ASSUME WInv, OpenBrowser
  PROVE  WInv'
  <1> DEFINE n == Len(browsers)
  <1>1. /\ browsers' = Append(browsers, NewBrowser) /\ asked' = Append(asked, <<>>)
        /\ order' = Append(order, n + 1) /\ focused' = n + 1
        /\ UNCHANGED <<ctx, task, fetch, sock, inputs>>
    BY DEF OpenBrowser
  <1>2. /\ browsers \in Seq(BrowserType) /\ asked \in Seq(Seq(Given)) /\ Len(asked) = n
        /\ order \in Seq(Nat) /\ Distinct(order) /\ n \in Nat
        /\ \A w : Has(order, w) => w \in 1..n
    BY DEF WInv, WindowTypes
  <1>3. /\ NewBrowser \in BrowserType
        /\ NewBrowser.pending_url = NoUrl /\ NewBrowser.doc.asked = NoUrl
    BY UrlAssumption, SocketFields DEF NewBrowser, BrowserType, Doc, DocType, Address
  <1>4. /\ browsers' \in Seq(BrowserType) /\ Len(browsers') = n + 1
        /\ browsers'[n + 1] = NewBrowser
        /\ \A w \in 1..n : browsers'[w] = browsers[w]
    BY <1>1, <1>2, <1>3
  <1>5. /\ asked' \in Seq(Seq(Given)) /\ Len(asked') = n + 1
        /\ asked'[n + 1] = <<>>
        /\ \A w \in 1..n : asked'[w] = asked[w]
    BY <1>1, <1>2
  <1>6. /\ order' \in Seq(Nat) /\ Distinct(order')
        /\ \A w : Has(order', w) <=> Has(order, w) \/ w = n + 1
    <2>1. n + 1 \in Nat /\ ~Has(order, n + 1)
      BY <1>2
    <2> DEFINE m == n + 1
    <2>2. order' = Append(order, m)
      BY <1>1
    <2>3. m \in Nat /\ ~Has(order, m)
      BY <2>1
    <2> HIDE DEF m
    <2>4. /\ Append(order, m) \in Seq(Nat) /\ Distinct(Append(order, m))
          /\ \A w : Has(Append(order, m), w) <=> Has(order, w) \/ w = m
      BY <1>2, <2>3, AppendDistinct, Zenon
    <2>5. QED
      BY <2>2, <2>4, Zenon DEF m
  <1>7. /\ NET_RUNNING' = NET_RUNNING /\ NET_DONE' = NET_DONE /\ NET_WIN_ID' = NET_WIN_ID
        /\ PENDING_URL' = PENDING_URL /\ FETCH_RESULT' = FETCH_RESULT /\ fetch' = fetch
        /\ sock' = sock /\ MAIN_RSP' = MAIN_RSP /\ NET_RSP' = NET_RSP
    BY <1>1 DEF task, ctx
  <1>8. ASSUME NEW w \in 1..Len(browsers') PROVE w \in 1..n \/ w = n + 1
    BY <1>2, <1>4
  <1> HIDE DEF n
  <1>9. WindowTypes'
    <2>1. focused' = n + 1 /\ inputs' = inputs /\ inputs \in 0..MAX_INPUTS
      BY <1>1 DEF WInv, WindowTypes
    <2>2. \A w : Has(order', w) => w \in 1..Len(browsers')
      BY <1>2, <1>4, <1>6, SMTT(20)
    <2>3. QED
      BY <1>4, <1>5, <1>6, <2>1, <2>2 DEF WindowTypes
  <1>10. TaskTypes' /\ Peer'
    BY <1>7 DEF WInv, TaskTypes, Peer, PageFromServer
  <1>11. Requests'
    BY <1>3, <1>4, <1>5, <1>8, Zenon DEF WInv, Requests, LastAsked, n
  <1>12. Job'
    <2>1. JobUrl' = JobUrl
      BY <1>7 DEF JobUrl
    <2>2. n \in Nat /\ 1..n \subseteq 1..Len(browsers')
      BY <1>2, <1>4, SMTT(20)
    <2>3. QED
      BY <1>4, <1>5, <1>7, <2>1, <2>2 DEF WInv, Job, LastAsked, n
  <1>13. Answered'
    <2>1. SUFFICES ASSUME NEW v, Has(order', v)
                   PROVE  \/ browsers'[v].pending_url # NoUrl
                          \/ NET_RUNNING /\ NET_WIN_ID = v
                          \/ asked'[v] = <<>>
                          \/ /\ browsers'[v].doc.kind \in {"page", "error"}
                             /\ browsers'[v].doc.asked = asked'[v][Len(asked'[v])]
      BY <1>7 DEF Answered, LastAsked
    <2>2. v = n + 1 \/ (Has(order, v) /\ v \in 1..n)
      BY <1>2, <1>6, <2>1
    <2>3. QED
      BY <1>4, <1>5, <2>2, SMTT(20) DEF WInv, Answered, LastAsked
  <1>14. QED
    BY <1>9, <1>10, <1>11, <1>12, <1>13 DEF WInv

\* Every input keeps the windows and their requests in order.
LEMMA UserStepKeeps ==
  ASSUME IInv, WInv, UserStep
  PROVE  WInv'
  <1>1. ASSUME NEW u \in Urls, TerminalCommand(u) PROVE WInv'
    <2>1. /\ sock' \in {Socket(NoUrl, "main"), Socket(u, "main"), sock}
          /\ UNCHANGED <<task, fetch, browsers, order, focused, asked>>
          /\ inputs' = inputs + 1 /\ inputs < MAX_INPUTS
      BY <1>1 DEF TerminalCommand
    <2>2. MAIN_RSP' = MAIN_RSP /\ NET_RSP'.stack \in {"none", "main", "net"}
      BY <1>1
      DEF TerminalCommand, AtLoop, ctx, SwitchToMain, Saved, Context, WInv, TaskTypes
    <2>3. NoUrl \in Address /\ u \in Address
      BY UrlAssumption DEF Address
    <2>4. sock' = sock \/ (sock' \in SocketType /\ sock'.by = "main")
      BY <2>1, <2>3, SocketFields, Zenon
    <2>5. Peer' /\ sock' \in SocketType
      BY <2>1, <2>4 DEF WInv, TaskTypes, Peer, PageFromServer, Ours, task
    <2>6. OrderKept
      BY <2>1, BoundAssumption DEF WInv, WindowTypes, OrderKept
    <2>7. QED
      BY <2>1, <2>2, <2>5, <2>6, OthersKeep
  <1>2. ASSUME NEW w \in Open,
               \/ CloseWindow(w)
               \/ ClickBack(w)
               \/ ClickBar(w)
               \/ \E u \in Urls : ClickLink(w, u)
               \/ KeyEnter(w)
               \/ \E text \in Texts \cup Urls : KeyEdit(w, text)
               \/ KeyEscape(w)
               \/ KeyU(w)
               \/ KeyBack(w)
        PROVE  WInv'
    <2>1. Has(order, w) /\ w \in 1..Len(browsers)
      BY OpenIsHas DEF WInv
    <2>2. browsers[w] \in BrowserType
      BY <2>1 DEF WInv, WindowTypes
    <2>3. /\ browsers[w].url_input \in Address /\ browsers[w].url_focused \in BOOLEAN
          /\ NoUrl \in Address
      BY <2>2, UrlAssumption DEF BrowserType, Address
    <2>4. ASSUME Key(w) PROVE OrderKept
      BY <2>4, BoundAssumption DEF Key, Input, OrderKept, WInv, WindowTypes
    <2>5. ASSUME Input, sock' = sock PROVE UNCHANGED <<ctx, task, fetch, sock>>
      BY <2>5 DEF Input
    <2>6. CASE CloseWindow(w)
      <3>1. /\ order' = Retain(order, w) /\ focused' = IF focused = w THEN 0 ELSE focused
            /\ UNCHANGED <<ctx, task, fetch, sock, browsers, asked>>
        BY <2>6 DEF CloseWindow, Input
      <3>2. order \in Seq(Nat) /\ Distinct(order)
        BY DEF WInv, WindowTypes
      <3>3. /\ Retain(order, w) \in Seq(Nat) /\ Distinct(Retain(order, w))
            /\ \A x : Has(Retain(order, w), x) <=> Has(order, x) /\ x # w
        BY <3>2, RetainDistinct, Zenon
      <3>4. /\ order' \in Seq(Nat) /\ Distinct(order')
            /\ \A x : Has(order', x) <=> Has(order, x) /\ x # w
        BY <3>1, <3>3, Zenon
      <3>5. inputs' \in 0..MAX_INPUTS
        BY <2>6, BoundAssumption DEF CloseWindow, Input, WInv, WindowTypes
      <3>6. OrderKept
        BY <3>1, <3>4, <3>5, SMTT(20) DEF WInv, WindowTypes, OrderKept
      <3>7. Peer' /\ sock' \in SocketType
        BY <3>1 DEF WInv, TaskTypes, Peer, PageFromServer, task
      <3>8. QED
        BY <3>1, <3>6, <3>7, OthersKeep DEF WInv, TaskTypes, ctx
    <2>7. CASE ClickBack(w)
      BY <2>1, <2>5, <2>7, RaiseOrder, GoBackKeeps DEF ClickBack
    <2>8. CASE ClickBar(w)
      <3>1. browsers' = [browsers EXCEPT ![w] = Edited(browsers[w], browsers[w].url_input, TRUE)]
        BY <2>2, <2>8, Zenon DEF ClickBar, Edited, BrowserType
      <3>2. QED
        BY <2>1, <2>3, <2>5, <2>8, <3>1, RaiseOrder, BarKeeps, Zenon DEF ClickBar
    <2>9. ASSUME NEW u \in Urls, ClickLink(w, u) PROVE WInv'
      BY <2>1, <2>5, <2>9, RaiseOrder, NavigateKeeps DEF ClickLink
    <2>10. CASE KeyEnter(w)
      <3> DEFINE text == browsers[w].url_input
                 u == IF text \in Urls THEN text ELSE UrlOf[text]
      <3>1. /\ Key(w) /\ Input /\ sock' = sock /\ text # NoUrl /\ Navigate(w, u)
        BY <2>10 DEF KeyEnter, Key
      <3>2. u \in Urls
        BY <2>3, <3>1, UrlAssumption DEF Address
      <3> HIDE DEF u
      <3>3. QED
        BY <2>1, <2>4, <2>5, <3>1, <3>2, NavigateKeeps, SMTT(20)
    <2>11. ASSUME NEW text \in Texts \cup Urls, KeyEdit(w, text) PROVE WInv'
      <3>1. browsers' = [browsers EXCEPT ![w] = Edited(browsers[w], text, TRUE)]
        BY <2>2, <2>11, Zenon DEF KeyEdit, Edited, BrowserType
      <3>2. text \in Address /\ Key(w) /\ Input /\ sock' = sock /\ asked' = asked
        BY <2>11 DEF KeyEdit, Key, Address
      <3>3. QED
        BY <2>1, <2>4, <2>5, <3>1, <3>2, BarKeeps, Zenon
    <2>12. CASE KeyEscape(w)
      <3>1. browsers' = [browsers EXCEPT ![w] = Edited(browsers[w], browsers[w].url_input, FALSE)]
        BY <2>2, <2>12, Zenon DEF KeyEscape, Edited, BrowserType
      <3>2. Key(w) /\ Input /\ sock' = sock /\ asked' = asked
        BY <2>12 DEF KeyEscape, Key
      <3>3. QED
        BY <2>1, <2>3, <2>4, <2>5, <3>1, <3>2, BarKeeps, Zenon
    <2>13. CASE KeyU(w)
      <3>1. browsers' = [browsers EXCEPT ![w] = Edited(browsers[w], NoUrl, TRUE)]
        BY <2>2, <2>13, Zenon DEF KeyU, Edited, BrowserType
      <3>2. Key(w) /\ Input /\ sock' = sock /\ asked' = asked
        BY <2>13 DEF KeyU, Key
      <3>3. QED
        BY <2>1, <2>3, <2>4, <2>5, <3>1, <3>2, BarKeeps, Zenon
    <2>14. CASE KeyBack(w)
      <3>1. Key(w) /\ Input /\ sock' = sock /\ GoBack(w)
        BY <2>14 DEF KeyBack, Key
      <3>2. QED
        BY <2>1, <2>4, <2>5, <3>1, GoBackKeeps
    <2>15. QED
      BY <1>2, <2>6, <2>7, <2>8, <2>9, <2>10, <2>11, <2>12, <2>13, <2>14
  <1>3. QED
    BY <1>1, <1>2, OpenKeeps DEF UserStep

\* The windows' invariant holds in every reachable state.
THEOREM WindowsInvariant ==
  Spec => [](IInv /\ WInv)
  <1>1. IInv /\ WInv /\ [Next]_vars => WInv'
    <2>1. SUFFICES ASSUME IInv, WInv, [Next]_vars PROVE WInv'
      OBVIOUS
    <2>2. CASE Next
      BY <2>1, <2>2, NetStepKeeps, MainStepKeeps, UserStepKeeps, Zenon DEF Next
    <2>3. CASE UNCHANGED vars
      <3>1. /\ UNCHANGED <<ctx, task, fetch, browsers, asked>> /\ sock' = sock
            /\ order' = order /\ focused' = focused /\ inputs' = inputs
        BY <2>3 DEF vars, gui
      <3>2. OrderKept
        BY <2>1, <3>1 DEF OrderKept, WInv, WindowTypes
      <3>3. Peer' /\ sock' \in SocketType
        BY <2>1, <3>1 DEF WInv, TaskTypes, Peer, PageFromServer, task
      <3>4. QED
        BY <2>1, <3>1, <3>2, <3>3, OthersKeep DEF WInv, TaskTypes, ctx
    <2>4. QED
      BY <2>1, <2>2, <2>3
  <1>2. QED
    BY <1>1, StacksInvariant, WindowsInit, PTL DEF Spec

\* Every variable keeps its type for any number of windows and requests.
THEOREM TypeCorrect ==
  Spec => []TypeOK
  <1>1. IInv /\ WInv => TypeOK
    <2>1. SUFFICES ASSUME IInv, WInv PROVE TypeOK
      OBVIOUS
    <2>2. WindowTypes /\ TaskTypes
      BY <2>1 DEF WInv
    <2>3. ASSUME NEW w \in Ids
          PROVE  /\ browsers[w].url_input \in Address
                 /\ browsers[w].current_url \in Address
                 /\ browsers[w].pending_url \in Address
                 /\ browsers[w].history \in Seq(Address \ {NoUrl})
                 /\ browsers[w].doc \in DocType
      <3>1. browsers[w] \in BrowserType
        BY <2>2 DEF Ids, WindowTypes
      <3>2. QED
        BY <3>1 DEF BrowserType, Given
    <2>4. Open \subseteq Ids /\ focused \in Open \cup {0}
      BY <2>2, OpenIsHas DEF WindowTypes
    <2>5. DOMAIN asked = Ids
      BY <2>2 DEF WindowTypes, Ids
    <2>6. QED
      BY <2>1, <2>2, <2>3, <2>4, <2>5, SMTT(20)
      DEF TypeOK, IInv, WindowTypes, TaskTypes, FetchType, Phases
  <1>2. QED
    BY <1>1, WindowsInvariant, PTL

\* A page comes from the server of the last redirect, whatever the socket was
\* left with, unless a terminal command changed the socket under the fetch.
THEOREM PeerCorrect ==
  Spec => []PageFromServer
  <1>1. WInv => PageFromServer
    BY DEF WInv, Peer
  <1>2. QED
    BY <1>1, WindowsInvariant, PTL

\* No window ever shows the result of a request made in another one.
THEOREM OwnResultsCorrect ==
  Spec => []OwnResults
  <1>1. WInv => OwnResults
    <2>1. SUFFICES ASSUME WInv, NEW w \in Ids, browsers[w].doc.asked # NoUrl
                   PROVE  \E i \in DOMAIN asked[w] : asked[w][i] = browsers[w].doc.asked
      BY DEF OwnResults
    <2>2. w \in 1..Len(browsers) /\ asked[w] \in Seq(Given)
      BY <2>1 DEF WInv, WindowTypes, Ids
    <2>3. Has(asked[w], browsers[w].doc.asked)
      BY <2>1, <2>2, SMTT(20) DEF WInv, Requests
    <2>4. QED
      BY <2>2, <2>3 DEF Has
  <1>2. QED
    BY <1>1, WindowsInvariant, PTL

\* An open window with no request waiting and no fetch of its own shows the
\* answer to the latest request made in it.
THEOREM LatestCorrect ==
  Spec => []LatestShown
  <1>1. WInv => LatestShown
    <2>1. SUFFICES ASSUME WInv, NEW w \in Open
                   PROVE  \/ browsers[w].pending_url # NoUrl
                          \/ NET_RUNNING /\ NET_WIN_ID = w
                          \/ asked[w] = <<>>
                          \/ /\ browsers[w].doc.kind \in {"page", "error"}
                             /\ browsers[w].doc.asked = LastAsked(w)
      BY DEF LatestShown
    <2>2. Has(order, w)
      BY <2>1, OpenIsHas DEF WInv
    <2>3. QED
      BY <2>1, <2>2 DEF WInv, Answered
  <1>2. QED
    BY <1>1, WindowsInvariant, PTL
=============================================================================
