------------------------------- MODULE NetTask -------------------------------
(***************************************************************************)
(* The page download beside the desktop: kernel/src/task.rs, the browser   *)
(* windows of gui/mod.rs that order downloads, and the fetch of browser.rs *)
(* and crypto/tls.rs over the one TCP socket of drivers/network.rs.        *)
(*                                                                         *)
(* There are two stacks and one core.  Main is the desktop loop; net runs  *)
(* fetch_and_render.  They switch by hand: net in yield_to_main, main in   *)
(* start_fetch and tick_network.  A saved stack pointer is modelled by the *)
(* stack it points into and the place in it, and is worth loading only     *)
(* while that stack is suspended at that place.                            *)
(***************************************************************************)
EXTENDS Integers, Sequences, Retain

CONSTANTS
    Urls,           \* what navigate is called with
    Https,          \* the URLs whose scheme is https
    Texts,          \* address-bar contents that are not URLs, the empty one included
    UrlOf,          \* build_navigate_url on the non-empty texts
    MAX_WINDOWS,    \* bound on browser windows ever opened
    MAX_INPUTS,     \* bound on user inputs
    MAX_FETCHES,    \* requests of one fetch (5 in the code)
    MAX_YIELDS      \* desktop frames within one deadline

\* The empty string: no URL, no text, no peer.
NoUrl == ""

ASSUME UrlAssumption ==
    /\ Https \subseteq Urls
    /\ NoUrl \in Texts \ Urls
    /\ UrlOf \in [Texts \ {NoUrl} -> Urls]

ASSUME BoundAssumption ==
    /\ MAX_WINDOWS \in Nat
    /\ MAX_INPUTS \in Nat
    /\ MAX_FETCHES \in Nat \ {0}
    /\ MAX_YIELDS \in Nat

VARIABLES
    cpu,            \* the stack that runs: "main", "net", or "lost"
    main,           \* where main is: "loop", in "start"_fetch, in "tick"_network
    MAIN_RSP, NET_RSP,
    NET_RUNNING, NET_DONE, NET_WIN_ID, PENDING_URL, FETCH_RESULT,
    fetch,          \* locals of fetch_and_render and of what it calls
    sock,           \* the TCP socket: its peer, NoUrl when it is closed, and
                    \* (ghost) the stack that last connected or closed it
    browsers,       \* the BrowserState of every window ever opened
    order,          \* the open windows, topmost last
    focused,        \* the focused window, 0 if none
    inputs,         \* inputs so far
    asked           \* ghost: per window, the URLs requested, in order

ctx == <<cpu, main, MAIN_RSP, NET_RSP>>
task == <<NET_RUNNING, NET_DONE, NET_WIN_ID, PENDING_URL, FETCH_RESULT>>
gui == <<browsers, order, focused, inputs, asked>>
vars == <<ctx, task, fetch, sock, gui>>

Ids == DOMAIN browsers
Open == {order[i] : i \in DOMAIN order}

Socket(peer, by) == [peer |-> peer, by |-> by]
Closed == Socket(NoUrl, "net")

\* What a window shows.  `asked` is the URL of the request it stems from,
\* `from` the socket its bytes came from.
Doc(kind, url, from) == [kind |-> kind, asked |-> url, from |-> from]
NoResult == Doc("none", NoUrl, Closed)

\* BrowserState::new
NewBrowser ==
    [url_input |-> NoUrl, url_focused |-> TRUE, current_url |-> NoUrl,
     pending_url |-> NoUrl, history |-> <<>>, doc |-> Doc("text", NoUrl, Closed)]

NoFetch == [phase |-> "none", url |-> NoUrl, current |-> NoUrl, tries |-> 0, left |-> 0]

NoContext == [stack |-> "none", place |-> "none", locals |-> NoFetch]

Init ==
    /\ cpu = "main" /\ main = "loop"
    /\ MAIN_RSP = NoContext /\ NET_RSP = NoContext
    /\ NET_RUNNING = FALSE /\ NET_DONE = FALSE /\ NET_WIN_ID = 0
    /\ PENDING_URL = NoUrl /\ FETCH_RESULT = NoResult
    /\ fetch = NoFetch
    /\ sock = Closed
    /\ browsers = <<>> /\ order = <<>> /\ focused = 0
    /\ inputs = 0
    /\ asked = <<>>

-----------------------------------------------------------------------------
(* The context switch.                                                     *)

\* What a stack pointer gives back: a stack, and how deep in it one is.
Context(stack, place, locals) == [stack |-> stack, place |-> place, locals |-> locals]

Other == IF cpu = "main" THEN "net" ELSE "main"

\* The context in which a stack is suspended.
Suspended(stack) ==
    IF stack = "main" THEN Context("main", main, NoFetch) ELSE Context("net", "fetch", fetch)

\* The context that the running stack saves.
Saved == IF cpu = "main" THEN Context("main", main', NoFetch) ELSE Context("net", "fetch", fetch')

\* Any other stack pointer than that of the suspended stack returns into
\* frames that are in use or gone.
Resumed(rsp) == IF rsp = Suspended(Other) THEN Other ELSE "lost"

\* _ctx_switch(&mut NET_RSP, &MAIN_RSP)
SwitchToMain ==
    /\ UNCHANGED <<main, MAIN_RSP>>
    /\ NET_RSP' = Saved
    /\ cpu' = Resumed(MAIN_RSP)

\* Mutant: the save is left to start_fetch.
SwitchToNetNoSave ==
    /\ cpu' = Resumed(NET_RSP)
    /\ UNCHANGED <<MAIN_RSP, NET_RSP>>

\* _ctx_switch(&mut MAIN_RSP, &NET_RSP)
SwitchToNet ==
    /\ MAIN_RSP' = Saved
    /\ cpu' = Resumed(NET_RSP)
    /\ UNCHANGED NET_RSP

\* _ctx_start_net: main is saved, net starts on an empty stack.
StartNet ==
    /\ MAIN_RSP' = Saved
    /\ cpu' = "net"
    /\ UNCHANGED NET_RSP

-----------------------------------------------------------------------------
(* The fetch, on the net stack.                                            *)

InPhase(p) == cpu = "net" /\ fetch.phase = p

\* Mutant: a wait loop without its deadline.
YieldToMainNoDeadline ==
    /\ cpu = "net"
    /\ fetch.phase \in {"dns", "connect", "handshake", "send", "read"}
    /\ UNCHANGED <<task, fetch, sock, gui>>
    /\ SwitchToMain

\* One more round of a wait loop: its deadline has not passed, so it yields.
YieldToMain ==
    /\ cpu = "net"
    /\ fetch.phase \in {"dns", "connect", "handshake", "send", "read"}
    /\ fetch.left > 0
    /\ fetch' = [fetch EXCEPT !.left = @ - 1]
    /\ SwitchToMain
    /\ UNCHANGED <<task, sock, gui>>

Enter(p) == fetch' = [fetch EXCEPT !.phase = p, !.left = MAX_YIELDS]

\* The end of net_task_main: store the result and switch to main for good.
Finish(result) ==
    /\ fetch' = [NoFetch EXCEPT !.phase = "halted", !.current = fetch.current]
    /\ FETCH_RESULT' = result
    /\ NET_DONE' = TRUE
    /\ SwitchToMain
    /\ UNCHANGED <<NET_RUNNING, NET_WIN_ID, PENDING_URL, gui>>

Fail == Finish(Doc("error", fetch.url, Closed))

\* The head of net_task_main.
NetTaskMain ==
    /\ InPhase("entry")
    /\ fetch' = [phase |-> "dns", url |-> PENDING_URL, current |-> PENDING_URL,
                 tries |-> MAX_FETCHES, left |-> MAX_YIELDS]
    /\ PENDING_URL' = NoUrl
    /\ UNCHANGED <<ctx, NET_RUNNING, NET_DONE, NET_WIN_ID, FETCH_RESULT, sock, gui>>

\* Mutant: a connection that lingers is not aborted.
TcpConnectKeepsOld(u) ==
    sock' = Socket(IF sock.peer = NoUrl THEN u ELSE sock.peer, "net")

\* tcp_connect: whatever the socket was doing is aborted.
TcpConnect(u) == sock' = Socket(u, "net")

TcpClose == sock' = Closed

\* dns_resolve_a, or an address that needs none, and then tcp_connect.
Resolve ==
    /\ InPhase("dns")
    /\ \/ /\ TcpConnect(fetch.current)
          /\ Enter("connect")
          /\ UNCHANGED <<ctx, task, gui>>
       \/ Fail /\ UNCHANGED sock        \* no address, or no network

\* The loop on tcp_is_connected; only a failure closes the socket.
Connect ==
    /\ InPhase("connect")
    /\ \/ /\ Enter(IF fetch.current \in Https THEN "handshake" ELSE "send")
          /\ UNCHANGED <<ctx, task, sock, gui>>
       \/ TcpClose /\ Fail

\* TlsConnection::open
Handshake ==
    /\ InPhase("handshake")
    /\ \/ Enter("send") /\ UNCHANGED <<ctx, task, sock, gui>>
       \/ TcpClose /\ Fail

\* The request.  An error returns with the socket as it is.
Send ==
    /\ InPhase("send")
    /\ \/ Enter("read") /\ UNCHANGED <<ctx, task, sock, gui>>
       \/ Fail /\ UNCHANGED sock

\* No byte arrived.  https_get does not close after a failed first read;
\* an end of stream closes on both paths.
ReadNothing ==
    /\ InPhase("read")
    /\ Fail
    /\ \/ TcpClose
       \/ fetch.current \in Https /\ UNCHANGED sock

\* A response that redirects to u: the next round of fetch_and_render, or
\* the end of its rounds.
Redirect(u) ==
    /\ InPhase("read")
    /\ TcpClose
    /\ IF fetch.tries > 1
       THEN /\ fetch' = [fetch EXCEPT !.phase = "dns", !.current = u,
                                      !.tries = @ - 1, !.left = MAX_YIELDS]
            /\ UNCHANGED <<ctx, task, gui>>
       ELSE Fail

\* A redirect to a relative path that cannot be resolved.
RedirectNowhere ==
    /\ InPhase("read")
    /\ TcpClose
    /\ Fail

\* A response with a page: the bytes are those of the socket's peer.
ReadPage ==
    /\ InPhase("read")
    /\ TcpClose
    /\ Finish(Doc("page", fetch.url, sock))

NetStep ==
    \/ NetTaskMain
    \/ YieldToMain
    \/ Resolve
    \/ Connect
    \/ Handshake
    \/ Send
    \/ ReadNothing
    \/ \E u \in Urls : Redirect(u)
    \/ RedirectNowhere
    \/ ReadPage

-----------------------------------------------------------------------------
(* handle_pending_browser_fetch, once per frame on the main stack.         *)

AtLoop == cpu = "main" /\ main = "loop"

\* Phase A: a slice for net.
TickNetwork ==
    /\ AtLoop
    /\ NET_RUNNING
    /\ ~NET_DONE
    /\ main' = "tick"
    /\ SwitchToNet
    /\ UNCHANGED <<task, fetch, sock, gui>>

TickReturns ==
    /\ cpu = "main"
    /\ main = "tick"
    /\ ~NET_DONE
    /\ main' = "loop"
    /\ UNCHANGED <<cpu, MAIN_RSP, NET_RSP, task, fetch, sock, gui>>

\* Mutant: NET_DONE is not reset.
TakeResultKeepsDone ==
    /\ NET_RUNNING' = FALSE
    /\ FETCH_RESULT' = NoResult
    /\ UNCHANGED <<NET_DONE, NET_WIN_ID, PENDING_URL>>

TakeResult ==
    /\ NET_RUNNING' = FALSE
    /\ NET_DONE' = FALSE
    /\ FETCH_RESULT' = NoResult
    /\ UNCHANGED <<NET_WIN_ID, PENDING_URL>>

\* Mutant: a delivery also clears pending_url.
ShownClearsPending(b, result) ==
    [b EXCEPT !.doc = result, !.current_url = b.url_input, !.pending_url = NoUrl]

\* A result in the window that asked: a page is shown under the text the
\* address bar has by now.
Shown(b, result) ==
    IF result.kind = "page"
    THEN [b EXCEPT !.doc = result, !.current_url = b.url_input]
    ELSE [b EXCEPT !.doc = result]

\* Mutant: the topmost window instead of the one that asked.
ReceiversTop == IF order = <<>> THEN {} ELSE {order[Len(order)]}

\* The window a result is for, if it is still open.
Receivers == {NET_WIN_ID} \cap Open

\* Phase A, net is done.
Deliver ==
    /\ cpu = "main"
    /\ main \in {"loop", "tick"}
    /\ NET_RUNNING
    /\ NET_DONE
    /\ main' = "loop"
    /\ TakeResult
    /\ browsers' = [w \in Ids |-> IF w \in Receivers
                                  THEN Shown(browsers[w], FETCH_RESULT)
                                  ELSE browsers[w]]
    /\ UNCHANGED <<cpu, MAIN_RSP, NET_RSP, fetch, sock, order, focused, inputs, asked>>

\* Phase B: the topmost window with a pending URL, if there is one.
Waiting ==
    {w \in Open : \E i \in DOMAIN order :
        /\ order[i] = w /\ browsers[w].pending_url # NoUrl
        /\ \A j \in DOMAIN order : j > i => browsers[order[j]].pending_url = NoUrl}

StartFetch ==
    /\ AtLoop
    /\ ~NET_RUNNING
    /\ \E w \in Waiting :
       /\ browsers' = [browsers EXCEPT ![w].pending_url = NoUrl]
       /\ PENDING_URL' = browsers[w].pending_url
       /\ NET_WIN_ID' = w
    /\ NET_DONE' = FALSE
    /\ NET_RUNNING' = TRUE
    /\ fetch' = [NoFetch EXCEPT !.phase = "entry"]
    /\ main' = "start"
    /\ StartNet
    /\ UNCHANGED <<FETCH_RESULT, sock, order, focused, inputs, asked>>

StartReturns ==
    /\ cpu = "main"
    /\ main = "start"
    /\ main' = "loop"
    /\ UNCHANGED <<cpu, MAIN_RSP, NET_RSP, task, fetch, sock, gui>>

MainStep ==
    \/ TickNetwork
    \/ TickReturns
    \/ Deliver
    \/ StartFetch
    \/ StartReturns

-----------------------------------------------------------------------------
(* The user, between two frames.                                           *)

Input ==
    /\ AtLoop
    /\ inputs < MAX_INPUTS
    /\ inputs' = inputs + 1
    /\ UNCHANGED <<ctx, task, fetch>>

\* focus_window
Raise(w) ==
    /\ order' = Append(Retain(order, w), w)
    /\ focused' = w

Loading(b, u) ==
    [b EXCEPT !.url_input = u, !.url_focused = FALSE, !.pending_url = u,
              !.doc = Doc("loading", u, Closed)]

\* BrowserState::navigate
Navigate(w, u) ==
    LET b == browsers[w]
        leave == b.current_url \notin {NoUrl, u}
    IN  /\ browsers' = [browsers EXCEPT ![w] =
              [Loading(b, u) EXCEPT
                  !.history = IF leave THEN Append(@, b.current_url) ELSE @]]
        /\ asked' = [asked EXCEPT ![w] = Append(@, u)]

\* BrowserState::go_back
GoBack(w) ==
    LET b == browsers[w]
        n == Len(b.history)
    IN
    IF b.history = <<>>
    THEN UNCHANGED <<browsers, asked>>
    ELSE /\ browsers' = [browsers EXCEPT ![w] =
               [Loading(b, b.history[n]) EXCEPT !.history = SubSeq(@, 1, n - 1)]]
         /\ asked' = [asked EXCEPT ![w] = Append(@, b.history[n])]

\* The desktop icon: create_window with a new BrowserState.
OpenBrowser ==
    /\ AtLoop
    /\ Len(browsers) < MAX_WINDOWS
    /\ browsers' = Append(browsers, NewBrowser)
    /\ asked' = Append(asked, <<>>)
    /\ order' = Append(order, Len(browsers) + 1)
    /\ focused' = Len(browsers) + 1
    /\ UNCHANGED <<ctx, task, fetch, sock, inputs>>

\* close_window focuses no other window.
CloseWindow(w) ==
    /\ Input
    /\ order' = Retain(order, w)
    /\ focused' = IF focused = w THEN 0 ELSE focused
    /\ UNCHANGED <<sock, browsers, asked>>

\* A click raises the window first, then reaches the back button, ...
ClickBack(w) ==
    /\ Input
    /\ Raise(w)
    /\ GoBack(w)
    /\ UNCHANGED sock

\* ... the address bar, ...
ClickBar(w) ==
    /\ Input
    /\ Raise(w)
    /\ browsers' = [browsers EXCEPT ![w].url_focused = TRUE]
    /\ UNCHANGED <<sock, asked>>

\* ... or a link of the page.
ClickLink(w, u) ==
    /\ browsers[w].doc.kind = "page"
    /\ Input
    /\ Raise(w)
    /\ Navigate(w, u)
    /\ UNCHANGED sock

\* Keys go to the focused window.
Key(w) ==
    /\ w = focused
    /\ Input
    /\ UNCHANGED <<sock, order, focused>>

\* Enter in the address bar.
KeyEnter(w) ==
    LET text == browsers[w].url_input IN
    /\ Key(w)
    /\ browsers[w].url_focused
    /\ text # NoUrl
    /\ Navigate(w, IF text \in Urls THEN text ELSE UrlOf[text])

\* A character, or a backspace, in the address bar.
KeyEdit(w, text) ==
    /\ Key(w)
    /\ browsers[w].url_focused
    /\ browsers' = [browsers EXCEPT ![w].url_input = text]
    /\ UNCHANGED asked

KeyEscape(w) ==
    /\ Key(w)
    /\ browsers[w].url_focused
    /\ browsers' = [browsers EXCEPT ![w].url_focused = FALSE]
    /\ UNCHANGED asked

\* 'u' outside the address bar
KeyU(w) ==
    /\ Key(w)
    /\ ~browsers[w].url_focused
    /\ browsers' = [browsers EXCEPT ![w].url_focused = TRUE, ![w].url_input = NoUrl]
    /\ UNCHANGED asked

\* Backspace outside the address bar
KeyBack(w) ==
    /\ Key(w)
    /\ ~browsers[w].url_focused
    /\ GoBack(w)

\* A network command of a terminal window runs on the main stack, whether or
\* not a fetch is under way, and leaves the socket closed, connected, or as it
\* was.  Where it waits it calls yield_to_main, which halts when no fetch runs
\* and switches stacks when one does.
TerminalCommand(u) ==
    /\ AtLoop
    /\ inputs < MAX_INPUTS
    /\ inputs' = inputs + 1
    /\ \/ UNCHANGED ctx
       \/ NET_RUNNING /\ SwitchToMain
    /\ sock' \in {Socket(NoUrl, "main"), Socket(u, "main"), sock}
    /\ UNCHANGED <<task, fetch, browsers, order, focused, asked>>

UserStep ==
    \/ OpenBrowser
    \/ \E u \in Urls : TerminalCommand(u)
    \/ \E w \in Open :
          \/ CloseWindow(w)
          \/ ClickBack(w)
          \/ ClickBar(w)
          \/ \E u \in Urls : ClickLink(w, u)
          \/ KeyEnter(w)
          \/ \E text \in Texts \cup Urls : KeyEdit(w, text)
          \/ KeyEscape(w)
          \/ KeyU(w)
          \/ KeyBack(w)

-----------------------------------------------------------------------------

Next == NetStep \/ MainStep \/ UserStep

\* The desktop loop runs for ever and net runs whenever it has the core; the
\* user need not do anything.
Spec == Init /\ [][Next]_vars /\ WF_vars(MainStep) /\ WF_vars(NetStep)

-----------------------------------------------------------------------------
(* Properties.                                                             *)

Address == Urls \cup Texts
SocketType == [peer : Address, by : {"net", "main"}]
DocType == [kind : {"none", "text", "loading", "page", "error"},
            asked : Address, from : SocketType]

\* Every variable keeps its type, and no window is open that was not opened.
TypeOK ==
    /\ cpu \in {"main", "net", "lost"}
    /\ main \in {"loop", "start", "tick"}
    /\ MAIN_RSP.stack \in {"none", "main"}
    /\ NET_RSP.stack \in {"none", "main", "net"}
    /\ NET_RUNNING \in BOOLEAN /\ NET_DONE \in BOOLEAN
    /\ NET_WIN_ID \in Nat
    /\ PENDING_URL \in Address
    /\ FETCH_RESULT \in DocType
    /\ fetch \in [phase : {"none", "entry", "dns", "connect", "handshake",
                           "send", "read", "halted"},
                  url : Address, current : Address,
                  tries : 0 .. MAX_FETCHES, left : 0 .. MAX_YIELDS]
    /\ sock \in SocketType
    /\ \A w \in Ids :
          /\ browsers[w].url_input \in Address
          /\ browsers[w].current_url \in Address
          /\ browsers[w].pending_url \in Address
          /\ browsers[w].history \in Seq(Address \ {NoUrl})
          /\ browsers[w].doc \in DocType
    /\ Open \subseteq Ids
    /\ focused \in Open \cup {0}
    /\ inputs \in 0 .. MAX_INPUTS
    /\ DOMAIN asked = Ids

\* A switch resumes the stack that is suspended: yield_to_main called by the
\* fetch, tick_network and start_fetch never load a stack pointer whose frames
\* are in use or gone.  The one caller that does is a network command of a
\* terminal that waits while a fetch is under way.
ContextsLive ==
    [][cpu' = "lost" => NET_RUNNING /\ \E u \in Urls : TerminalCommand(u)]_vars

\* "Yields to the GUI for one frame, then returns" (the comment on
\* yield_to_main): whoever calls it, the stack it switches to is suspended and
\* can come back.
YieldReturns == cpu # "lost"

\* The flags, the result and the state of the net stack tell one story:
\* NET_DONE stands exactly while an undelivered result does; net has something
\* left to do exactly while NET_RUNNING stands without NET_DONE; and without
\* NET_RUNNING no URL waits in PENDING_URL.
ResultHeld ==
    /\ NET_DONE <=> FETCH_RESULT # NoResult
    /\ NET_DONE => NET_RUNNING
    /\ fetch.phase \in {"none", "halted"} <=> ~NET_RUNNING \/ NET_DONE
    /\ ~NET_RUNNING => PENDING_URL = NoUrl

\* A window never shows the result of a request another window made, also
\* when windows are raised, closed and opened during the fetch (NET_WIN_ID).
OwnResults ==
    \A w \in Ids :
        browsers[w].doc.asked # NoUrl =>
            \E i \in DOMAIN asked[w] : asked[w][i] = browsers[w].doc.asked

\* A page comes from the server of the last redirect, whatever connection an
\* error path or a terminal command left in the socket that tcp_connect takes
\* over.  Only a terminal command after that tcp_connect, while the fetch
\* waits, can put another peer into the socket the fetch reads from.
PageFromServer ==
    FETCH_RESULT.kind = "page" =>
        \/ FETCH_RESULT.from.peer = fetch.current
        \/ FETCH_RESULT.from.by = "main"

\* The last URL asked for in a window.
LastAsked(w) == asked[w][Len(asked[w])]

\* Once a window has no pending URL and no fetch under way, it shows the page
\* or the error of the latest request made in it, even if that was made while
\* an earlier fetch was still running.
LatestShown ==
    \A w \in Open :
        \/ browsers[w].pending_url # NoUrl
        \/ NET_RUNNING /\ NET_WIN_ID = w
        \/ asked[w] = <<>>
        \/ /\ browsers[w].doc.kind \in {"page", "error"}
           /\ browsers[w].doc.asked = LastAsked(w)

\* The URL of the page a window shows is in current_url (the comment on
\* BrowserState::current_url).
CurrentUrlShown ==
    \A w \in Open :
        browsers[w].doc.kind = "page" => browsers[w].current_url = browsers[w].doc.asked

\* No window says "Loading" for ever: whatever the servers do and terminal
\* commands do to the socket, every request is answered, or its window is
\* closed, once the inputs end, unless a waiting command lost the stacks.
LoadingEnds ==
    \A w \in 1 .. MAX_WINDOWS :
        w \in Open /\ browsers[w].doc.kind = "loading"
            ~> w \notin Open \/ browsers[w].doc.kind # "loading" \/ cpu = "lost"
=============================================================================
