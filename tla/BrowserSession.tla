--------------------------- MODULE BrowserSession ---------------------------
(***************************************************************************)
(* The automated browser: tools/browser_session.py with the pinned proxy   *)
(* its traffic goes through (security/egress_proxy.py).  Several threads   *)
(* may hold the one session of an agent: a turn and its subagent workers.  *)
(*                                                                         *)
(* A site is a host; what a page of it shows is plain or sensitive.  The   *)
(* addresses behind a name may change between any two looks at them, and a *)
(* page may load from other hosts, move on and offer downloads by itself.  *)
(* Playwright is external: one operation of its page is one step, which    *)
(* may fail, and its synchronous objects answer only the thread that has   *)
(* started it: to any other thread every operation raises.                 *)
(***************************************************************************)
EXTENDS Naturals, FiniteSets

CONSTANTS
  Surfer,         \* threads that call browser tools
  BrowserAsk,     \* what they may call: [kind, host, secret, file, direct]
  Host,           \* names of sites
  Literal,        \* those that are forbidden as they are written
  SensitiveSite,  \* sites whose pages are about login, payment or accounts
  MaxAsks, MaxMoves, MaxRequests, MaxDownloads    \* bounds on what happens

ASSUME BrowserAssumption ==
  /\ Literal \cup SensitiveSite \subseteq Host
  /\ {MaxAsks, MaxMoves, MaxRequests, MaxDownloads} \subseteq Nat
  /\ "nobody" \notin Surfer /\ "none" \notin Host
  /\ BrowserAsk # {} /\ \A a \in BrowserAsk : a.host \in Host

VARIABLES
  browserOn, sensitiveActions, secretTyping,      \* settings of the session
  closed,         \* _closed
  pw, proxy, browser,     \* what _ensure has started so far; pw by whom
  page,           \* no page, a blank one, or a host
  dns, moves,     \* whether a name leads to a public address
  ask, spot,      \* call of a thread, and its place in it
  asks,
  requests,       \* of the browser, on their way: [host, to, main]
  peers,          \* (observation) addresses connected to
  last, arrived,  \* _last_download, and downloads so far
  gone,           \* those that went with a browser that was closed
  saving,         \* the download a thread is saving
  saves           \* (observation) times a download was saved

browserVars == <<browserOn, sensitiveActions, secretTyping, closed, pw, proxy,
                 browser, page, dns, moves, ask, spot, asks, requests, peers,
                 last, arrived, gone, saving, saves>>
settings == <<browserOn, sensitiveActions, secretTyping>>
pieces == <<pw, proxy, browser>>
Nobody == "nobody"
Usable(s) == pw \in {Nobody, s}
netVars == <<dns, moves, requests, peers>>
downloadVars == <<last, arrived, gone, saving, saves>>

Address == {"public", "private"}
Unresolved == "unresolved"
NoHost == "none"
Blank == "blank"
ReadKinds == {"state", "page_text", "wait", "screenshot"}
FormKinds == {"scroll", "click", "type", "select", "submit", "upload"}

\* forbidden_open_target, peer_check and resolve_pinned: what is written, what
\* it leads to as Python sees it, what it leads to as the proxy sees it.
UrlAllowed(h) == h \notin Literal
PeerAllowed(h) == dns[h] = "public"
Pinned(h) == dns[h]

\* The names of the declared parameters reach the handlers as keywords, and
\* three handlers know no `path`.
HandlerTakes(a) ==
  a.direct \/ (a.kind \notin {"screenshot", "upload"} /\ ~(a.kind = "download" /\ a.file # "none"))

\* _resolve_workspace_file; what an upload reads has to be there.
FileAllowed(a) ==
  /\ a.file # "outside"
  /\ a.kind = "upload" => a.file = "present"

BrowserInit ==
  /\ browserOn \in BOOLEAN /\ closed = FALSE
  /\ sensitiveActions = FALSE /\ secretTyping = FALSE
  /\ pw = Nobody /\ proxy = FALSE /\ browser = FALSE /\ page = NoHost
  /\ dns \in [Host -> Address] /\ moves = 0
  /\ ask = [s \in Surfer |-> CHOOSE a \in BrowserAsk : TRUE]
  /\ spot = [s \in Surfer |-> "idle"] /\ asks = 0
  /\ requests = {} /\ peers = {}
  /\ last = 0 /\ arrived = 0 /\ gone = 0
  /\ saving = [s \in Surfer |-> 0] /\ saves = [d \in 1 .. MaxDownloads |-> 0]

Turn(s, place) == spot' = [spot EXCEPT ![s] = place]

-----------------------------------------------------------------------------
(* A call.  Refusals and errors are alike: the thread is idle again.       *)

NotCallable(a) ==
  \/ ~HandlerTakes(a) \/ ~browserOn \/ closed
  \/ a.kind = "open" /\ ~UrlAllowed(a.host)
  \/ a.kind \in {"screenshot", "download", "upload"} /\ ~FileAllowed(a)
  \/ a.kind = "type" /\ a.secret /\ ~secretTyping

CallTool(s, a) ==
  /\ spot[s] = "idle" /\ asks < MaxAsks
  /\ asks' = asks + 1 /\ ask' = IF NotCallable(a) THEN ask ELSE [ask EXCEPT ![s] = a]
  /\ Turn(s, CASE NotCallable(a) -> "idle"
               [] ~NotCallable(a) /\ a.kind \in FormKinds -> "gate"
               [] ~NotCallable(a) /\ a.kind = "download" -> "save"
               [] OTHER -> "act")
  /\ UNCHANGED <<settings, closed, pieces, page, netVars, downloadVars>>

\* _ensure: Playwright, proxy, browser, context, page.  What was started before
\* something fails stays, and the next attempt takes it from there.
Ensure(s, ok) ==
  \E reached \in {"nothing", "playwright", "proxy", "browser", "page"} :
    /\ ok <=> reached = "page"
    /\ reached \in {"browser", "page"} => Usable(s)
    /\ pw' = IF reached = "nothing" \/ ~Usable(s) THEN pw ELSE s
    /\ proxy' = (proxy \/ reached \in {"proxy", "browser", "page"})
    /\ browser' = (browser \/ reached \in {"browser", "page"})

\* _gate_sensitive reads the page, which starts the browser; a page that cannot
\* be read passes.  Typing a secret asks for the page once more.
Gate(s) ==
  LET types == ask[s].kind = "type" /\ ask[s].secret
  IN /\ spot[s] = "gate"
     /\ \E seen \in {NoHost} \cup IF Usable(s) THEN {page} ELSE {} :
          Turn(s, IF seen \in SensitiveSite /\ (~sensitiveActions \/ types)
                  THEN "idle" ELSE "act")
     /\ IF page = NoHost /\ (~sensitiveActions \/ types)
        THEN \E ok \in BOOLEAN : Ensure(s, ok) /\ page' = IF ok THEN Blank ELSE page
        ELSE UNCHANGED <<pieces, page>>
     /\ UNCHANGED <<settings, closed, netVars, ask, asks, downloadVars>>

ActFails(s) ==
  /\ spot[s] = "act"
  /\ Turn(s, "idle")
  /\ IF page = NoHost THEN Ensure(s, FALSE) ELSE UNCHANGED pieces
  /\ UNCHANGED <<settings, closed, page, netVars, ask, asks, downloadVars>>

\* The page's request for its main document passes the route handler's checks
\* and goes to the proxy.  The resolved peer is only judged if Playwright tells
\* that the request is for the main document, which its Request need not.
Request(h, main) == [host |-> h, to |-> Unresolved, main |-> main]
RouteGuard(h, told) == UrlAllowed(h) /\ (told => PeerAllowed(h))

OnPage(s) ==
  /\ spot[s] = "act" /\ ask[s].kind # "open" /\ Usable(s)
  /\ Turn(s, "idle")
  /\ IF page = NoHost THEN Ensure(s, TRUE) /\ page' = Blank
     ELSE UNCHANGED <<pieces, page>>
  /\ UNCHANGED <<settings, closed, netVars, ask, asks, downloadVars>>

\* goto: what the route handler aborts raises.
Navigate(s) ==
  /\ spot[s] = "act" /\ ask[s].kind = "open" /\ Usable(s)
  /\ IF page = NoHost THEN Ensure(s, TRUE) /\ page' = Blank
     ELSE UNCHANGED <<pieces, page>>
  /\ \E told \in BOOLEAN :
       IF RouteGuard(ask[s].host, told)
       THEN requests' = requests \cup {Request(ask[s].host, TRUE)} /\ Turn(s, "load")
       ELSE UNCHANGED requests /\ Turn(s, "idle")
  /\ UNCHANGED <<settings, closed, dns, moves, peers, ask, asks, downloadVars>>

\* Loaded, refused by the proxy, or given up on.
NavigationEnds(s) ==
  /\ spot[s] = "load"
  /\ Turn(s, "idle")
  /\ UNCHANGED <<settings, closed, pieces, page, netVars, ask, asks, downloadVars>>

\* configure, close_session: the owner's.
Configure(sens, sec) ==
  /\ browserOn /\ <<sens, sec>> # <<sensitiveActions, secretTyping>>
  /\ sensitiveActions' = sens /\ secretTyping' = sec
  /\ UNCHANGED <<browserOn, closed, pieces, page, netVars, ask, spot, asks,
                 downloadVars>>

CloseSession ==
  /\ ~closed /\ closed' = TRUE
  /\ pw' = Nobody /\ proxy' = FALSE /\ browser' = FALSE /\ page' = NoHost
  /\ requests' = {} /\ gone' = arrived
  /\ UNCHANGED <<settings, dns, moves, peers, ask, spot, asks, last, arrived,
                 saving, saves>>

-----------------------------------------------------------------------------
(* The network.                                                            *)

NameMoves(h, addr) ==
  /\ moves < MaxMoves /\ dns[h] # addr
  /\ dns' = [dns EXCEPT ![h] = addr] /\ moves' = moves + 1
  /\ UNCHANGED <<settings, closed, pieces, page, ask, spot, asks, requests,
                 peers, downloadVars>>

\* A script of the page loads something, or takes the page elsewhere; so does a
\* redirect, which the route handler does not see.
PageLoads(h, main) ==
  /\ page \in Host /\ Cardinality(requests) < MaxRequests
  /\ requests' = requests \cup {Request(h, main)}
  /\ UNCHANGED <<settings, closed, pieces, page, dns, moves, peers, ask, spot,
                 asks, downloadVars>>

\* resolve_pinned: one resolution, refused unless all of it is public.
ProxyResolves(r) ==
  /\ r \in requests /\ r.to = Unresolved
  /\ requests' = (requests \ {r}) \cup
                   (IF Pinned(r.host) = "public" THEN {[r EXCEPT !.to = Pinned(r.host)]}
                    ELSE {})
  /\ UNCHANGED <<settings, closed, pieces, page, dns, moves, peers, ask, spot,
                 asks, downloadVars>>

\* The connection is made to the name that was resolved a moment ago.
ProxyConnects_Name(r) ==
  /\ r \in requests /\ r.to # Unresolved
  /\ requests' = requests \ {r} /\ peers' = peers \cup {dns[r.host]}
  /\ page' = IF r.main THEN r.host ELSE page
  /\ UNCHANGED <<settings, closed, pieces, dns, moves, ask, spot, asks, downloadVars>>

\* _connect_ip, to the address itself, and the answer is relayed.
ProxyConnects(r) ==
  /\ r \in requests /\ r.to # Unresolved
  /\ requests' = requests \ {r} /\ peers' = peers \cup {r.to}
  /\ page' = IF r.main THEN r.host ELSE page
  /\ UNCHANGED <<settings, closed, pieces, dns, moves, ask, spot, asks, downloadVars>>

-----------------------------------------------------------------------------
(* Downloads: the last one is kept, in a field without a lock.             *)

\* on_download
DownloadArrives ==
  /\ page \in Host /\ arrived < MaxDownloads
  /\ arrived' = arrived + 1 /\ last' = arrived + 1
  /\ UNCHANGED <<settings, closed, pieces, page, netVars, ask, spot, asks,
                 gone, saving, saves>>

NothingToSave(s) ==
  /\ spot[s] = "save" /\ saving[s] = 0 /\ last = 0
  /\ Turn(s, "idle")
  /\ UNCHANGED <<settings, closed, pieces, page, netVars, ask, asks, downloadVars>>

TakeDownload(s) ==
  /\ spot[s] = "save" /\ saving[s] = 0 /\ last # 0
  /\ saving' = [saving EXCEPT ![s] = last]
  /\ UNCHANGED <<settings, closed, pieces, page, netVars, ask, spot, asks,
                 last, arrived, gone, saves>>

\* save_as raises: the download stays the last one.
SaveFails(s) ==
  /\ spot[s] = "save" /\ saving[s] # 0
  /\ Turn(s, "idle") /\ saving' = [saving EXCEPT ![s] = 0]
  /\ UNCHANGED <<settings, closed, pieces, page, netVars, ask, asks, last,
                 arrived, gone, saves>>

\* What a browser that still runs has offered can be saved, on its own thread.
CanSave(s) == spot[s] = "save" /\ saving[s] > gone /\ pw = s

SaveEnds_Kept(s) ==
  /\ CanSave(s)
  /\ Turn(s, "idle") /\ saving' = [saving EXCEPT ![s] = 0]
  /\ saves' = [saves EXCEPT ![saving[s]] = @ + 1]
  /\ UNCHANGED <<settings, closed, pieces, page, netVars, ask, asks, last,
                 arrived, gone>>

\* The field is cleared, whatever it holds by now.
SaveEnds(s) ==
  /\ CanSave(s)
  /\ Turn(s, "idle") /\ saving' = [saving EXCEPT ![s] = 0]
  /\ saves' = [saves EXCEPT ![saving[s]] = @ + 1] /\ last' = 0
  /\ UNCHANGED <<settings, closed, pieces, page, netVars, ask, asks, arrived,
                 gone>>

SurferStep(s) ==
  \/ \E a \in BrowserAsk : CallTool(s, a)
  \/ Gate(s) \/ OnPage(s) \/ Navigate(s) \/ NavigationEnds(s) \/ ActFails(s)
  \/ NothingToSave(s) \/ TakeDownload(s) \/ SaveFails(s) \/ SaveEnds(s)

NetworkStep ==
  \/ \E h \in Host : \/ \E addr \in Address : NameMoves(h, addr)
                     \/ \E main \in BOOLEAN : PageLoads(h, main)
  \/ \E r \in requests : ProxyResolves(r) \/ ProxyConnects(r)
  \/ DownloadArrives

BrowserNext ==
  \/ \E s \in Surfer : SurferStep(s)
  \/ NetworkStep
  \/ \E sens, sec \in BOOLEAN : Configure(sens, sec)
  \/ CloseSession

BrowserSpec == BrowserInit /\ [][BrowserNext]_browserVars

-----------------------------------------------------------------------------
(* Properties.                                                             *)

BrowserTypeOK ==
  /\ pw \in Surfer \cup {Nobody} /\ page \in Host \cup {NoHost, Blank}
  /\ ask \in [Surfer -> BrowserAsk]
  /\ spot \in [Surfer -> {"idle", "gate", "act", "load", "save"}]
  /\ closed \in BOOLEAN /\ proxy \in BOOLEAN /\ browser \in BOOLEAN
  /\ dns \in [Host -> Address]
  /\ requests \subseteq [host : Host, to : Address \cup {Unresolved}, main : BOOLEAN]
  /\ peers \subseteq Address
  /\ arrived \in 0 .. MaxDownloads /\ last \in 0 .. arrived /\ gone \in 0 .. arrived
  /\ saving \in [Surfer -> 0 .. arrived] /\ saves \in [1 .. MaxDownloads -> Nat]

\* Whatever names lead to between the checks of a request, its resolution and
\* its connection, and whoever starts it, a tool, a redirect or a script of the
\* page: the browser is connected to public addresses only, and to none before
\* the proxy runs.  (resolve_pinned, _connect_ip)
PeersAreReviewed ==
  /\ peers \subseteq {"public"}
  /\ requests # {} => proxy

\* One download is saved once, though a save fails and is tried again, and
\* though several threads ask for it.  (save_last_download)
SavedOnce == \A d \in 1 .. MaxDownloads : saves[d] <= 1
=============================================================================
