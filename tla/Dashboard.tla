----------------------------- MODULE Dashboard -----------------------------
(***************************************************************************)
(* WebSocketProvider (src/frontend/src/contexts/WebSocketContext.tsx), the *)
(* hub's client in the web frontend: it connects when it is mounted, and 5 *)
(* seconds after every connection that ends. All of it runs in the event   *)
(* loop of the browser, one callback at a time; the network and the        *)
(* unmounting may come between any two. Messages are left out.             *)
(***************************************************************************)
EXTENDS Naturals, FiniteSets

CONSTANT Sockets       \* the WebSocket objects there may be at a time

VARIABLES
  provider,      \* "new", "mounted" or "unmounted"
  usable,        \* the URL is one that the constructor takes
  sockets,       \* per object: "unused", "connecting", "open", or "ended"
                 \* when its close event is on the way
  ws,            \* what the variable ws refers to: a set of one, or of none
  reconnect,     \* the timer is set
  isConnected    \* what the pages are told

dashboardVars == <<provider, usable, sockets, ws, reconnect, isConnected>>

DashboardInit ==
  /\ provider = "new"
  /\ usable \in BOOLEAN
  /\ sockets = [s \in Sockets |-> "unused"]
  /\ ws = {}
  /\ reconnect = FALSE /\ isConnected = FALSE

(* connectWS: a constructor that throws is passed over in silence.         *)
ConnectWS ==
  IF usable
    THEN \E s \in Sockets :
           /\ sockets[s] = "unused"
           /\ sockets' = [sockets EXCEPT ![s] = "connecting"]
           /\ ws' = {s}
    ELSE UNCHANGED <<sockets, ws>>

Mount ==
  /\ provider = "new" /\ provider' = "mounted"
  /\ ConnectWS
  /\ UNCHANGED <<usable, reconnect, isConnected>>

(* ws.close(), for a socket that is on its way or open.                    *)
Closed == [s \in Sockets |->
             IF s \in ws /\ sockets[s] \in {"connecting", "open"} THEN "ended" ELSE sockets[s]]

Unmount ==
  /\ provider = "mounted" /\ provider' = "unmounted"
  /\ reconnect' = FALSE
  /\ sockets' = Closed
  /\ UNCHANGED <<usable, ws, isConnected>>

-----------------------------------------------------------------------------
(* onopen. An unmounted provider has closed its socket before.             *)
OnOpen(s) ==
  /\ sockets[s] = "connecting"
  /\ provider = "mounted"
  /\ sockets' = [sockets EXCEPT ![s] = "open"]
  /\ isConnected' = TRUE
  /\ UNCHANGED <<provider, usable, ws, reconnect>>

(* The server refuses, evicts the client or goes away, or the network does.*)
Disconnect(s) ==
  /\ sockets[s] \in {"connecting", "open"}
  /\ sockets' = [sockets EXCEPT ![s] = "ended"]
  /\ UNCHANGED <<provider, usable, ws, reconnect, isConnected>>

(* Mutant: only a connection that had been open is made again.             *)
OnClose_Once(s) ==
  /\ sockets[s] = "ended"
  /\ sockets' = [sockets EXCEPT ![s] = "unused"]
  /\ isConnected' = (isConnected /\ provider # "mounted")
  /\ reconnect' = (reconnect \/ (isConnected /\ provider = "mounted"))
  /\ UNCHANGED <<provider, usable, ws>>

OnClose(s) ==
  /\ sockets[s] = "ended"
  /\ sockets' = [sockets EXCEPT ![s] = "unused"]
  /\ isConnected' = (isConnected /\ provider # "mounted")
  /\ reconnect' = (reconnect \/ provider = "mounted")
  /\ UNCHANGED <<provider, usable, ws>>

Timeout ==
  /\ reconnect /\ reconnect' = FALSE
  /\ IF provider = "mounted" THEN ConnectWS ELSE UNCHANGED <<sockets, ws>>
  /\ UNCHANGED <<provider, usable, isConnected>>

DashboardNext ==
  \/ Mount \/ Unmount \/ Timeout
  \/ \E s \in Sockets : OnOpen(s) \/ Disconnect(s) \/ OnClose(s)

DashboardSpec == DashboardInit /\ [][DashboardNext]_dashboardVars

(* The event loop runs what is due, a connection that is begun opens or    *)
(* ends, and a server that is asked again and again accepts in the end.    *)
DashboardFairness ==
  /\ WF_dashboardVars(Timeout)
  /\ \A s \in Sockets :
       WF_dashboardVars(OnClose(s)) /\ SF_dashboardVars(OnOpen(s))

-----------------------------------------------------------------------------
(* The variables range over what their declarations say; there is never    *)
(* more than one attempt: a socket that is not done with, or the timer.    *)
DashboardTypeOK ==
  /\ provider \in {"new", "mounted", "unmounted"} /\ usable \in BOOLEAN
  /\ sockets \in [Sockets -> {"unused", "connecting", "open", "ended"}]
  /\ ws \subseteq Sockets
  /\ reconnect \in BOOLEAN /\ isConnected \in BOOLEAN
  /\ Cardinality({s \in Sockets : sockets[s] # "unused"}) + (IF reconnect THEN 1 ELSE 0) <= 1

(* However connections fail and whenever the page is left: a mounted       *)
(* provider whose URL the constructor takes gets to be connected whenever  *)
(* it is not, or it is unmounted and no socket and no timer is left.       *)
DashboardSettles ==
  provider # "new" /\ usable ~>
    \/ provider = "mounted" /\ isConnected
    \/ provider = "unmounted" /\ ~reconnect /\ \A s \in Sockets : sockets[s] = "unused"
=============================================================================
