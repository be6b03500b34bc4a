----------------------------- MODULE ServerLists -----------------------------
(***************************************************************************)
(* The saved servers.  Two objects of the activity each keep a copy of the *)
(* list and of the autoconnect star, and each saves its whole copy under   *)
(* the same key of the preferences: ServerDiscovery, fed by the wivrn://   *)
(* intents, and WivrnLobbyView, fed by the user.  A thread of MainActivity *)
(* pushes what the first knows through the native list to the second every *)
(* half second.  The order of a list and an entry added twice are left out.*)
(***************************************************************************)
EXTENDS FiniteSets, Naturals

CONSTANTS Servers,     \* host and port of a server
          Local,       \* the entry shown when nothing is saved
          NoServer,    \* no star
          MaxEdits,    \* bound: clicks of the user, intents
          MaxChanges,  \* bound: services found and lost, preferences written
          MaxRestarts  \* bound: process deaths and new activities

ASSUME ServersAssumption == Local \in Servers /\ NoServer \notin Servers

VARIABLES
  discovery, lobbyView,   \* the copies: ServerDiscovery.servers, WivrnLobbyView.servers
  found,        \* discoveredServers of each of the two
  prefs, disk,  \* the preferences in memory, and as apply() has written them
  posted,       \* the list on its way to the UI thread
  edits         \* what is left of the bounds

serverVars == <<discovery, lobbyView, found, prefs, disk, posted, edits>>

Copies  == [list: SUBSET Servers, star: Servers \union {NoServer}]
Nothing == {NoServer}      \* no list is on its way

(* Both copies are read when the activity is created. *)
loadServers(p) == IF p.list = {} THEN [list |-> {Local}, star |-> NoServer] ELSE p

Saved(p) == prefs' = p

ServersInit ==
  /\ prefs \in {[list |-> {}, star |-> NoServer]} \union
               {[list |-> {s}, star |-> s] : s \in Servers}
  /\ disk = prefs
  /\ discovery = loadServers(prefs) /\ lobbyView = loadServers(prefs)
  /\ found = [by \in {"discovery", "lobby"} |-> {}]
  /\ posted = Nothing
  /\ edits = [user |-> MaxEdits, nsd |-> MaxChanges, restart |-> MaxRestarts]

-----------------------------------------------------------------------------
(* Network service discovery, one listener for each copy.                   *)

ServiceResolved(by, s) ==
  /\ edits.nsd > 0 /\ s \notin found[by]
  /\ found' = [found EXCEPT ![by] = @ \union {s}]
  /\ edits' = [edits EXCEPT !.nsd = @ - 1]
  /\ UNCHANGED <<discovery, lobbyView, prefs, disk, posted>>

ServiceLost(by, s) ==
  /\ s \in found[by]
  /\ found' = [found EXCEPT ![by] = @ \ {s}]
  /\ UNCHANGED <<discovery, lobbyView, prefs, disk, posted, edits>>

-----------------------------------------------------------------------------
(* The UI thread: the user in the lobby, and intents.                       *)

getAllServers(copy, by) == found[by] \union copy.list

AddServer(s) ==
  /\ edits.user > 0 /\ s \notin lobbyView.list
  /\ lobbyView' = [lobbyView EXCEPT !.list = @ \union {s}]
  /\ Saved(lobbyView')
  /\ edits' = [edits EXCEPT !.user = @ - 1]
  /\ UNCHANGED <<discovery, found, disk, posted>>

(* The X of a card: only cards of saved servers that are not also found     *)
(* have one.                                                                *)
RemoveServer(s) ==
  /\ edits.user > 0 /\ s \in lobbyView.list \ found["lobby"]
  /\ lobbyView' = [list |-> lobbyView.list \ {s},
                   star |-> IF lobbyView.star = s THEN NoServer ELSE lobbyView.star]
  /\ Saved(lobbyView')
  /\ edits' = [edits EXCEPT !.user = @ - 1]
  /\ UNCHANGED <<discovery, found, disk, posted>>

(* The star of a card; a server that was only found is saved with it. *)
setAutoconnect(s) ==
  /\ edits.user > 0 /\ s \in getAllServers(lobbyView, "lobby")
  /\ lobbyView' = IF lobbyView.star = s THEN [lobbyView EXCEPT !.star = NoServer]
                  ELSE [list |-> lobbyView.list \union {s}, star |-> s]
  /\ Saved(lobbyView')
  /\ edits' = [edits EXCEPT !.user = @ - 1]
  /\ UNCHANGED <<discovery, found, disk, posted>>

(* A wivrn:// intent: ServerDiscovery saves its own copy over the other's. *)
WivrnIntent(s) ==
  /\ edits.user > 0
  /\ edits' = [edits EXCEPT !.user = @ - 1]
  /\ IF s \in discovery.list THEN UNCHANGED <<discovery, prefs>>
     ELSE /\ discovery' = [discovery EXCEPT !.list = @ \union {s}]
          /\ Saved(discovery')
  /\ UNCHANGED <<lobbyView, found, disk, posted>>

-----------------------------------------------------------------------------
(* The synchronisation: the thread reads, the UI thread merges.             *)

(* Variant: what was found on the network is not sent. *)
SyncedSaved == discovery.list

Synced == getAllServers(discovery, "discovery")

SyncServers ==
  /\ posted = Nothing
  /\ posted' = Synced
  /\ UNCHANGED <<discovery, lobbyView, found, prefs, disk, edits>>

(* Every server the lobby does not have becomes a saved one. *)
SetServersFromNative ==
  /\ posted # Nothing
  /\ posted' = Nothing
  /\ lobbyView' = [lobbyView EXCEPT !.list = @ \union posted]
  /\ IF posted \subseteq lobbyView.list THEN UNCHANGED prefs ELSE Saved(lobbyView')
  /\ UNCHANGED <<discovery, found, disk, edits>>

-----------------------------------------------------------------------------
(* Life cycle: apply() writes later; a killed process loses what was not    *)
(* written, a recreated activity does not.                                  *)

Written ==
  /\ disk # prefs /\ disk' = prefs
  /\ UNCHANGED <<discovery, lobbyView, found, prefs, posted, edits>>

Recreated(p) ==
  /\ edits.restart > 0
  /\ edits' = [edits EXCEPT !.restart = @ - 1]
  /\ prefs' = p
  /\ discovery' = loadServers(p) /\ lobbyView' = loadServers(p)
  /\ found' = [by \in DOMAIN found |-> {}]
  /\ posted' = Nothing
  /\ UNCHANGED disk

Restarted == \E p \in {prefs, disk} : Recreated(p)

ServersNext ==
  \/ \E s \in Servers : \/ \E by \in DOMAIN found : ServiceResolved(by, s) \/ ServiceLost(by, s)
                        \/ AddServer(s) \/ RemoveServer(s) \/ setAutoconnect(s)
                        \/ WivrnIntent(s)
  \/ SyncServers \/ SetServersFromNative \/ Written \/ Restarted

-----------------------------------------------------------------------------
ServersTypeOK ==
  /\ {discovery, lobbyView, prefs, disk} \subseteq Copies
  /\ posted = Nothing \/ posted \in SUBSET Servers

(* The lobby comes to show every server the discovery goes on knowing,      *)
(* those the user deleted, lost by a restart or found again among them.     *)
ServersShown ==
  \A s \in Servers :
    []<>(s \in Synced \union found["discovery"] => s \in lobbyView.list)
=============================================================================
