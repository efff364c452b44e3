----------------------------- MODULE Dashboard -----------------------------
(***************************************************************************)
(* The subscriber's dashboard (web/components/subscriber-dashboard.tsx):   *)
(* what one browser remembers of each wallet, in localStorage, and what it *)
(* shows.  A load, the poll's reads and one action of the user run at      *)
(* once; none is cancelled when the wallet changes, and each writes what   *)
(* it computed from what it had read.                                      *)
(***************************************************************************)
EXTENDS Integers, Sequences, FiniteSets

CONSTANTS
    Wallets,
    MaxOpened,      \* bound: accounts
    MaxMandates,    \* bound: mandates
    MaxLoads, MaxReads  \* bounds: in flight at once

VARIABLES
    visitor,   \* the connected wallet, or NoWallet
    storage,   \* per wallet: account, mandates, dismissed
    screen,    \* accountId and subs (id to what is shown of it)
    loads,     \* load() between its reads and its writes
    reads,     \* refreshSubs() that has not come back
    busy,      \* the action of the user that runs
    accounts,  \* the chain's: owner, by id
    mandates,  \* the chain's: subscriber and status, by id
    unread     \* history: per wallet, ids cleared as unreadable

dashboard == <<visitor, storage, screen, loads, reads, busy, accounts, mandates, unread>>

NoWallet == "none"
None == 0
Junk == 0            \* an id that is no mandate
NotBusy == [do |-> "nothing"]
NoAnswer == {}       \* or the set of the one answer
MandatesOf(w) == {id \in DOMAIN mandates : mandates[id].by = w}
AccountsOf(w) == {a \in DOMAIN accounts : accounts[a] = w}

DashboardInit ==
    /\ visitor = NoWallet /\ busy = NotBusy /\ loads = {} /\ reads = {}
    /\ storage = [w \in Wallets |-> [account |-> None, mandates |-> {}, dismissed |-> {}]]
    /\ screen = [accountId |-> None, subs |-> <<>>]
    /\ accounts = <<>> /\ mandates = <<>>
    /\ unread = [w \in Wallets |-> {}]

Keeps == UNCHANGED <<accounts, mandates, unread>>

\* refreshSubs, up to its await; a run stays busy until its own has come back.
refreshSubs(ids, for) ==
    /\ Cardinality(reads) < MaxReads
    /\ reads' = reads \cup {[ids |-> ids, for |-> for, rows |-> NoAnswer]}

-----------------------------------------------------------------------------
(* The effects of the page: load when the wallet changes, the poll, reads. *)

load ==
    /\ \E w \in (Wallets \cup {NoWallet}) \ {visitor} :
        /\ visitor' = w
        /\ IF w = NoWallet
           THEN screen' = [accountId |-> None, subs |-> <<>>] /\ loads' = loads
           ELSE /\ Cardinality(loads) < MaxLoads
                /\ loads' = loads \cup {[of |-> w, acc |-> storage[w].account,
                                         ids |-> storage[w].mandates, found |-> NoAnswer]}
                /\ screen' = screen
    /\ Keeps /\ UNCHANGED <<storage, reads, busy>>

\* The gateway reconciles mandates with the chain; accounts are as indexed.
GatewayFinds(l) ==
    /\ l.found = NoAnswer
    /\ \E accs \in SUBSET AccountsOf(l.of) :
          loads' = (loads \ {l}) \cup
              {[l EXCEPT !.found = {[accounts |-> accs, mandates |-> MandatesOf(l.of)]}]}
    /\ Keeps /\ UNCHANGED <<visitor, storage, screen, reads, busy>>

LoadEnds(l, acc, ids) ==
    /\ storage' = [storage EXCEPT
          ![l.of].account = IF l.found # NoAnswer /\ acc # None THEN acc ELSE @,
          ![l.of].mandates = ids]
    /\ screen' = [screen EXCEPT !.accountId = acc]
    /\ loads' = loads \ {l}
    /\ refreshSubs(ids, "page")
    /\ Keeps /\ UNCHANGED <<visitor, busy>>

\* One the gateway knows, unless the browser remembers one.
Adopted(l, found) == IF l.acc # None \/ found.accounts = {} THEN {l.acc} ELSE found.accounts

\* A plausible slip: a load that found something writes all of it.
LoadWrites_Resurrects(l) ==
    \/ \E found \in l.found : \E acc \in Adopted(l, found) :
          LoadEnds(l, acc, l.ids \cup found.mandates)
    \/ l.found = NoAnswer /\ LoadEnds(l, l.acc, l.ids \ storage[l.of].dismissed)

\* What was cleared is read when the list is written, after every await.
LoadWrites(l) ==
    \/ \E found \in l.found : \E acc \in Adopted(l, found) :
          LoadEnds(l, acc, (l.ids \cup found.mandates) \ storage[l.of].dismissed)
    \/ l.found = NoAnswer /\ LoadEnds(l, l.acc, l.ids \ storage[l.of].dismissed)

Poll ==
    /\ visitor # NoWallet
    /\ refreshSubs(storage[visitor].mandates, "page")
    /\ Keeps /\ UNCHANGED <<visitor, storage, screen, loads, busy>>

\* In the fall-back each id is read alone, and fails alone.
MandatesRead(r) ==
    /\ r.rows = NoAnswer
    /\ \E failed \in SUBSET r.ids :
          /\ r.ids \ DOMAIN mandates \subseteq failed
          /\ reads' = (reads \ {r}) \cup {[r EXCEPT !.rows =
                {[id \in r.ids |-> IF id \in failed THEN "unreadable" ELSE mandates[id].status]}]}
    /\ Keeps /\ UNCHANGED <<visitor, storage, screen, loads, busy>>

setSubs(r) ==
    /\ \E rows \in r.rows : screen' = [screen EXCEPT !.subs = rows]
    /\ reads' = reads \ {r}
    /\ busy' = IF r.for = "user" THEN NotBusy ELSE busy
    /\ Keeps /\ UNCHANGED <<visitor, storage, loads>>

-----------------------------------------------------------------------------
(* The user's actions; the buttons are off while one runs.  Each keeps the *)
(* wallet, and its lists, of the moment of the click.                      *)

Click == busy = NotBusy /\ visitor # NoWallet
Waits == [do |-> "read"]

doOpen ==
    /\ Click /\ screen.accountId = None
    /\ busy' = [do |-> "open", as |-> visitor]
    /\ Keeps /\ UNCHANGED <<visitor, storage, screen, loads, reads>>

\* For doOpen, and for doSubscribe by somebody without an account.
openAccount(then) ==
    /\ Len(accounts) < MaxOpened
    /\ accounts' = Append(accounts, busy.as)
    /\ storage' = [storage EXCEPT ![busy.as].account = Len(accounts')]
    /\ screen' = [screen EXCEPT !.accountId = Len(accounts')]
    /\ busy' = then
    /\ UNCHANGED <<visitor, loads, reads, mandates, unread>>

doTrack ==
    /\ Click
    /\ \E id \in {Junk} \cup DOMAIN mandates :
        /\ storage' = [storage EXCEPT ![visitor].dismissed = @ \ {id}, ![visitor].mandates = @ \cup {id}]
        /\ refreshSubs(storage'[visitor].mandates, "user")
    /\ busy' = Waits
    /\ Keeps /\ UNCHANGED <<visitor, screen, loads>>

ClearRows(shown) ==
    LET gone == {id \in DOMAIN screen.subs : screen.subs[id] = shown}
    IN  /\ gone # {}
        /\ storage' = [storage EXCEPT ![visitor].dismissed = @ \cup gone,
                ![visitor].mandates = @ \ (gone \cup storage[visitor].dismissed)]
        /\ screen' = [screen EXCEPT !.subs = [id \in DOMAIN @ \ gone |-> @[id]]]
        /\ unread' = [unread EXCEPT ![visitor] = IF shown = "unreadable" THEN @ \cup gone ELSE @]

doClearUnreadable == Click /\ ClearRows("unreadable") /\ UNCHANGED <<visitor, loads, reads, busy, accounts, mandates>>
doClearRevoked == Click /\ ClearRows("revoked") /\ UNCHANGED <<visitor, loads, reads, busy, accounts, mandates>>

doSubscribe ==
    /\ Click
    /\ busy' = [do |-> IF screen.accountId = None THEN "open first" ELSE "authorize",
                as |-> visitor, acct |-> screen.accountId]
    /\ Keeps /\ UNCHANGED <<visitor, storage, screen, loads, reads>>

\* The account on the screen may be another wallet's: the chain refuses it.
authorize ==
    /\ Len(mandates) < MaxMandates /\ accounts[busy.acct] = busy.as
    /\ mandates' = Append(mandates, [by |-> busy.as, status |-> "active"])
    /\ busy' = [do |-> "remember", as |-> busy.as, id |-> Len(mandates')]
    /\ UNCHANGED <<visitor, storage, screen, loads, reads, accounts, unread>>

Remember ==
    /\ storage' = [storage EXCEPT ![busy.as].mandates = @ \cup {busy.id}]
    /\ refreshSubs(storage'[busy.as].mandates, "user")
    /\ busy' = Waits
    /\ Keeps /\ UNCHANGED <<visitor, screen, loads>>

\* doPause, doResume, doRevoke, on a row that shows the status they start from.
doRow ==
    /\ Click
    /\ \E id \in DOMAIN screen.subs : \E step \in {<<"active", "paused">>, <<"paused", "active">>,
          <<"active", "revoked">>, <<"paused", "revoked">>} :
        /\ screen.subs[id] = step[1]
        /\ busy' = [do |-> "set", as |-> visitor, id |-> id, to |-> step[2]]
    /\ Keeps /\ UNCHANGED <<visitor, storage, screen, loads, reads>>

\* revoke asks for no status; pause and resume ask for the other one.
setStatus ==
    LET m == mandates[busy.id]
    IN  /\ m.by = busy.as
        /\ busy.to = "revoked" \/ <<m.status, busy.to>> \in {<<"active", "paused">>, <<"paused", "active">>}
        /\ mandates' = [mandates EXCEPT ![busy.id].status = busy.to]
        /\ refreshSubs(storage[busy.as].mandates, "user")
        /\ busy' = Waits
        /\ UNCHANGED <<visitor, storage, screen, loads, accounts, unread>>

\* An abort, a refused signature, or an answer that is lost after the fact.
Throws ==
    /\ busy.do \notin {"nothing", "read"}
    /\ busy' = NotBusy
    /\ Keeps /\ UNCHANGED <<visitor, storage, screen, loads, reads>>

ActionGoesOn ==
    \/ busy.do = "open" /\ openAccount(NotBusy)
    \/ busy.do = "open first" /\
        openAccount([do |-> "authorize", as |-> busy.as, acct |-> Len(accounts) + 1])
    \/ busy.do = "authorize" /\ authorize
    \/ busy.do = "remember" /\ Remember
    \/ busy.do = "set" /\ setStatus
    \/ Throws

\* The same person with another device.
ElsewhereActs ==
    /\ \/ \E w \in Wallets : Len(mandates) < MaxMandates
             /\ mandates' = Append(mandates, [by |-> w, status |-> "active"])
       \/ \E id \in DOMAIN mandates : mandates[id].status # "revoked"
             /\ mandates' = [mandates EXCEPT ![id].status = "revoked"]
    /\ UNCHANGED <<visitor, storage, screen, loads, reads, busy, accounts, unread>>

\* The page is loaded again: only storage survives.
ReloadPage ==
    /\ visitor' = NoWallet /\ busy' = NotBusy /\ loads' = {} /\ reads' = {}
    /\ screen' = [accountId |-> None, subs |-> <<>>]
    /\ Keeps /\ UNCHANGED storage

DashboardNext ==
    \/ load \/ Poll \/ ReloadPage \/ ElsewhereActs
    \/ \E l \in loads : GatewayFinds(l) \/ LoadWrites(l)
    \/ \E r \in reads : MandatesRead(r) \/ setSubs(r)
    \/ doOpen \/ doTrack \/ doClearUnreadable \/ doClearRevoked \/ doSubscribe \/ doRow
    \/ ActionGoesOn

DashboardSpec == DashboardInit /\ [][DashboardNext]_dashboard
-----------------------------------------------------------------------------
(* Properties.                                                             *)

\* What the user has cleared stays out of the list, whatever was being loaded.
ClearedStayCleared == \A w \in Wallets : storage[w].mandates \cap storage[w].dismissed = {}

\* However old the rows are and whosoever's, clearing the revoked ones hides
\* no mandate that can still be charged; one that could not be read may be.
OnlyTheRevokedAreHidden ==
    \A w \in Wallets : \A id \in (storage[w].dismissed \ unread[w]) \cap MandatesOf(w) :
        mandates[id].status = "revoked"

\* A wallet's account and the one a mandate is signed on are its own.
AccountsAreOwn ==
    \A w \in Wallets : storage[w].account # None => accounts[storage[w].account] = w

\* An id leaves the list when it is cleared, or because a load that had read
\* the list before the id was in it writes what it has.
ForgetsOnlyWhatLoadsMissed ==
    \A w \in Wallets : \A id \in storage[w].mandates \ storage'[w].mandates :
        \/ id \in storage'[w].dismissed
        \/ \E l \in loads \ loads' : l.of = w /\ id \notin l.ids

\* subscriber-dashboard.tsx 141-144, 207-248 and 305-306: overlapping loads,
\* reads and actions, and wallets that change under them, keep the lists.
ListsAreKept ==
    /\ [](ClearedStayCleared /\ OnlyTheRevokedAreHidden /\ AccountsAreOwn)
    /\ [][ForgetsOnlyWhatLoadsMissed]_dashboard
=============================================================================
