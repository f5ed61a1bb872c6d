------------------------------ MODULE Listing ------------------------------
(***************************************************************************)
(* The plugins of the market and the submissions about them: plugins are   *)
(* registered under an id of their own, edited by writing back the whole   *)
(* row, handed on with an account, listed and unlisted; a decision closes  *)
(* the submissions that wait for it.                                       *)
(***************************************************************************)
EXTENDS Naturals, Sequences, FiniteSets, SequencesExt

CONSTANTS
    Authors,       \* users that own plugins
    Names,         \* plugin names; the first plugin of a name has it as its id
    Spare,         \* ids made up where the name is taken
    Repos,         \* repositories
    Writers,       \* requests that edit or ask for listing
    None,
    MaxTickets     \* bound: submissions about one plugin

VARIABLES
    market,        \* market_plugins
    tickets,       \* market_submissions of a plugin, in order
    decided,       \* how many submissions a plugin had at its last decision
    writer         \* a request: its step and what it has read

vars == <<market, tickets, decided, writer>>

Ids == Names \cup Spare
NotListed == [owner |-> None, name |-> None, repo |-> None, status |-> "absent"]
Waiting == [at |-> "free", plugin |-> None, row |-> NotListed]

Init ==
    /\ market = [p \in Ids |-> NotListed]
    /\ tickets = [p \in Ids |-> <<>>]
    /\ decided = [p \in Ids |-> 0]
    /\ writer = [w \in Writers |-> Waiting]

Known == {p \in Ids : market[p] # NotListed}

(* The unique indexes: an owner has one plugin of a name, a repository one *)
(* plugin.                                                                 *)
Distinct(rows) ==
    \A p, q \in {i \in Ids : rows[i] # NotListed} :
        p # q => /\ <<rows[p].owner, rows[p].name>> # <<rows[q].owner, rows[q].name>>
                 /\ rows[p].repo # rows[q].repo

Own(u, n) == {p \in Known : market[p].owner = u /\ market[p].name = n}

(* A bug: the name is the id, whatever has become of the plugin of that id.*)
IdIsName(u, n) ==
    IF Own(u, n) # {} THEN Own(u, n)
    ELSE {p \in {n} : market[p].owner \in {u, None}}

(* _plugin_registration_id, under a lock on the name: the owner's plugin   *)
(* of that name, or the name, or another id where the name is taken.       *)
RegistrationId(u, n) ==
    IF Own(u, n) # {} THEN Own(u, n)
    ELSE IF n \notin Known THEN {n}
    ELSE IF Spare \subseteq Known THEN {}
    ELSE {CHOOSE p \in Spare : p \notin Known}

SameRepo(u, n, repo) == \A p \in Own(u, n) : market[p].repo = repo

(* submit_plugin: a plugin that is there keeps its status.  The approval   *)
(* by the site that may follow is a decision like a moderator's.           *)
SubmitPlugin(u, n, repo) ==
    /\ SameRepo(u, n, repo)
    /\ \E p \in RegistrationId(u, n) :
          /\ Len(tickets[p]) < MaxTickets
          /\ market' = [market EXCEPT ![p] =
                 [owner |-> u, name |-> n, repo |-> repo,
                  status |-> IF @ = NotListed THEN "pending" ELSE @.status]]
          /\ Distinct(market')
          /\ tickets' = [tickets EXCEPT ![p] = Append(@, "pending")]
    /\ UNCHANGED <<decided, writer>>

(* register_plugin, for the CDN: an existing plugin stays as it is.        *)
RegisterPlugin(u, n, repo) ==
    /\ SameRepo(u, n, repo)
    /\ \E p \in RegistrationId(u, n) :
          /\ p \notin Known
          /\ market' = [market EXCEPT ![p] = [owner |-> u, name |-> n, repo |-> repo,
                                              status |-> "pending"]]
          /\ Distinct(market')
    /\ UNCHANGED <<tickets, decided, writer>>

(* A bug: the submissions that wait are left waiting.                      *)
LeavePending(p) == UNCHANGED tickets

(* _complete_pending_submissions, with either result                       *)
CompletePending(p) == tickets' = [tickets EXCEPT ![p] = [i \in 1..Len(@) |-> "closed"]]

(* update_plugin_status and unlist_plugin, in one transaction each.        *)
DecidePlugin(p, status) ==
    /\ p \in Known /\ status \in {"listed", "unlisted"}
    /\ market' = [market EXCEPT ![p].status = status]
    /\ CompletePending(p)
    /\ decided' = [decided EXCEPT ![p] = Len(tickets[p])]
    /\ UNCHANGED writer

(* request_plugin_list reads the status; request_plugin_listing writes.    *)
AskListing(w, p) ==
    /\ writer[w] = Waiting /\ p \in Known /\ market[p].status # "listed"
    /\ writer' = [writer EXCEPT ![w] = [Waiting EXCEPT !.at = "asked", !.plugin = p]]
    /\ UNCHANGED <<market, tickets, decided>>

RequestListing(w) ==
    LET p == writer[w].plugin
        waiting == \E i \in 1..Len(tickets[p]) : tickets[p][i] = "pending"
    IN
    /\ writer[w].at = "asked"
    /\ waiting \/ Len(tickets[p]) < MaxTickets
    /\ market' = [market EXCEPT ![p].status = "pending"]
    /\ tickets' = IF waiting THEN tickets ELSE [tickets EXCEPT ![p] = Append(@, "pending")]
    /\ writer' = [writer EXCEPT ![w] = Waiting]
    /\ UNCHANGED decided

(* update_plugin_metadata, of an edit or of a synchronization: the row is  *)
(* read, patched and written back, its status and owner too.               *)
ReadRow(w, p, name, repo) ==
    /\ writer[w] = Waiting /\ p \in Known
    /\ market[p].name = name \/ market[p].repo = repo
    /\ writer' = [writer EXCEPT ![w] =
           [at |-> "edit", plugin |-> p, row |-> [market[p] EXCEPT !.name = name, !.repo = repo]]]
    /\ UNCHANGED <<market, tickets, decided>>

WriteRow(w) ==
    /\ writer[w].at = "edit"
    /\ LET written == [market EXCEPT ![writer[w].plugin] = writer[w].row] IN
       market' = IF Distinct(written) THEN written ELSE market
    /\ writer' = [writer EXCEPT ![w] = Waiting]
    /\ UNCHANGED <<tickets, decided>>

(* delete_user and merge_user_into_user hand the plugins on.               *)
HandOn(from, to) ==
    /\ from # to
    /\ market' = [p \in Ids |-> IF market[p].owner = from THEN [market[p] EXCEPT !.owner = to]
                                ELSE market[p]]
    /\ Distinct(market')
    /\ UNCHANGED <<tickets, decided, writer>>

Next ==
    \/ \E u \in Authors, n \in Names, repo \in Repos :
          RegisterPlugin(u, n, repo) \/ SubmitPlugin(u, n, repo)
    \/ \E w \in Writers :
          \/ RequestListing(w) \/ WriteRow(w)
          \/ \E p \in Ids : AskListing(w, p)
          \/ \E p \in Ids, n \in Names, repo \in Repos : ReadRow(w, p, n, repo)
    \/ \E p \in Ids, status \in {"listed", "unlisted"} : DecidePlugin(p, status)
    \/ \E from, to \in Authors : HandOn(from, to)
-----------------------------------------------------------------------------
TypeOK ==
    /\ market \in [Ids -> [owner : Authors \cup {None}, name : Names \cup {None},
                           repo : Repos \cup {None},
                           status : {"absent", "pending", "listed", "unlisted"}]]
    /\ \A p \in Ids : Len(tickets[p]) <= MaxTickets /\ decided[p] <= MaxTickets
    /\ writer \in [Writers -> [at : {"free", "asked", "edit"},
                               plugin : Ids \cup {None},
                               row : [owner : Authors \cup {None}, name : Names \cup {None},
                                      repo : Repos \cup {None},
                                      status : {"absent", "pending", "listed", "unlisted"}]]]

(* A submission goes to a plugin of its own name, owner and repository, or *)
(* makes a new one: it never takes over a row, also where names were       *)
(* changed and plugins handed on (store.py, _plugin_registration_id).      *)
SubmitsApart ==
    \A p \in Known :
       Len(tickets'[p]) > Len(tickets[p])
           => [market'[p] EXCEPT !.status = market[p].status] = market[p]

(* A submission that waits was made after the last decision about its      *)
(* plugin, whoever writes the plugin's row meanwhile (store.py,            *)
(* update_plugin_status and unlist_plugin).                                *)
PendingIsNew ==
    \A p \in Ids : \A i \in 1..decided[p] : tickets[p][i] # "pending"
=============================================================================
