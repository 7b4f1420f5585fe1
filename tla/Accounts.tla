-------------------------------- MODULE Accounts --------------------------------
(***************************************************************************)
(* Who may work: the public access desk, the super admin who reviews its   *)
(* tickets and issues logins, and the cookie sessions of the logins.  Each *)
(* HTTP request is a goroutine that runs its SQL statements one by one at  *)
(* READ COMMITTED; only CreateTechnician opens a transaction.              *)
(*                                                                         *)
(* E-mails are already normalized (trimmed, lower case) on both sides.     *)
(* Rows keep what the properties compare: names, phones, notes and shops   *)
(* are left out.  At first the super admin exists and is signed in: the    *)
(* server start that creates that user is in ServerStart.                  *)
(***************************************************************************)
EXTENDS Naturals, Sequences, FiniteSets

CONSTANTS
  Emails,      \* normalized e-mail addresses
  Root,        \* the super admin's address
  Requests,    \* request goroutines that may run at once
  Limit,       \* access requests one network may send in a Window
  Window,      \* length of the limiter's window, in ticks of clock
  MaxClock     \* bound: requests begun in one behaviour

ASSUME RootAssumption == Root \in Emails
ASSUME LimitAssumption == Limit \in Nat /\ Window \in Nat /\ MaxClock \in Nat

VARIABLES
  tickets,      \* access_requests in the order of their INSERTs
  logins,       \* users.role by e-mail (UNIQUE), committed
  technicians,  \* committed technicians rows; users.technician_id by e-mail
  cookies,      \* auth_sessions in the order of their INSERTs
  hits,         \* accessLimit.hits of the one network modelled
  req,          \* what each request is doing
  clock         \* time: ticks when a request begins

accountVars == <<tickets, logins, technicians, cookies, hits, req, clock>>

TicketStatuses == {"pending", "provisioned", "dismissed"}
Roles == {"super_admin", "technician"}
Times == 0 .. MaxClock

(* began and ended are the times of the request that filed the ticket;     *)
(* reopened: an admin set it back to pending; afterLogin: when it last     *)
(* became pending its address had a login, or one whose closing UPDATE had *)
(* already run.  All four are history.                                     *)
Ticket == [email : Emails, status : TicketStatuses, began : Times, ended : Times,
           reopened : BOOLEAN, afterLogin : BOOLEAN]

(* A technicians row and the user that links to it.                        *)
TechnicianRow == [id : Times, email : Emails]

Cookie == [email : Emails, state : {"live", "expired", "deleted"}]

NoRequest == [step |-> "idle"]

Request ==
  [step : {"lookup", "insert"}, email : Emails, began : Times]
  \cup [step : {"create_session"}, email : Emails]
  \cup [step : {"arrived", "authorized"}, route : {"issue", "review", "bay"},
        cookie : Nat, began : Times]
  \cup [step : {"technician", "user", "closed"}, email : Emails, began : Times,
        closing : SUBSET Nat]

AccountsTypeOK ==
  /\ tickets \in Seq(Ticket)
  /\ logins \in [Emails -> Roles \cup {"none"}]
  /\ technicians \subseteq TechnicianRow
  /\ cookies \in Seq(Cookie)
  /\ hits \subseteq Times
  /\ req \in [Requests -> Request \cup {NoRequest}]
  /\ clock \in Times

-----------------------------------------------------------------------------
AccountsInit ==
  /\ tickets = <<>>
  /\ logins = [e \in Emails |-> IF e = Root THEN "super_admin" ELSE "none"]
  /\ technicians = {}
  /\ cookies = <<[email |-> Root, state |-> "live"]>>
  /\ hits = {}
  /\ req = [r \in Requests |-> NoRequest]
  /\ clock = 0

(* A request begins at the next tick.                                      *)
Arrives(r) ==
  /\ req[r] = NoRequest
  /\ clock < MaxClock
  /\ clock' = clock + 1

ReqAt(r, state) == req' = [req EXCEPT ![r] = state]
ReqEnds(r) == ReqAt(r, NoRequest)

PendingOf(e) ==
  {t \in DOMAIN tickets : tickets[t].email = e /\ tickets[t].status = "pending"}

-----------------------------------------------------------------------------
(* POST /api/v1/access-requests.                                           *)

(* requestLimiter.allow runs under its mutex: it drops the hits that have  *)
(* left the window and counts this one, unless the window is full.  It     *)
(* counts before the body is read, so a malformed body, an invalid ticket  *)
(* or a filled honeypot uses a hit and then ends the request               *)
(* (AbortRequest).                                                         *)
FileTicket(r, e) ==
  LET kept == {t \in hits : clock + 1 - t < Window} IN
  /\ Arrives(r)
  /\ IF Cardinality(kept) >= Limit
     THEN hits' = kept /\ UNCHANGED req
     ELSE /\ hits' = kept \cup {clock + 1}
          /\ ReqAt(r, [step |-> "lookup", email |-> e, began |-> clock + 1])
  /\ UNCHANGED <<tickets, logins, technicians, cookies>>

(* A slip: the SELECT compares the address as it was typed.                *)
OpenTicket_AsTyped(e) == {}

(* The pending ticket the SELECT finds; what it does not see is written    *)
(* by others before the INSERT, and no unique index stops the INSERT.      *)
OpenTicket(e) == PendingOf(e)

LookupTicket(r) ==
  /\ req[r].step = "lookup"
  /\ IF OpenTicket(req[r].email) # {}
     THEN ReqEnds(r)
     ELSE ReqAt(r, [req[r] EXCEPT !.step = "insert"])
  /\ UNCHANGED <<tickets, logins, technicians, cookies, hits, clock>>

(* Whether the closing UPDATE of a login for e has already run.            *)
LoginUnderWay(e) ==
  \/ logins[e] # "none"
  \/ \E q \in Requests : req[q].step = "closed" /\ req[q].email = e

InsertTicket(r) ==
  LET e == req[r].email IN
  /\ req[r].step = "insert"
  /\ tickets' = Append(tickets,
       [email |-> e, status |-> "pending", began |-> req[r].began,
        ended |-> clock, reopened |-> FALSE, afterLogin |-> LoginUnderWay(e)])
  /\ ReqEnds(r)
  /\ UNCHANGED <<logins, technicians, cookies, hits, clock>>

-----------------------------------------------------------------------------
(* Cookies: login, logout, expiry, and what requireAuth makes of one.      *)

(* Authenticate: the right password of an address that has a user.  A      *)
(* wrong one answers 401 and changes nothing.                              *)
Authenticate(r, e) ==
  /\ Arrives(r)
  /\ logins[e] # "none"
  /\ ReqAt(r, [step |-> "create_session", email |-> e])
  /\ UNCHANGED <<tickets, logins, technicians, cookies, hits>>

CreateSession(r) ==
  /\ req[r].step = "create_session"
  /\ cookies' = Append(cookies, [email |-> req[r].email, state |-> "live"])
  /\ ReqEnds(r)
  /\ UNCHANGED <<tickets, logins, technicians, hits, clock>>

(* RevokeToken deletes the row, expired or not.                            *)
Logout(r, k) ==
  /\ Arrives(r)
  /\ cookies' = [cookies EXCEPT ![k].state = "deleted"]
  /\ UNCHANGED <<tickets, logins, technicians, hits, req>>

(* SessionTTL runs out.  The row stays in auth_sessions.                   *)
Expire(k) ==
  /\ cookies[k].state = "live"
  /\ cookies' = [cookies EXCEPT ![k].state = "expired"]
  /\ UNCHANGED <<tickets, logins, technicians, hits, req, clock>>

(* A request with a cookie arrives at one of the guarded routes.           *)
Arrive(r, k, route) ==
  /\ Arrives(r)
  /\ ReqAt(r, [step |-> "arrived", route |-> route, cookie |-> k, began |-> clock + 1])
  /\ UNCHANGED <<tickets, logins, technicians, cookies, hits>>

RoleFor(route) == IF route = "bay" THEN "technician" ELSE "super_admin"

SignedIn(k) == cookies[k].state = "live"

(* PrincipalByToken, then requireAdmin or requireTechnician: from here on  *)
(* the handler works with the principal it was given, whatever becomes of  *)
(* the cookie.                                                             *)
Authorize(r) ==
  LET k == req[r].cookie IN
  /\ req[r].step = "arrived"
  /\ IF SignedIn(k) /\ logins[cookies[k].email] = RoleFor(req[r].route)
     THEN ReqAt(r, [req[r] EXCEPT !.step = "authorized"])
     ELSE ReqEnds(r)
  /\ UNCHANGED <<tickets, logins, technicians, cookies, hits, clock>>

(* A bay route: its handler is in the other modules.                       *)
ServeBay(r) ==
  /\ req[r].step = "authorized" /\ req[r].route = "bay"
  /\ ReqEnds(r)
  /\ UNCHANGED <<tickets, logins, technicians, cookies, hits, clock>>

-----------------------------------------------------------------------------
(* What the super admin does: review a ticket, or issue a login.           *)

Locked(t) == \E q \in Requests : req[q].step = "closed" /\ t \in req[q].closing

(* SetAccessRequestStatus: one UPDATE by id, from any status to any.  It   *)
(* waits for a transaction that has updated the row.                       *)
Review(r, t, status) ==
  /\ req[r].step = "authorized" /\ req[r].route = "review"
  /\ ~Locked(t)
  /\ tickets' = [tickets EXCEPT
       ![t].status = status,
       ![t].reopened = @ \/ status = "pending",
       ![t].afterLogin = IF status = "pending" /\ tickets[t].status # "pending"
                         THEN LoginUnderWay(tickets[t].email) ELSE @]
  /\ ReqEnds(r)
  /\ UNCHANGED <<logins, technicians, cookies, hits, clock>>

(* CreateTechnician: BEGIN and INSERT INTO technicians.                    *)
InsertTechnician(r, e) ==
  /\ req[r].step = "authorized" /\ req[r].route = "issue"
  /\ ReqAt(r, [step |-> "technician", email |-> e, began |-> req[r].began,
              closing |-> {}])
  /\ UNCHANGED <<tickets, logins, technicians, cookies, hits, clock>>

(* users.email is UNIQUE: an INSERT of the same address waits for the      *)
(* transaction that has inserted it, and fails if that one commits.        *)
EmailHeld(r) ==
  \E q \in Requests \ {r} :
    req[q].step \in {"user", "closed"} /\ req[q].email = req[r].email

(* A slip: the technicians row is inserted on the pool, so the error       *)
(* leaves it behind.                                                       *)
InsertUser_RowStays(r) ==
  /\ req[r].step = "technician"
  /\ ~EmailHeld(r)
  /\ IF logins[req[r].email] = "none"
     THEN ReqAt(r, [req[r] EXCEPT !.step = "user"]) /\ UNCHANGED technicians
     ELSE /\ ReqEnds(r)
          /\ technicians' = technicians \cup
               {[id |-> req[r].began, email |-> req[r].email]}
  /\ UNCHANGED <<tickets, logins, cookies, hits, clock>>

InsertUser(r) ==
  /\ req[r].step = "technician"
  /\ ~EmailHeld(r)
  /\ IF logins[req[r].email] = "none"
     THEN ReqAt(r, [req[r] EXCEPT !.step = "user"])
     ELSE ReqEnds(r)  \* "email already in use": the deferred Rollback
  /\ UNCHANGED <<tickets, logins, technicians, cookies, hits, clock>>

(* A slip: only the newest pending ticket of the address is closed.        *)
ToClose_Newest(e) ==
  {t \in PendingOf(e) : \A u \in PendingOf(e) : u <= t}

(* The rows the UPDATE of access_requests sees and locks.                  *)
ToClose(e) == PendingOf(e)

CloseTickets(r) ==
  /\ req[r].step = "user"
  /\ ReqAt(r, [req[r] EXCEPT !.step = "closed", !.closing = ToClose(req[r].email)])
  /\ UNCHANGED <<tickets, logins, technicians, cookies, hits, clock>>

CommitLogin(r) ==
  /\ req[r].step = "closed"
  /\ logins' = [logins EXCEPT ![req[r].email] = "technician"]
  /\ technicians' = technicians \cup
       {[id |-> req[r].began, email |-> req[r].email]}
  /\ tickets' = [t \in DOMAIN tickets |->
       IF t \in req[r].closing
       THEN [tickets[t] EXCEPT !.status = "provisioned"]
       ELSE tickets[t]]
  /\ ReqEnds(r)
  /\ UNCHANGED <<cookies, hits, clock>>

-----------------------------------------------------------------------------
(* A statement fails, the body was refused or the client went away.        *)
AbortRequest(r) ==
  /\ req[r] # NoRequest
  /\ ReqEnds(r)
  /\ UNCHANGED <<tickets, logins, technicians, cookies, hits, clock>>

(* The server dies and starts again: what was in memory is gone, the       *)
(* limiter's hits with it.                                                 *)
RestartServer ==
  /\ req' = [r \in Requests |-> NoRequest]
  /\ hits' = {}
  /\ UNCHANGED <<tickets, logins, technicians, cookies, clock>>

AccountsNext ==
  \/ \E r \in Requests, e \in Emails : FileTicket(r, e) \/ Authenticate(r, e)
  \/ \E r \in Requests, k \in DOMAIN cookies : Logout(r, k)
  \/ \E r \in Requests, k \in DOMAIN cookies, route \in {"issue", "review", "bay"} :
       Arrive(r, k, route)
  \/ \E k \in DOMAIN cookies : Expire(k)
  \/ \E r \in Requests :
       \/ LookupTicket(r) \/ InsertTicket(r)
       \/ CreateSession(r)
       \/ Authorize(r) \/ ServeBay(r)
       \/ InsertUser(r) \/ CloseTickets(r) \/ CommitLogin(r)
       \/ AbortRequest(r)
  \/ \E r \in Requests, t \in DOMAIN tickets, status \in TicketStatuses :
       Review(r, t, status)
  \/ \E r \in Requests, e \in Emails : InsertTechnician(r, e)
  \/ RestartServer

AccountsSpec == AccountsInit /\ [][AccountsNext]_accountVars

-----------------------------------------------------------------------------
(* An applicant who asks again while the ticket is open gets the open one: *)
(* two open tickets of one address are there only because their requests   *)
(* overlapped, or because an admin reopened one (CreateAccessRequest).     *)
OneOpenTicket ==
  \A e \in Emails : \A s, t \in PendingOf(e) :
    \/ s = t
    \/ tickets[s].reopened \/ tickets[t].reopened
    \/ /\ tickets[s].began <= tickets[t].ended
       /\ tickets[t].began <= tickets[s].ended

(* Issuing a login closes every ticket of its address that was open then:  *)
(* an open ticket whose address can sign in was filed or reopened after    *)
(* the UPDATE of CreateTechnician (migrations/008 repaired such rows).     *)
LeftBehindOnlyByRace ==
  \A t \in DOMAIN tickets :
    tickets[t].status = "pending" /\ logins[tickets[t].email] # "none"
      => tickets[t].afterLogin

(* Tickets, logins and technicians change together as TicketDesk says: a   *)
(* login never appears without its technician, never replaces another one  *)
(* and never half closes its tickets (CreateTechnician).                   *)
Desk == INSTANCE TicketDesk WITH
          tickets <- [t \in DOMAIN tickets |->
                        [email |-> tickets[t].email, status |-> tickets[t].status]],
          TechnicianIds <- Times

DeskKeepsPromise == Desk!Spec
=============================================================================
