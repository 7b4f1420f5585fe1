------------------------------- MODULE TicketDesk -------------------------------
(***************************************************************************)
(* What the access desk promises about tickets and logins: a ticket is     *)
(* filed once and only the super admin or the login it asks for moves it;  *)
(* a login appears with its technician and the tickets it closes, under an *)
(* e-mail that had none, and is never taken away or given another role.    *)
(* Accounts shows that its statements keep this promise.                   *)
(***************************************************************************)
EXTENDS Sequences

CONSTANTS
  Emails,  \* normalized e-mail addresses
  Root,    \* the super admin's address
  TechnicianIds  \* ids of technicians rows

VARIABLES
  tickets,  \* access_requests in the order they were filed
  logins,   \* users.role by e-mail, "none" where there is no user
  technicians  \* technicians rows with the address that links to each

desk == <<tickets, logins, technicians>>

Statuses == {"pending", "provisioned", "dismissed"}

Init ==
  /\ tickets = <<>>
  /\ logins = [e \in Emails |-> IF e = Root THEN "super_admin" ELSE "none"]
  /\ technicians = {}

File(e) ==
  /\ tickets' = Append(tickets, [email |-> e, status |-> "pending"])
  /\ UNCHANGED <<logins, technicians>>

Review(t, status) ==
  /\ tickets' = [tickets EXCEPT ![t].status = status]
  /\ UNCHANGED <<logins, technicians>>

(* Some pending tickets of the address are closed with the login.  Which   *)
(* ones is left open: a ticket filed while the login was being written may *)
(* stay behind (Accounts!LeftBehindOnlyByRace).                            *)
Issue(e, id, closed) ==
  /\ logins[e] = "none"
  /\ \A t \in closed : tickets[t] = [email |-> e, status |-> "pending"]
  /\ technicians' = technicians \cup {[id |-> id, email |-> e]}
  /\ logins' = [logins EXCEPT ![e] = "technician"]
  /\ tickets' = [t \in DOMAIN tickets |->
                   IF t \in closed THEN [tickets[t] EXCEPT !.status = "provisioned"]
                   ELSE tickets[t]]

Next ==
  \/ \E e \in Emails : File(e)
  \/ \E t \in DOMAIN tickets, status \in Statuses : Review(t, status)
  \/ \E e \in Emails, id \in TechnicianIds, closed \in SUBSET DOMAIN tickets :
       Issue(e, id, closed)

Spec == Init /\ [][Next]_desk
=============================================================================
