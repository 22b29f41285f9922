---------------------------- MODULE ServiceDesk ----------------------------
(***************************************************************************)
(* The tickets (ticket.service.ts) and the infrastructure changes          *)
(* (infra-change.service.ts) of the operations desk.                       *)
(*                                                                         *)
(* An action is one database call with the code that follows its answer.   *)
(* Every operation reads the row, then writes the columns it has chosen:   *)
(* two requests on one row cross freely.  The texts, the people, the SLA   *)
(* and the history rows, which no code reads back, are left out.           *)
(***************************************************************************)
EXTENDS Integers, FiniteSets

CONSTANTS
    Clerk,         \* requests under way at once
    Ticket, Change,
    MaxReceived       \* bound: requests

VARIABLES
    tickets,       \* database: Ticket, with status "none" when there is no row
    changes,       \* database: Change, likewise
    sequence,      \* database: TicketSequence, of tickets and of changes
    clerks,        \* the requests under way
    received

deskVars == <<tickets, changes, sequence, clerks, received>>

\* WAITING stands for PENDING, WAITING and CANCELLED, OTHER for the statuses of
\* a change but DRAFT and APPROVED.
TicketStatus == {"OPEN", "IN_PROGRESS", "WAITING", "RESOLVED", "CLOSED"}
ChangeStatus == {"DRAFT", "APPROVED", "OTHER"}
Decided      == {"none", "APPROVED", "REJECTED"}

\* resolved, closed: resolvedAt and closedAt are set.
TicketRow == [status : TicketStatus \cup {"none"}, number : Nat,
              resolved : BOOLEAN, closed : BOOLEAN]
\* decision: the last approval row.  For the properties, by: what wrote the
\* status last; crossed: that row was recorded while another decision waited.
ChangeRow == [status : ChangeStatus \cup {"none"}, number : Nat, decision : Decided,
              by : {"request", "decision"}, crossed : BOOLEAN]
NoTicket == [status |-> "none", number |-> 0, resolved |-> FALSE, closed |-> FALSE]
NoChange == [status |-> "none", number |-> 0, decision |-> "none", by |-> "request",
             crossed |-> FALSE]

\* saw: the ticket as it was read.   want: the status or decision asked for.
ClerkState == [pc : {"idle", "insertTicket", "updateTicket", "comment", "deleteTicket",
                     "insertChange", "updateChange", "decide"},
               on : SUBSET (Ticket \cup Change), saw : TicketRow,
               want : TicketStatus \cup ChangeStatus \cup Decided \cup {"same"},
               number : Nat]
Off == [pc |-> "idle", on |-> {}, saw |-> NoTicket, want |-> "same", number |-> 0]

DeskTypeOK ==
    /\ tickets \in [Ticket -> TicketRow]
    /\ changes \in [Change -> ChangeRow]
    /\ sequence \in [{"TCK", "CHG"} -> Nat]
    /\ clerks \in [Clerk -> ClerkState]
    /\ received \in Nat

DeskInit ==
    /\ tickets = [t \in Ticket |-> NoTicket]
    /\ changes = [c \in Change |-> NoChange]
    /\ sequence = [p \in {"TCK", "CHG"} |-> 0]
    /\ clerks = [k \in Clerk |-> Off]
    /\ received = 0

Ask(k) == clerks[k].pc = "idle" /\ received < MaxReceived /\ received' = received + 1
At(k, pc) == clerks[k].pc = pc
Done(k) == clerks' = [clerks EXCEPT ![k] = Off]

-----------------------------------------------------------------------------
(* Tickets                                                                 *)

\* generateTicketNumber: one upsert.
TakeNumber(k, prefix, pc) ==
    /\ sequence' = [sequence EXCEPT ![prefix] = @ + 1]
    /\ clerks' = [clerks EXCEPT ![k] = [Off EXCEPT !.pc = pc, !.number = sequence'[prefix]]]

CreateTicket(k) ==
    /\ Ask(k) /\ TakeNumber(k, "TCK", "insertTicket")
    /\ UNCHANGED <<tickets, changes>>

\* An identifier is a new one: no request remembers it.
InsertTicket(k, t) ==
    /\ At(k, "insertTicket") /\ tickets[t].status = "none"
    /\ \A j \in Clerk : t \notin clerks[j].on
    /\ tickets' = [tickets EXCEPT ![t] = [NoTicket EXCEPT !.status = "OPEN",
                                                          !.number = clerks[k].number]]
    /\ Done(k)
    /\ UNCHANGED <<changes, sequence, received>>

ReadTicket(k, t) ==
    /\ Ask(k) /\ tickets[t].status # "none"
    /\ \E pc \in {"updateTicket", "comment", "deleteTicket"},
          want \in TicketStatus \cup {"same"} :
          /\ pc # "updateTicket" => want = "same"
          /\ clerks' = [clerks EXCEPT ![k] = [Off EXCEPT !.pc = pc, !.on = {t},
                                                 !.saw = tickets[t], !.want = want]]
    /\ UNCHANGED <<tickets, changes, sequence>>

\* Mutant: closing a ticket never resolves it.
StampsOfOne(saw, want) ==
    [resolved |-> want = "RESOLVED" /\ saw.status # "RESOLVED",
     closed   |-> want = "CLOSED" /\ saw.status # "CLOSED"]

\* The stamps an update sets, by the row it has read.
Stamps(saw, want) ==
    LET closed == want = "CLOSED" /\ saw.status # "CLOSED"
    IN  [resolved |-> \/ want = "RESOLVED" /\ saw.status # "RESOLVED"
                      \/ closed /\ ~saw.resolved,
         closed   |-> closed]

UpdateTicket(k, t) ==
    /\ At(k, "updateTicket") /\ t \in clerks[k].on
    /\ LET want == clerks[k].want
           set  == Stamps(clerks[k].saw, want)
       IN  tickets' =
             IF tickets[t].status = "none" THEN tickets
             ELSE [tickets EXCEPT ![t] =
                     [@ EXCEPT !.status = IF want = "same" THEN tickets[t].status ELSE want,
                               !.resolved = tickets[t].resolved \/ set.resolved,
                               !.closed = tickets[t].closed \/ set.closed]]
    /\ Done(k)
    /\ UNCHANGED <<changes, sequence, received>>

\* addComment: a ticket that was read OPEN is put in progress, whatever it is
\* by now; the row of the comment comes first and may fail.
Comment(k, t) ==
    /\ At(k, "comment") /\ t \in clerks[k].on
    /\ \/ /\ clerks[k].saw.status = "OPEN" /\ tickets[t].status # "none"
          /\ tickets' = [tickets EXCEPT ![t].status = "IN_PROGRESS"]
       \/ UNCHANGED tickets
    /\ Done(k)
    /\ UNCHANGED <<changes, sequence, received>>

DeleteTicket(k, t) ==
    /\ At(k, "deleteTicket") /\ t \in clerks[k].on
    /\ tickets' = [tickets EXCEPT ![t] = NoTicket]
    /\ Done(k)
    /\ UNCHANGED <<changes, sequence, received>>

-----------------------------------------------------------------------------
(* Changes                                                                 *)

CreateChange(k) ==
    /\ Ask(k) /\ TakeNumber(k, "CHG", "insertChange")
    /\ UNCHANGED <<tickets, changes>>

\* In the status the request asks for.
InsertChange(k, c) ==
    /\ At(k, "insertChange") /\ changes[c].status = "none"
    /\ \E want \in ChangeStatus :
          changes' = [changes EXCEPT ![c] = [NoChange EXCEPT !.status = want,
                                                             !.number = clerks[k].number]]
    /\ Done(k)
    /\ UNCHANGED <<tickets, sequence, received>>

ReadChange(k, c) ==
    /\ Ask(k) /\ changes[c].status # "none"
    /\ \E want \in ChangeStatus :
          clerks' = [clerks EXCEPT ![k] = [Off EXCEPT !.pc = "updateChange", !.on = {c},
                                                      !.want = want]]
    /\ UNCHANGED <<tickets, changes, sequence>>

UpdateChange(k, c) ==
    /\ At(k, "updateChange") /\ c \in clerks[k].on
    /\ changes' = [changes EXCEPT ![c] = [@ EXCEPT !.status = clerks[k].want,
                                                   !.by = "request"]]
    /\ Done(k)
    /\ UNCHANGED <<tickets, sequence, received>>

Deciding(c) == {k \in Clerk : At(k, "decide") /\ c \in clerks[k].on}

\* decideApproval records the decision, whatever the status, ...
RecordDecision(k, c) ==
    /\ Ask(k) /\ changes[c].status # "none"
    /\ \E d \in {"APPROVED", "REJECTED"} :
          /\ changes' = [changes EXCEPT ![c] = [@ EXCEPT !.decision = d,
                                                         !.crossed = Deciding(c) # {}]]
          /\ clerks' = [clerks EXCEPT ![k] = [Off EXCEPT !.pc = "decide", !.on = {c},
                                                         !.want = d]]
    /\ UNCHANGED <<tickets, sequence>>

\* Mutant: a change that is rejected keeps its status.
VerdictApproves(d, status) == IF d = "APPROVED" THEN "APPROVED" ELSE status

Verdict(d, status) == IF d = "APPROVED" THEN "APPROVED" ELSE "DRAFT"

\* ... and then writes what it says of the change, if the call does not fail.
ApplyDecision(k, c) ==
    /\ At(k, "decide") /\ c \in clerks[k].on
    /\ changes' = [changes EXCEPT ![c] =
                     [@ EXCEPT !.status = Verdict(clerks[k].want, changes[c].status),
                               !.by = "decision"]]
    /\ Done(k)
    /\ UNCHANGED <<tickets, sequence, received>>

\* The database fails: the request ends where it is.
Fail(k) ==
    /\ ~At(k, "idle") /\ Done(k)
    /\ changes' = [c \in Change |->
                     IF k \in Deciding(c) THEN [changes[c] EXCEPT !.crossed = TRUE]
                     ELSE changes[c]]
    /\ UNCHANGED <<tickets, sequence, received>>

DeskNext ==
    \E k \in Clerk :
       \/ CreateTicket(k) \/ CreateChange(k) \/ Fail(k)
       \/ \E t \in Ticket : \/ InsertTicket(k, t) \/ ReadTicket(k, t) \/ UpdateTicket(k, t)
                            \/ Comment(k, t) \/ DeleteTicket(k, t)
       \/ \E c \in Change : \/ InsertChange(k, c) \/ ReadChange(k, c) \/ UpdateChange(k, c)
                            \/ RecordDecision(k, c) \/ ApplyDecision(k, c)

DeskSpec == DeskInit /\ [][DeskNext]_deskVars

-----------------------------------------------------------------------------
(* Properties                                                              *)

\* A ticket that is resolved or closed says since when, though an update sets
\* the stamps by a row that others may have written since (updateTicket:203).
TicketsStamped ==
    \A t \in Ticket :
        /\ tickets[t].status \in {"RESOLVED", "CLOSED"} => tickets[t].resolved
        /\ tickets[t].status = "CLOSED" => tickets[t].closed

\* A ticket that was resolved or closed is in progress again only because an
\* update asks for it, or because a comment was begun when the ticket was still
\* open and ends after it was resolved (addComment:281).
ReopenedKnowingly ==
    [][\A t \in Ticket :
         tickets[t].status \in {"RESOLVED", "CLOSED"} /\ tickets'[t].status = "IN_PROGRESS" =>
            \E k \in Clerk :
               /\ t \in clerks[k].on /\ clerks'[k].pc = "idle"
               /\ \/ clerks[k].pc = "updateTicket" /\ clerks[k].want = "IN_PROGRESS"
                  \/ clerks[k].pc = "comment" /\ clerks[k].saw.status = "OPEN"]_deskVars

\* When no decision waits, a change whose status a decision wrote last has the
\* status of the last decision on record, unless that decision was recorded
\* while another one waited, or failed before its status (decideApproval:153).
LastDecisionStands ==
    \A c \in Change :
        Deciding(c) = {} /\ changes[c].by = "decision" /\ ~changes[c].crossed =>
            (changes[c].status = "APPROVED") = (changes[c].decision = "APPROVED")

\* No two tickets have one number, however many are created or deleted at once
\* (generateTicketNumber:9).
NumbersUnique ==
    \A t \in Ticket, u \in Ticket :
        tickets[t].number = tickets[u].number /\ tickets[t].number > 0 => t = u

\* What the desk promises.
DeskHonest == ReopenedKnowingly /\ [](TicketsStamped /\ LastDecisionStands /\ NumbersUnique)

=============================================================================
